------------------------------ MODULE NetFSProofs ------------------------------
(* What the client of a network file system may conclude from an answer, for any *)
(* number of calls and whatever is lost or late: that it is the answer to its     *)
(* request, that a write it reports has been done, and that its cache is not older *)
(* than the file.  And what the mount table keeps of the drivers, for any paths   *)
(* and any number of them.                                                        *)
EXTENDS NetFS, Mounts, SequenceTheorems, TLAPS

Writes == {"touch", "append", "writeChunk"}
Rewriting == {"touch", "append"}   \* those that are tasks of the daemon

(* How many pieces a request of an operation is for. *)
PiecesFit(r) ==
    /\ r.op \in {"touch", "append"} => r.n = 1
    /\ r.op = "writeChunk" => r.n \in {1, 2}

(* The requests a call of kind k sends; it sends its second piece when the first *)
(* one has been written.                                                          *)
KindFits(c, k, r) ==
    /\ r.op \in {"touch", "append"} => k = r.op
    /\ r.op = "writeChunk" => k \in Big
    /\ r.op = "unlink" => k \in {"unlink", "bigTouch"}
    /\ r.op = "getSize" => k \in {"read", "bigAppend"}
    /\ r.op = "stat" => k = "stat"
    /\ r.op \in {"read", "readChunk"} => k = "read"
    /\ r.op = "writeChunk" /\ r.n = 2 => <<c, 1>> \in written

(* What a call of kind k has written when it is done. *)
Done(c, k) ==
    /\ k \in Big => {<<c, 1>>, <<c, 2>>} \subseteq written
    /\ k \in {"touch", "append"} => <<c, 1>> \in written

(* A frame on its way is of a request that was made, and of the one that waits  *)
(* under its number if there is one.                                             *)
FrameFits(c, r) ==
    /\ r.id \in 1 .. seq
    /\ PiecesFit(r)
    /\ \A d \in Call : rpcOf[d].id = r.id => d = c /\ rpcOf[d] = r

(* A task that has only its file to close has written what it is for. *)
TaskFits(s) ==
    /\ FrameFits(s.call, s.rpc)
    /\ s.step = "close" /\ s.rpc.op \in Writes => <<s.call, 1>> \in written

FramesFit ==
    /\ \A i \in 1 .. Len(requests) : FrameFits(requests[i].call, requests[i].rpc)
    /\ \A s \in serving : TaskFits(s)
    /\ \A i \in 1 .. Len(replies) :
          /\ FrameFits(replies[i].call, replies[i].rpc)
          /\ replies[i].ok /\ replies[i].rpc.op \in Writes =>
                <<replies[i].call, replies[i].rpc.n>> \in written

CallsFit ==
    \A c \in Call : rpcOf[c] # NoRpc =>
        rpcOf[c].id \in 1 .. seq /\ PiecesFit(rpcOf[c]) /\ KindFits(c, kind[c], rpcOf[c])

(* The part of the type invariant that the proof needs. *)
Request0 == [call : Call, rpc : Rpc]
Reply0 == [call : Call, rpc : Rpc, ok : BOOLEAN, val : Nat]

TaskTyped(s) ==
    /\ s.call \in Call /\ s.rpc \in Rpc
    /\ s.rpc.op \in {"touch", "append", "read"}
    /\ s.step # "close" => s.rpc.op # "read"

Typed ==
    /\ exists \in BOOLEAN
    /\ seq \in Nat
    /\ rpcOf \in [Call -> Rpc]
    /\ kind \in [Call -> Operation \union {"none"}]
    /\ outcome \in [Call -> {"idle", "running", "ok", "failed"}]
    /\ requests \in Seq(Request0)
    /\ \A s \in serving : TaskTyped(s)
    /\ replies \in Seq(Reply0)

NetfsInv == Typed /\ FramesFit /\ CallsFit /\ SuccessMeansWritten

(* A step of call c: it sends a request, or ends. *)
Sends(c, k) ==
    \E r \in Rpc :
        /\ r.id = seq + 1 /\ PiecesFit(r) /\ KindFits(c, k, r)
        /\ seq' = seq + 1
        /\ rpcOf' = [rpcOf EXCEPT ![c] = r]
        /\ requests' = Append(requests, [call |-> c, rpc |-> r])
        /\ outcome' = [outcome EXCEPT ![c] = "running"]

Ends(c, k) ==
    \E how \in {"ok", "failed"} :
        /\ how = "ok" => Done(c, k)
        /\ outcome' = [outcome EXCEPT ![c] = how]
        /\ rpcOf' = [rpcOf EXCEPT ![c] = NoRpc]
        /\ UNCHANGED <<seq, requests>>

LEMMA NoRpcFits == NoRpc \in Rpc
BY DEF NoRpc, Rpc, Op

LEMMA NetfsInvInit == NetfsInit => NetfsInv
<1> SUFFICES ASSUME NetfsInit PROVE NetfsInv
  OBVIOUS
<1>1. Typed
  BY NoRpcFits DEF NetfsInit, Typed
<1>2. Len(requests) = 0 /\ Len(replies) = 0 /\ serving = {}
  BY DEF NetfsInit
<1>3. FramesFit
  BY <1>2 DEF FramesFit
<1>4. CallsFit /\ SuccessMeansWritten
  BY DEF NetfsInit, CallsFit, SuccessMeansWritten
<1> QED BY <1>1, <1>3, <1>4 DEF NetfsInv

LEMMA RequestSends ==
    ASSUME Typed, NEW c \in Call, NEW k, NEW op \in Op, NEW at \in Nat, NEW n \in Nat,
           Request(c, op, at, n),
           PiecesFit([id |-> seq + 1, op |-> op, at |-> at, n |-> n]),
           KindFits(c, k, [id |-> seq + 1, op |-> op, at |-> at, n |-> n])
    PROVE  Sends(c, k)
<1> DEFINE r == [id |-> seq + 1, op |-> op, at |-> at, n |-> n]
<1>1. r \in Rpc /\ r.id = seq + 1
  BY DEF Typed, Rpc
<1>2. /\ seq' = seq + 1
      /\ rpcOf' = [rpcOf EXCEPT ![c] = r]
      /\ requests' = Append(requests, [call |-> c, rpc |-> r])
      /\ outcome' = [outcome EXCEPT ![c] = "running"]
  BY DEF Request, NewId
<1>3. PiecesFit(r) /\ KindFits(c, k, r)
  OBVIOUS
<1> HIDE DEF r
<1> QED BY <1>1, <1>2, <1>3 DEF Sends

(* What a call does when its request is settled, by its own answer or not at    *)
(* all.                                                                          *)
LEMMA ContinueMoves ==
    ASSUME NetfsInv, NEW c \in Call, rpcOf[c] # NoRpc, NEW ok \in BOOLEAN, NEW val \in Nat,
           Continue(c, ok, val),
           ok /\ rpcOf[c].op \in Writes => <<c, rpcOf[c].n>> \in written
    PROVE  Sends(c, kind[c]) \/ Ends(c, kind[c])
<1> DEFINE r == rpcOf[c]
           k == kind[c]
<1>1. /\ r \in Rpc /\ PiecesFit(r) /\ KindFits(c, k, r)
      /\ r.at \in Nat /\ r.n \in Nat /\ k \in Operation \union {"none"}
  BY DEF NetfsInv, Typed, CallsFit, Rpc
<1>2. ASSUME End(c, "failed") PROVE Ends(c, k)
  BY <1>2 DEF End, Ends
<1>3. ASSUME End(c, "ok"), Done(c, k) PROVE Ends(c, k)
  BY <1>3 DEF End, Ends
<1>4. ASSUME NEW n \in {1, 2}, NEW at \in Nat, Request(c, "writeChunk", at, n),
             k \in Big, n = 2 => <<c, 1>> \in written
      PROVE  Sends(c, k)
  BY <1>4, RequestSends DEF NetfsInv, PiecesFit, KindFits, Op
<1>5. ASSUME NEW n \in Nat, Request(c, "getSize", 0, n), k = "read"
      PROVE  Sends(c, k)
  BY <1>5, RequestSends DEF NetfsInv, PiecesFit, KindFits, Op
<1>6. ASSUME NEW n \in Nat, NEW at \in Nat, Request(c, "readChunk", at, n), k = "read"
      PROVE  Sends(c, k)
  BY <1>6, RequestSends DEF NetfsInv, PiecesFit, KindFits, Op
<1> SUFFICES Sends(c, k) \/ Ends(c, k)
  OBVIOUS
<1> HIDE DEF k
<1>7. CASE r.op = "unlink" /\ k = "bigTouch" /\ Request(c, "writeChunk", 0, 1)
  BY <1>4, <1>7 DEF Big
<1>8. CASE r.op = "getSize" /\ k = "bigAppend"
           /\ Request(c, "writeChunk", Offset(ok, val), 1)
  BY <1>4, <1>8 DEF Big, Offset
<1>9. CASE r.op = "writeChunk" /\ NextChunk(c, r, ok)
  <2>1. k \in Big /\ r.n \in {1, 2}
    BY <1>1, <1>9 DEF PiecesFit, KindFits
  <2>2. CASE ~ ok
    BY <1>2, <1>9, <2>2 DEF NextChunk, Fail
  <2>3. CASE ok /\ r.n = 1
    <3>1. <<c, 1>> \in written
      BY <1>9, <2>3 DEF Writes
    <3>2. Request(c, "writeChunk", r.at + 1, 2)
      BY <1>9, <2>3 DEF NextChunk
    <3> QED BY <1>1, <1>4, <2>1, <3>1, <3>2
  <2>4. CASE ok /\ r.n = 2
    <3>1. <<c, 1>> \in written /\ <<c, 2>> \in written
      BY <1>1, <1>9, <2>4 DEF Writes, KindFits
    <3>2. Done(c, k)
      BY <2>1, <3>1 DEF Done, Big
    <3>3. End(c, "ok")
      BY <1>9, <2>4 DEF NextChunk, EndWrite
    <3> QED BY <1>3, <3>2, <3>3
  <2> QED BY <2>1, <2>2, <2>3, <2>4
<1>10. CASE r.op \in {"touch", "append"} /\ (IF ok THEN EndWrite(c) ELSE Fail(c))
  <2>1. k = r.op /\ r.n = 1
    BY <1>1, <1>10 DEF PiecesFit, KindFits
  <2>2. ok => Done(c, k)
    BY <1>10, <2>1 DEF Done, Big, Writes
  <2> QED BY <1>2, <1>3, <1>10, <2>2 DEF EndWrite, Fail
<1>11. CASE r.op = "unlink" /\ k = "unlink" /\ (IF ok THEN EndWrite(c) ELSE Fail(c))
  <2>1. Done(c, k)
    BY <1>11 DEF Done, Big
  <2> QED BY <1>2, <1>3, <1>11, <2>1 DEF EndWrite, Fail
<1>12. CASE r.op = "stat" /\ (End(c, "ok") \/ Fail(c))
  <2>1. Done(c, k)
    BY <1>1, <1>12 DEF Done, Big, KindFits
  <2> QED BY <1>2, <1>3, <1>12, <2>1 DEF Fail
<1>13. CASE r.op = "read" /\ (Request(c, "getSize", 0, 0) \/ EndRead(c) \/ Fail(c))
  <2>1. k = "read"
    BY <1>1, <1>13 DEF KindFits
  <2>2. Done(c, k)
    BY <2>1 DEF Done, Big
  <2> QED BY <1>2, <1>3, <1>5, <1>13, <2>1, <2>2 DEF EndRead, Fail
<1>14. CASE r.op = "getSize" /\ k = "read"
            /\ IF ok /\ val > 0 THEN Request(c, "readChunk", 0, val) ELSE Fail(c)
  BY <1>2, <1>6, <1>14 DEF Fail
<1>15. CASE r.op = "readChunk" /\ NextPiece(c, r, ok, val)
  <2>1. k = "read"
    BY <1>1, <1>15 DEF KindFits
  <2>2. Done(c, k)
    BY <2>1 DEF Done, Big
  <2>3. r.n > 1 => r.n - 1 \in Nat /\ r.at + 1 \in Nat
    BY <1>1
  <2> QED BY <1>2, <1>3, <1>6, <1>15, <2>1, <2>2, <2>3 DEF NextPiece, EndRead, Fail
<1> QED
  BY <1>7, <1>8, <1>9, <1>10, <1>11, <1>12, <1>13, <1>14, <1>15 DEF Continue, k

LEMMA TailElements ==
    ASSUME NEW S, NEW s \in Seq(S), s # <<>>
    PROVE  /\ Tail(s) \in Seq(S)
           /\ \A i \in 1 .. Len(Tail(s)) : \E j \in 1 .. Len(s) : Tail(s)[i] = s[j]
<1>1. /\ Tail(s) \in Seq(S) /\ Len(Tail(s)) = Len(s) - 1
      /\ \A i \in 1 .. Len(Tail(s)) : Tail(s)[i] = s[i + 1] /\ i + 1 \in 1 .. Len(s)
  OBVIOUS
<1> QED BY <1>1

LEMMA AppendElements ==
    ASSUME NEW S, NEW s \in Seq(S), NEW e \in S
    PROVE  /\ Append(s, e) \in Seq(S)
           /\ \A i \in 1 .. Len(Append(s, e)) :
                 Append(s, e)[i] = e \/ \E j \in 1 .. Len(s) : Append(s, e)[i] = s[j]
<1>1. /\ Append(s, e) \in Seq(S) /\ Len(Append(s, e)) = Len(s) + 1 /\ Len(s) \in Nat
      /\ Append(s, e)[Len(s) + 1] = e
      /\ \A i \in 1 .. Len(s) : Append(s, e)[i] = s[i]
  OBVIOUS
<1>2. \A i \in 1 .. Len(s) + 1 : i = Len(s) + 1 \/ i \in 1 .. Len(s)
  BY <1>1
<1> QED BY <1>1, <1>2

(* A task of the daemon that is new, or has made a syscall. *)
NewTask(s) ==
    /\ TaskTyped(s)
    /\ FrameFits(s.call, s.rpc)
    /\ s.step = "close" /\ s.rpc.op \in Writes => <<s.call, 1>> \in written'

(* The frames fit after a step if those that are new fit. *)
LEMMA FramesCarried ==
    ASSUME Typed, FramesFit, Typed', written \subseteq written',
           \A x \in Call, f \in Rpc : FrameFits(x, f) => FrameFits(x, f)',
           \A i \in 1 .. Len(requests') :
              \/ \E j \in 1 .. Len(requests) : requests'[i] = requests[j]
              \/ \E x \in Call, f \in Rpc :
                    requests'[i] = [call |-> x, rpc |-> f] /\ FrameFits(x, f)',
           \A s \in serving' : s \in serving \/ NewTask(s),
           \A i \in 1 .. Len(replies') :
              \/ \E j \in 1 .. Len(replies) : replies'[i] = replies[j]
              \/ \E x \in Call, f \in Rpc :
                    /\ replies'[i].call = x /\ replies'[i].rpc = f /\ FrameFits(x, f)
                    /\ replies'[i].ok /\ f.op \in Writes => <<x, f.n>> \in written'
    PROVE  FramesFit'
<1>1. \A i \in 1 .. Len(requests') : requests'[i] \in Request0
  BY DEF Typed
<1>2. \A i \in 1 .. Len(replies') : replies'[i] \in Reply0
  BY DEF Typed
<1>3. \A x \in Call, f \in Rpc, i \in 1 .. Len(requests') :
         x = requests'[i].call /\ f = requests'[i].rpc => FrameFits(x, f)'
  <2> SUFFICES ASSUME NEW x \in Call, NEW f \in Rpc, NEW i \in 1 .. Len(requests'),
                      x = requests'[i].call, f = requests'[i].rpc
               PROVE  FrameFits(x, f)'
    OBVIOUS
  <2>1. CASE \E j \in 1 .. Len(requests) : requests'[i] = requests[j]
    <3>1. FrameFits(x, f)
      BY <2>1 DEF FramesFit
    <3> QED BY <3>1
  <2>2. CASE \E y \in Call, g \in Rpc :
                requests'[i] = [call |-> y, rpc |-> g] /\ FrameFits(y, g)'
    <3>1. PICK y \in Call, g \in Rpc :
             requests'[i] = [call |-> y, rpc |-> g] /\ FrameFits(y, g)'
      BY <2>2
    <3>2. x = y /\ f = g
      BY <3>1
    <3> QED BY <3>1, <3>2
  <2> QED BY <2>1, <2>2
<1>4. \A s \in serving' : TaskFits(s)'
  <2> SUFFICES ASSUME NEW s \in serving' PROVE TaskFits(s)'
    OBVIOUS
  <2>1. /\ FrameFits(s.call, s.rpc) /\ s.call \in Call /\ s.rpc \in Rpc
        /\ s.step = "close" /\ s.rpc.op \in Writes => <<s.call, 1>> \in written'
    BY DEF FramesFit, TaskFits, Typed, TaskTyped, NewTask
  <2>2. FrameFits(s.call, s.rpc)'
    BY <2>1
  <2> QED BY <2>1, <2>2 DEF TaskFits
<1>5. \A x \in Call, f \in Rpc, i \in 1 .. Len(replies') :
         x = replies'[i].call /\ f = replies'[i].rpc =>
            FrameFits(x, f)' /\ (replies'[i].ok /\ f.op \in Writes => <<x, f.n>> \in written')
  <2> SUFFICES ASSUME NEW x \in Call, NEW f \in Rpc, NEW i \in 1 .. Len(replies'),
                      x = replies'[i].call, f = replies'[i].rpc
               PROVE  FrameFits(x, f)
                      /\ (replies'[i].ok /\ f.op \in Writes => <<x, f.n>> \in written')
    OBVIOUS
  <2>1. CASE \E j \in 1 .. Len(replies) : replies'[i] = replies[j]
    BY <2>1 DEF FramesFit
  <2>2. CASE \E y \in Call, g \in Rpc :
                /\ replies'[i].call = y /\ replies'[i].rpc = g /\ FrameFits(y, g)
                /\ replies'[i].ok /\ g.op \in Writes => <<y, g.n>> \in written'
    BY <2>2
  <2> QED BY <2>1, <2>2
<1>6. /\ \A i \in 1 .. Len(requests') : requests'[i].call \in Call /\ requests'[i].rpc \in Rpc
      /\ \A i \in 1 .. Len(replies') : replies'[i].call \in Call /\ replies'[i].rpc \in Rpc
  BY <1>1, <1>2 DEF Request0, Reply0
<1>7. \A i \in 1 .. Len(requests') : FrameFits(requests[i].call, requests[i].rpc)'
  BY <1>3, <1>6
<1>8. \A i \in 1 .. Len(replies') :
         /\ FrameFits(replies[i].call, replies[i].rpc)'
         /\ replies'[i].ok /\ replies'[i].rpc.op \in Writes =>
               <<replies'[i].call, replies'[i].rpc.n>> \in written'
  BY <1>5, <1>6
<1> QED BY <1>4, <1>7, <1>8 DEF FramesFit

(* A call moves, and perhaps a reply has been taken for that. *)
LEMMA MoveKeeps ==
    ASSUME NetfsInv, NEW c \in Call, NEW k \in Operation \union {"none"},
           Sends(c, k) \/ Ends(c, k), kind' = [kind EXCEPT ![c] = k],
           UNCHANGED <<serving, written, exists>>,
           replies' = replies \/ (replies # <<>> /\ replies' = Tail(replies))
    PROVE  NetfsInv'
<1>1. /\ replies' \in Seq(Reply0)
      /\ \A i \in 1 .. Len(replies') : \E j \in 1 .. Len(replies) : replies'[i] = replies[j]
  <2>1. replies \in Seq(Reply0)
    BY DEF NetfsInv, Typed
  <2>2. CASE replies' = replies
    BY <2>1, <2>2
  <2>3. CASE replies # <<>> /\ replies' = Tail(replies)
    BY <2>1, <2>3, TailElements
  <2> QED BY <2>2, <2>3
<1>2. \A d \in Call : rpcOf[d].id \in 0 .. seq
  BY DEF NetfsInv, Typed, CallsFit, NoRpc
<1>3. CASE Sends(c, k)
  <2>1. PICK r \in Rpc :
          /\ r.id = seq + 1 /\ PiecesFit(r) /\ KindFits(c, k, r)
          /\ seq' = seq + 1
          /\ rpcOf' = [rpcOf EXCEPT ![c] = r]
          /\ requests' = Append(requests, [call |-> c, rpc |-> r])
          /\ outcome' = [outcome EXCEPT ![c] = "running"]
    BY <1>3 DEF Sends
  <2> DEFINE e == [call |-> c, rpc |-> r]
  <2>2. e \in Request0
    BY DEF Request0
  <2>3. /\ requests' \in Seq(Request0)
        /\ \A i \in 1 .. Len(requests') :
              requests'[i] = e \/ \E j \in 1 .. Len(requests) : requests'[i] = requests[j]
    <3>1. requests \in Seq(Request0) /\ requests' = Append(requests, e)
      BY <2>1 DEF NetfsInv, Typed
    <3> QED BY <2>2, <3>1, AppendElements
  <2>4. Typed'
    BY <1>1, <2>1, <2>3 DEF NetfsInv, Typed
  <2>5. \A x \in Call, f \in Rpc : FrameFits(x, f) => FrameFits(x, f)'
    BY <2>1 DEF NetfsInv, Typed, FrameFits
  <2>6. FrameFits(c, r)'
    BY <1>2, <2>1 DEF NetfsInv, Typed, FrameFits, PiecesFit
  <2>7. FramesFit'
    <3>1. \A i \in 1 .. Len(requests') :
             \/ \E j \in 1 .. Len(requests) : requests'[i] = requests[j]
             \/ \E x \in Call, f \in Rpc :
                   requests'[i] = [call |-> x, rpc |-> f] /\ FrameFits(x, f)'
      BY <2>3, <2>6
    <3> QED BY <1>1, <2>4, <2>5, <3>1, FramesCarried DEF NetfsInv
  <2>8. CallsFit'
    <3> SUFFICES ASSUME NEW d \in Call, rpcOf'[d] # NoRpc
                 PROVE  /\ rpcOf'[d].id \in 1 .. seq' /\ PiecesFit(rpcOf[d])'
                        /\ KindFits(d, kind[d], rpcOf[d])'
      BY DEF CallsFit
    <3>1. CASE d = c
      BY <2>1, <3>1 DEF NetfsInv, Typed, KindFits, PiecesFit
    <3>2. CASE d # c
      <4>1. rpcOf'[d] = rpcOf[d] /\ kind'[d] = kind[d]
        BY <2>1, <3>2 DEF NetfsInv, Typed
      <4>2. rpcOf[d].id \in 1 .. seq /\ PiecesFit(rpcOf[d]) /\ KindFits(d, kind[d], rpcOf[d])
        BY <4>1 DEF NetfsInv, CallsFit
      <4> QED BY <2>1, <4>1, <4>2 DEF NetfsInv, Typed, KindFits, PiecesFit
    <3> QED BY <3>1, <3>2
  <2>9. SuccessMeansWritten'
    BY <2>1 DEF NetfsInv, Typed, SuccessMeansWritten
  <2> QED BY <2>4, <2>7, <2>8, <2>9 DEF NetfsInv
<1>4. CASE Ends(c, k)
  <2>1. PICK how \in {"ok", "failed"} :
          /\ how = "ok" => Done(c, k)
          /\ outcome' = [outcome EXCEPT ![c] = how]
          /\ rpcOf' = [rpcOf EXCEPT ![c] = NoRpc]
          /\ UNCHANGED <<seq, requests>>
    BY <1>4 DEF Ends
  <2>2. Typed'
    BY <1>1, <2>1, NoRpcFits DEF NetfsInv, Typed
  <2>3. \A x \in Call, f \in Rpc : FrameFits(x, f) => FrameFits(x, f)'
    BY <2>1 DEF NetfsInv, Typed, FrameFits, NoRpc
  <2>4. FramesFit'
    BY <1>1, <2>1, <2>2, <2>3, FramesCarried DEF NetfsInv
  <2>5. CallsFit'
    BY <2>1 DEF NetfsInv, Typed, CallsFit, KindFits, PiecesFit
  <2>6. SuccessMeansWritten'
    BY <2>1 DEF NetfsInv, Typed, SuccessMeansWritten, Done
  <2> QED BY <2>2, <2>4, <2>5, <2>6 DEF NetfsInv
<1> QED BY <1>3, <1>4

LEMMA StartKeeps ==
    ASSUME NetfsInv, NEW c \in Call, NEW k \in Operation, Start(c, k)
    PROVE  NetfsInv'
<1>1. /\ kind' = [kind EXCEPT ![c] = k]
      /\ UNCHANGED <<serving, replies, written, exists>>
  BY DEF Start, fileVars
<1>2. CASE closed \/ (k = "stat" /\ cached # {})
  <2>1. End(c, IF closed THEN "failed" ELSE "ok") /\ (~ closed => Done(c, k))
    BY <1>2 DEF Start, Done, Big
  <2>2. Ends(c, k)
    BY <2>1 DEF End, Ends
  <2> QED BY <1>1, <2>2, MoveKeeps
<1>3. CASE ~ (closed \/ (k = "stat" /\ cached # {}))
  <2> DEFINE n == IF k \in {"touch", "append"} THEN 1 ELSE 0
             op == FirstOp(k)
             r == [id |-> seq + 1, op |-> op, at |-> 0, n |-> n]
  <2>1. Request(c, op, 0, n)
    BY <1>3 DEF Start
  <2>2. /\ k = "bigTouch" => op = "unlink"
        /\ k = "bigAppend" => op = "getSize"
        /\ k \notin {"bigTouch", "bigAppend"} => op = k
    BY DEF FirstOp, Operation
  <2>3. n \in Nat /\ op \in Op /\ (k \in {"touch", "append"} => n = 1)
    BY <2>2 DEF Operation, Op
  <2>4. r.op = op /\ r.n = n
    OBVIOUS
  <2> HIDE DEF n, op
  <2>5. PiecesFit(r) /\ KindFits(c, k, r)
    BY <2>2, <2>3, <2>4 DEF PiecesFit, KindFits, Operation, Big
  <2>6. Sends(c, k)
    BY <2>1, <2>3, <2>5, RequestSends DEF NetfsInv
  <2> QED BY <1>1, <2>6, MoveKeeps
<1> QED BY <1>2, <1>3

LEMMA SettleKeeps ==
    ASSUME NetfsInv,
           \/ \E c \in Call : Timeout(c)
           \/ \E a \in {replies[i] : i \in DOMAIN replies} : OnReply(a)
    PROVE  NetfsInv'
<1>1. UNCHANGED <<kind, serving, written, exists>>
  BY DEF Timeout, OnReply, fileVars
<1>2. \A c \in Call : kind' = [kind EXCEPT ![c] = kind[c]] /\ kind[c] \in Operation \union {"none"}
  BY <1>1 DEF NetfsInv, Typed
<1>3. ASSUME NEW c \in Call, Timeout(c) PROVE NetfsInv'
  <2>1. rpcOf[c] # NoRpc /\ Continue(c, FALSE, 0) /\ replies' = replies
    BY <1>3 DEF Timeout, Waiting
  <2>2. Sends(c, kind[c]) \/ Ends(c, kind[c])
    BY <2>1, ContinueMoves
  <2> QED BY <1>1, <1>2, <2>1, <2>2, MoveKeeps
<1>4. ASSUME NEW i \in DOMAIN replies, OnReply(replies[i]) PROVE NetfsInv'
  <2> DEFINE a == replies[1]
  <2>1. /\ replies # <<>> /\ a \in Reply0 /\ replies[i] = a /\ replies' = Tail(replies)
        /\ 1 \in 1 .. Len(replies)
    BY <1>4 DEF OnReply, NetfsInv, Typed
  <2>2. /\ FrameFits(a.call, a.rpc)
        /\ a.ok /\ a.rpc.op \in Writes => <<a.call, a.rpc.n>> \in written
    BY <2>1 DEF NetfsInv, FramesFit
  <2>3. a.ok \in BOOLEAN /\ a.val \in Nat
    BY <2>1 DEF Reply0
  <2> HIDE DEF a
  <2>4. ASSUME NEW c \in Call, rpcOf[c] # NoRpc, rpcOf[c].id = a.rpc.id,
               Continue(c, a.ok, a.val)
        PROVE  NetfsInv'
    <3>1. a.call = c /\ a.rpc = rpcOf[c]
      BY <2>2, <2>4 DEF FrameFits
    <3>2. Sends(c, kind[c]) \/ Ends(c, kind[c])
      BY <2>2, <2>3, <2>4, <3>1, ContinueMoves
    <3> QED BY <1>1, <1>2, <2>1, <3>2, MoveKeeps
  <2>5. CASE UNCHANGED <<seq, rpcOf, requests, outcome>>
    <3>1. replies \in Seq(Reply0)
      BY DEF NetfsInv, Typed
    <3>2. /\ replies' \in Seq(Reply0)
          /\ \A m \in 1 .. Len(replies') : \E j \in 1 .. Len(replies) : replies'[m] = replies[j]
      BY <2>1, <3>1, TailElements
    <3>3. Typed'
      BY <1>1, <2>5, <3>2 DEF NetfsInv, Typed
    <3>4. \A x \in Call, f \in Rpc : FrameFits(x, f) => FrameFits(x, f)'
      BY <2>5 DEF FrameFits
    <3>5. FramesFit'
      BY <1>1, <2>5, <3>2, <3>3, <3>4, FramesCarried DEF NetfsInv
    <3>6. CallsFit' /\ SuccessMeansWritten'
      BY <1>1, <2>5 DEF NetfsInv, CallsFit, KindFits, PiecesFit, SuccessMeansWritten
    <3> QED BY <3>3, <3>5, <3>6 DEF NetfsInv
  <2>6. \/ \E c \in Call : rpcOf[c] # NoRpc /\ rpcOf[c].id = a.rpc.id /\ Continue(c, a.ok, a.val)
        \/ UNCHANGED <<seq, rpcOf, requests, outcome>>
    BY <1>4, <2>1 DEF OnReply, Waiting
  <2> QED BY <2>4, <2>5, <2>6
<1> QED BY <1>3, <1>4

(* What the network and the daemon do: a request may go, a reply may come that  *)
(* is to a request there was, and tells of a write only what is done.           *)
LEMMA NetKeeps ==
    ASSUME NetfsInv, UNCHANGED <<seq, rpcOf, kind, outcome>>, written \subseteq written',
           exists' \in BOOLEAN,
           requests' = requests \/ (requests # <<>> /\ requests' = Tail(requests)),
           \A s \in serving' : s \in serving \/ NewTask(s),
           \/ replies' = replies
           \/ replies # <<>> /\ replies' = Tail(replies)
           \/ \E e \in Reply0 :
                 /\ replies' = Append(replies, e)
                 /\ FrameFits(e.call, e.rpc)
                 /\ e.ok /\ e.rpc.op \in Writes => <<e.call, e.rpc.n>> \in written'
    PROVE  NetfsInv'
<1>1. requests \in Seq(Request0) /\ replies \in Seq(Reply0)
  BY DEF NetfsInv, Typed
<1>2. /\ requests' \in Seq(Request0)
      /\ \A i \in 1 .. Len(requests') : \E j \in 1 .. Len(requests) : requests'[i] = requests[j]
  <2>1. CASE requests' = requests
    BY <1>1, <2>1
  <2>2. CASE requests # <<>> /\ requests' = Tail(requests)
    BY <1>1, <2>2, TailElements
  <2> QED BY <2>1, <2>2
<1>3. \A s \in serving' : TaskTyped(s)
  BY DEF NetfsInv, Typed, NewTask
<1>4. /\ replies' \in Seq(Reply0)
      /\ \A i \in 1 .. Len(replies') :
            \/ \E j \in 1 .. Len(replies) : replies'[i] = replies[j]
            \/ \E x \in Call, f \in Rpc :
                  /\ replies'[i].call = x /\ replies'[i].rpc = f /\ FrameFits(x, f)
                  /\ replies'[i].ok /\ f.op \in Writes => <<x, f.n>> \in written'
  <2>1. CASE replies' = replies
    BY <1>1, <2>1
  <2>2. CASE replies # <<>> /\ replies' = Tail(replies)
    BY <1>1, <2>2, TailElements
  <2>3. ASSUME NEW e \in Reply0, replies' = Append(replies, e), FrameFits(e.call, e.rpc),
               e.ok /\ e.rpc.op \in Writes => <<e.call, e.rpc.n>> \in written'
        PROVE  /\ replies' \in Seq(Reply0)
               /\ \A i \in 1 .. Len(replies') :
                    \/ \E j \in 1 .. Len(replies) : replies'[i] = replies[j]
                    \/ \E x \in Call, f \in Rpc :
                          /\ replies'[i].call = x /\ replies'[i].rpc = f /\ FrameFits(x, f)
                          /\ replies'[i].ok /\ f.op \in Writes => <<x, f.n>> \in written'
    <3>1. e.call \in Call /\ e.rpc \in Rpc
      BY DEF Reply0
    <3>2. /\ replies' \in Seq(Reply0)
          /\ \A i \in 1 .. Len(replies') :
                replies'[i] = e \/ \E j \in 1 .. Len(replies) : replies'[i] = replies[j]
      BY <1>1, <2>3, AppendElements
    <3> QED BY <2>3, <3>1, <3>2
  <2> QED BY <2>1, <2>2, <2>3
<1>5. Typed'
  BY <1>2, <1>3, <1>4 DEF NetfsInv, Typed
<1>6. \A x \in Call, f \in Rpc : FrameFits(x, f) => FrameFits(x, f)'
  BY DEF FrameFits
<1>7. FramesFit'
  BY <1>2, <1>4, <1>5, <1>6, FramesCarried DEF NetfsInv
<1>8. CallsFit'
  BY DEF NetfsInv, CallsFit, KindFits, PiecesFit
<1>9. SuccessMeansWritten'
  BY DEF NetfsInv, SuccessMeansWritten
<1> QED BY <1>5, <1>7, <1>8, <1>9 DEF NetfsInv

(* A request that is served is one that was made. *)
LEMMA ServedFits ==
    ASSUME NetfsInv, NEW q \in {requests[i] : i \in DOMAIN requests}
    PROVE  /\ q \in Request0 /\ q.call \in Call /\ q.rpc \in Rpc
           /\ FrameFits(q.call, q.rpc)
           /\ \E j \in 1 .. Len(requests) : q = requests[j]
<1>1. PICK j \in 1 .. Len(requests) : q = requests[j]
  BY DEF NetfsInv, Typed
<1>2. q \in Request0
  BY <1>1 DEF NetfsInv, Typed
<1>3. FrameFits(q.call, q.rpc)
  BY <1>1 DEF NetfsInv, FramesFit
<1> QED BY <1>1, <1>2, <1>3 DEF Request0

LEMMA ServeKeeps ==
    ASSUME NetfsInv, NEW q \in {requests[i] : i \in DOMAIN requests}, Serve(q)
    PROVE  NetfsInv'
<1>1. /\ UNCHANGED <<seq, rpcOf, kind, outcome>>
      /\ requests # <<>> /\ requests' = Tail(requests)
  BY DEF Serve, Refuse, ServeQuery, ServeUnlink, ServeChunk, ServeTouch, ServeAppend,
         Arrives, clientVars
<1>2. exists \in BOOLEAN
  BY DEF NetfsInv, Typed
<1>3. ASSUME NEW step, Begin(q, step), written' = written, exists' \in BOOLEAN,
             \/ q.rpc.op \in Rewriting /\ step # "close"
             \/ q.rpc.op = "read" /\ step = "close"
      PROVE  NetfsInv'
  <2> DEFINE t == [call |-> q.call, rpc |-> q.rpc, step |-> step, saw |-> <<>>]
  <2>1. t.call = q.call /\ t.rpc = q.rpc /\ t.step = step
    OBVIOUS
  <2>2. serving' = serving \union {t} /\ replies' = replies
    BY <1>3 DEF Begin
  <2> HIDE DEF t
  <2>3. NewTask(t)
    BY <1>3, <2>1, ServedFits DEF NewTask, TaskTyped, Rewriting, Writes
  <2> QED BY <1>1, <1>3, <2>2, <2>3, NetKeeps
<1>4. ASSUME NEW ok \in BOOLEAN, NEW val \in Nat, Reply(q, ok, val), serving' = serving,
             written \subseteq written', exists' \in BOOLEAN,
             ok /\ q.rpc.op \in Writes => <<q.call, q.rpc.n>> \in written'
      PROVE  NetfsInv'
  <2> DEFINE e == [call |-> q.call, rpc |-> q.rpc, ok |-> ok, val |-> val]
  <2>1. e \in Reply0 /\ e.call = q.call /\ e.rpc = q.rpc /\ e.ok = ok
    BY ServedFits DEF Reply0
  <2>2. replies' = Append(replies, e)
    BY <1>4 DEF Reply
  <2> HIDE DEF e
  <2> QED BY <1>1, <1>4, <2>1, <2>2, ServedFits, NetKeeps
<1>5. CASE Refuse(q)
  BY <1>2, <1>4, <1>5 DEF Refuse, fileVars
<1>6. CASE ServeQuery(q)
  <2>1. exists' = exists /\ written' = written
    BY <1>6 DEF ServeQuery, fileVars
  <2>2. CASE q.rpc.op = "stat" /\ Reply(q, TRUE, Stat) /\ UNCHANGED serving
    <3>1. Stat \in Nat
      BY NetFSAssumption DEF Stat, Missing
    <3> QED BY <1>2, <1>4, <2>1, <2>2, <3>1 DEF Writes
  <2>3. CASE q.rpc.op = "getSize" /\ Reply(q, exists, Len(file)) /\ UNCHANGED serving
    BY <1>2, <1>4, <2>1, <2>3 DEF Writes
  <2>4. CASE /\ q.rpc.op = "readChunk"
             /\ Reply(q, exists, IF q.rpc.at < Len(file) THEN 1 ELSE 0)
             /\ UNCHANGED serving
    BY <1>2, <1>4, <2>1, <2>4 DEF Writes
  <2>5. CASE q.rpc.op = "read" /\ Reply(q, TRUE, Len(file)) /\ UNCHANGED serving
    <3>1. Len(file) \in Nat /\ q.rpc.op \notin Writes
      BY <2>5 DEF Writes
    <3> QED BY <1>2, <1>4, <2>1, <2>5, <3>1
  <2>6. CASE q.rpc.op = "read" /\ Begin(q, "close")
    BY <1>2, <1>3, <2>1, <2>6
  <2> QED BY <1>6, <2>2, <2>3, <2>4, <2>5, <2>6 DEF ServeQuery
<1>7. CASE ServeUnlink(q)
  BY <1>2, <1>4, <1>7 DEF ServeUnlink, Writes
<1>8. CASE ServeChunk(q)
  <2>1. exists' = TRUE /\ serving' = serving /\ written \subseteq written'
    BY <1>8 DEF ServeChunk
  <2>2. \/ Reply(q, TRUE, 0) /\ <<q.call, q.rpc.n>> \in written'
        \/ Reply(q, FALSE, 0)
    BY <1>8 DEF ServeChunk
  <2> QED BY <1>4, <2>1, <2>2
<1>9. CASE ServeTouch(q)
  BY <1>3, <1>9 DEF ServeTouch, Rewriting
<1>10. CASE ServeAppend(q)
  <2>1. PICK step \in {"read", "open"} : Begin(q, step)
    BY <1>10 DEF ServeAppend
  <2> QED BY <1>2, <1>3, <1>10, <2>1 DEF ServeAppend, fileVars, Rewriting
<1> QED BY <1>5, <1>6, <1>7, <1>8, <1>9, <1>10 DEF Serve

LEMMA TaskKeeps ==
    ASSUME NetfsInv, NEW s \in serving, RunTask(s)
    PROVE  NetfsInv'
<1>1. UNCHANGED <<seq, rpcOf, kind, outcome, requests>>
  BY DEF RunTask, RefuseTask, ReadFile, OpenFile, WriteFile, CloseFile, Proceed, clientVars
<1>2. /\ TaskTyped(s) /\ TaskFits(s) /\ exists \in BOOLEAN
      /\ s.call \in Call /\ s.rpc \in Rpc /\ FrameFits(s.call, s.rpc)
      /\ s.rpc.op \in Writes => s.rpc.n = 1
  BY DEF NetfsInv, Typed, TaskTyped, FramesFit, TaskFits, FrameFits, PiecesFit, Writes
<1>3. ASSUME NEW ok \in BOOLEAN, Reply(s, ok, 0), serving' = serving \ {s},
             UNCHANGED <<exists, written>>,
             ok /\ s.rpc.op \in Writes => <<s.call, 1>> \in written
      PROVE  NetfsInv'
  <2> DEFINE e == [call |-> s.call, rpc |-> s.rpc, ok |-> ok, val |-> 0]
  <2>1. e \in Reply0 /\ e.call = s.call /\ e.rpc = s.rpc /\ e.ok = ok
    BY <1>2 DEF Reply0
  <2>2. replies' = Append(replies, e)
    BY <1>3 DEF Reply
  <2> HIDE DEF e
  <2> QED BY <1>1, <1>2, <1>3, <2>1, <2>2, NetKeeps
<1>4. ASSUME NEW step, NEW saw, Proceed(s, step, saw), s.step # "close",
             exists' \in BOOLEAN, written \subseteq written',
             step = "close" => <<s.call, 1>> \in written'
      PROVE  NetfsInv'
  <2> DEFINE t == [s EXCEPT !.step = step, !.saw = saw]
  <2>1. t.call = s.call /\ t.rpc = s.rpc /\ (t.step = step \/ t.step = s.step)
    OBVIOUS
  <2>2. serving' = (serving \ {s}) \union {t} /\ replies' = replies
    BY <1>4 DEF Proceed
  <2> HIDE DEF t
  <2>3. NewTask(t)
    BY <1>2, <1>4, <2>1 DEF NewTask, TaskTyped
  <2> QED BY <1>1, <1>4, <2>2, <2>3, NetKeeps
<1>5. CASE RefuseTask(s)
  BY <1>3, <1>5 DEF RefuseTask, fileVars
<1>6. CASE CloseFile(s)
  <2>1. s.rpc.op \in Writes => <<s.call, 1>> \in written
    BY <1>2, <1>6 DEF CloseFile, TaskFits
  <2> QED BY <1>3, <1>6, <2>1 DEF CloseFile, fileVars
<1>7. CASE ReadFile(s)
  BY <1>2, <1>4, <1>7 DEF ReadFile, fileVars
<1>8. CASE OpenFile(s)
  BY <1>4, <1>8 DEF OpenFile
<1>9. CASE WriteFile(s)
  BY <1>4, <1>9 DEF WriteFile
<1> QED BY <1>5, <1>6, <1>7, <1>8, <1>9 DEF RunTask

LEMMA LossKeeps ==
    ASSUME NetfsInv, LoseRequest \/ LoseReply \/ CacheExpires
    PROVE  NetfsInv'
<1>1. /\ UNCHANGED <<seq, rpcOf, kind, outcome, serving, written, exists>>
      /\ \/ replies' = replies /\ requests # <<>> /\ requests' = Tail(requests)
         \/ requests' = requests /\ replies # <<>> /\ replies' = Tail(replies)
         \/ requests' = requests /\ replies' = replies
  BY DEF LoseRequest, LoseReply, CacheExpires, clientVars, fileVars
<1>2. exists \in BOOLEAN
  BY DEF NetfsInv, Typed
<1> QED BY <1>1, <1>2, NetKeeps

LEMMA CloseKeeps ==
    ASSUME NetfsInv, Close
    PROVE  NetfsInv'
<1>1. /\ rpcOf' = [c \in Call |-> NoRpc]
      /\ outcome' = [c \in Call |-> IF c \in Waiting THEN "failed" ELSE outcome[c]]
      /\ UNCHANGED <<seq, kind, requests, serving, replies, written, exists>>
  BY DEF Close, fileVars
<1>2. Typed'
  BY <1>1, NoRpcFits DEF NetfsInv, Typed
<1>3. \A x \in Call, f \in Rpc : FrameFits(x, f) => FrameFits(x, f)'
  BY <1>1 DEF FrameFits, NoRpc
<1>4. FramesFit'
  BY <1>1, <1>2, <1>3, FramesCarried DEF NetfsInv
<1>5. CallsFit' /\ SuccessMeansWritten'
  BY <1>1 DEF NetfsInv, CallsFit, SuccessMeansWritten
<1> QED BY <1>2, <1>4, <1>5 DEF NetfsInv

LEMMA NetfsInvNext ==
    ASSUME NetfsInv, [NetfsNext]_netfsVars
    PROVE  NetfsInv'
<1>1. CASE UNCHANGED netfsVars
  <2>1. exists \in BOOLEAN
    BY DEF NetfsInv, Typed
  <2> QED BY <1>1, <2>1, NetKeeps DEF netfsVars
<1>2. CASE NetfsNext
  BY <1>2, StartKeeps, SettleKeeps, ServeKeeps, TaskKeeps, LossKeeps, CloseKeeps
  DEF NetfsNext
<1> QED BY <1>1, <1>2

LEMMA NetfsInvAlways == NetfsSpec => []NetfsInv
<1>1. NetfsInv /\ [NetfsNext]_netfsVars => NetfsInv'
  BY NetfsInvNext
<1> QED BY NetfsInvInit, <1>1, PTL DEF NetfsSpec

(* An answer that carries the number of a request that waits is the answer to   *)
(* that request (NetFS.ts:532, 563).                                             *)
THEOREM AnswersFindTheirRequest == NetfsSpec => []IdsIdentify
<1>1. NetfsInv => IdsIdentify
  <2> SUFFICES ASSUME NetfsInv, NEW i \in DOMAIN replies, NEW c \in Waiting,
                      replies[i].rpc.id = rpcOf[c].id
               PROVE  replies[i].call = c /\ replies[i].rpc = rpcOf[c]
    BY DEF IdsIdentify
  <2>1. i \in 1 .. Len(replies) /\ c \in Call
    BY DEF NetfsInv, Typed, Waiting
  <2> QED BY <2>1 DEF NetfsInv, FramesFit, FrameFits
<1> QED BY <1>1, NetfsInvAlways, PTL

(* A write that was reported as done has put all its pieces into the file       *)
(* (NetFS.ts:492).                                                               *)
THEOREM DoneMeansWritten == NetfsSpec => []SuccessMeansWritten
<1>1. NetfsInv => SuccessMeansWritten
  BY DEF NetfsInv
<1> QED BY <1>1, NetfsInvAlways, PTL
-----------------------------------------------------------------------------
(* The cache.  A call that changes the file waits from its first request until  *)
(* the answer to its last one, which is behind all it wrote; and it drops the   *)
(* cache when it gets that answer.  So as long as something in the cache, or on *)
(* its way there, is older than the file, a call that will drop it still waits. *)

Waits(c) == rpcOf[c] # NoRpc
Changing == {"touch", "append", "unlink", "writeChunk"}
Changers == {"touch", "bigTouch", "append", "bigAppend", "unlink"}
Answered(c) == \E i \in 1 .. Len(replies) : replies[i].rpc.id = rpcOf[c].id
InFlight == {requests[i] : i \in 1 .. Len(requests)} \union serving

(* What is known of call c when its request r has not been served: if r changes *)
(* the file, c waits for an answer that is not there yet, or has failed.        *)
SentBy(c, r) ==
    /\ outcome[c] # "idle"
    /\ r.op \in Rewriting => kind[c] = r.op
    /\ Waits(c) => r.id <= rpcOf[c].id /\ (r.op \in Rewriting => rpcOf[c] = r)
    /\ r.op \in Changing =>
         kind[c] \in Changers /\ (outcome[c] = "failed" \/ (Waits(c) /\ ~ Answered(c)))

FlightInv ==
    /\ \A c \in Call : outcome[c] = "running" <=> Waits(c)
    /\ \A q \in InFlight : SentBy(q.call, q.rpc)
    /\ \A i, j \in 1 .. Len(requests) : i < j => requests[i].rpc.id < requests[j].rpc.id
    /\ \A s \in serving, i \in 1 .. Len(requests) : s.rpc.id < requests[i].rpc.id
    /\ \A s, t \in serving : s.rpc.id = t.rpc.id => s = t

NoFailure == \A c \in Call : outcome[c] # "failed"
Owes(c) == Waits(c) /\ kind[c] \in Changers

(* The answer to a stat is of the file as it is, or a call that changed it will *)
(* get its last answer later.                                                   *)
StatFits(i) ==
    replies[i].ok /\ replies[i].rpc.op = "stat" =>
        \/ replies[i].val = Stat
        \/ \E c \in Call : Owes(c) /\ \A j \in 1 .. i - 1 : replies[j].rpc.id # rpcOf[c].id

CacheFits == cached \subseteq {Stat} \/ \E c \in Call : Owes(c)

CacheInv ==
    /\ NetfsInv /\ FlightInv
    /\ NoFailure => CacheFits /\ \A i \in 1 .. Len(replies) : StatFits(i)

(* What is on the wire was asked for, under a number that is given out.         *)
LEMMA NumbersGiven ==
    ASSUME NetfsInv
    PROVE  /\ seq \in Nat
           /\ \A c \in Call : rpcOf[c].id \in 0 .. seq
           /\ \A q \in InFlight : q.call \in Call /\ q.rpc \in Rpc /\ q.rpc.id \in 1 .. seq
           /\ \A i \in 1 .. Len(replies) : replies[i].rpc.id \in 1 .. seq
           /\ \A q \in InFlight, c \in Call :
                 rpcOf[c].id = q.rpc.id => c = q.call /\ rpcOf[c] = q.rpc
<1>1. seq \in Nat /\ \A c \in Call : rpcOf[c].id \in 0 .. seq
  BY DEF NetfsInv, Typed, CallsFit, NoRpc
<1>2. \A q \in InFlight : q.call \in Call /\ q.rpc \in Rpc /\ FrameFits(q.call, q.rpc)
  <2>1. \A i \in 1 .. Len(requests) :
           /\ requests[i].call \in Call /\ requests[i].rpc \in Rpc
           /\ FrameFits(requests[i].call, requests[i].rpc)
    <3>1. \A i \in 1 .. Len(requests) : requests[i] \in Request0
      BY DEF NetfsInv, Typed
    <3> QED BY <3>1 DEF NetfsInv, FramesFit, Request0
  <2>2. \A s \in serving : s.call \in Call /\ s.rpc \in Rpc /\ FrameFits(s.call, s.rpc)
    BY DEF NetfsInv, Typed, TaskTyped, FramesFit, TaskFits
  <2> QED BY <2>1, <2>2 DEF InFlight
<1>3. \A i \in 1 .. Len(replies) : replies[i].rpc.id \in 1 .. seq
  BY DEF NetfsInv, FramesFit, FrameFits
<1> QED BY <1>1, <1>2, <1>3 DEF FrameFits

(* A call sends a request: that is the last in the queue, and unanswered.       *)
NewRequest(c, k, r) ==
    /\ r.id = seq + 1
    /\ r.op \in Rewriting => k = r.op
    /\ r.op \in Changing => k \in Changers
    /\ seq' = seq + 1
    /\ rpcOf' = [rpcOf EXCEPT ![c] = r]
    /\ requests' = Append(requests, [call |-> c, rpc |-> r])
    /\ outcome' = [outcome EXCEPT ![c] = "running"]

Fewer == \A i \in 1 .. Len(replies') : \E j \in 1 .. Len(replies) : replies'[i] = replies[j]

LEMMA SendFlight ==
    ASSUME NetfsInv, FlightInv, NEW c \in Call, NEW k, NEW r \in Rpc, NewRequest(c, k, r),
           kind' = [kind EXCEPT ![c] = k], serving' = serving, Fewer,
           outcome[c] = "idle" \/ (Waits(c) /\ k = kind[c] /\ k \notin Rewriting)
    PROVE  FlightInv'
<1> DEFINE e == [call |-> c, rpc |-> r]
<1>1. /\ seq \in Nat /\ DOMAIN kind = Call /\ DOMAIN rpcOf = Call /\ DOMAIN outcome = Call
      /\ requests \in Seq(Request0) /\ e \in Request0 /\ NoRpc.id = 0
  BY DEF NetfsInv, Typed, Request0, NoRpc
<1>2. /\ kind'[c] = k /\ rpcOf'[c] = r /\ outcome'[c] = "running"
      /\ \A d \in Call : d # c => /\ kind'[d] = kind[d] /\ rpcOf'[d] = rpcOf[d]
                                  /\ outcome'[d] = outcome[d]
  BY <1>1 DEF NewRequest
<1>3. /\ Len(requests') = Len(requests) + 1 /\ Len(requests) \in Nat
      /\ requests'[Len(requests) + 1] = e
      /\ \A i \in 1 .. Len(requests) : requests'[i] = requests[i]
  BY <1>1 DEF NewRequest
<1>4. e.call = c /\ e.rpc = r /\ r.id = seq + 1 /\ r # NoRpc
  BY <1>1 DEF NewRequest
<1> HIDE DEF e
<1>5. \A i \in 1 .. Len(replies') : replies'[i].rpc.id \in 1 .. seq
  BY NumbersGiven DEF Fewer
<1>6. ~ Answered(c)'
  BY <1>1, <1>2, <1>4, <1>5 DEF Answered
<1>7. ASSUME NEW d \in Call, d # c, Answered(d)' PROVE Answered(d)
  <2>1. PICK i \in 1 .. Len(replies') : replies'[i].rpc.id = rpcOf'[d].id
    BY <1>7 DEF Answered
  <2>2. PICK j \in 1 .. Len(replies) : replies'[i] = replies[j]
    BY <2>1 DEF Fewer
  <2>3. rpcOf'[d] = rpcOf[d]
    BY <1>2, <1>7
  <2> QED BY <2>1, <2>2, <2>3 DEF Answered
<1>8. \A q \in InFlight' : q = e \/ q \in InFlight
  <2>1. \A i \in 1 .. Len(requests') : i = Len(requests) + 1 \/ i \in 1 .. Len(requests)
    BY <1>3
  <2> QED BY <1>3, <2>1 DEF InFlight
<1>9. ASSUME NEW q \in InFlight PROVE SentBy(q.call, q.rpc)'
  <2>1. q.call \in Call /\ q.rpc.id \in 1 .. seq /\ SentBy(q.call, q.rpc)
    BY NumbersGiven DEF FlightInv
  <2>2. CASE q.call = c
    <3>1. Waits(c) /\ k = kind[c] /\ k \notin Rewriting
      BY <2>1, <2>2 DEF SentBy
    <3>2. q.rpc.op \notin Rewriting /\ q.rpc.id <= r.id
      BY <1>1, <1>4, <2>1, <2>2, <3>1 DEF SentBy
    <3> QED BY <1>2, <1>4, <1>6, <2>1, <2>2, <3>1, <3>2 DEF SentBy, Waits
  <2>3. CASE q.call # c
    BY <1>2, <1>7, <2>1, <2>3 DEF SentBy, Waits
  <2> QED BY <2>2, <2>3
<1>10. SentBy(e.call, e.rpc)'
  BY <1>1, <1>2, <1>4, <1>6 DEF SentBy, Waits, NewRequest
<1>11. \A d \in Call : outcome'[d] = "running" <=> Waits(d)'
  BY <1>2, <1>4 DEF FlightInv, Waits
<1>12. \A i \in 1 .. Len(requests) : requests[i].rpc.id \in 1 .. seq
  BY NumbersGiven DEF InFlight
<1>13. \A s \in serving : s.rpc.id \in 1 .. seq
  BY NumbersGiven DEF InFlight
<1>14. \A i, j \in 1 .. Len(requests') : i < j => requests'[i].rpc.id < requests'[j].rpc.id
  <2> SUFFICES ASSUME NEW i \in 1 .. Len(requests'), NEW j \in 1 .. Len(requests'), i < j
               PROVE  requests'[i].rpc.id < requests'[j].rpc.id
    OBVIOUS
  <2>1. i \in 1 .. Len(requests) /\ (j \in 1 .. Len(requests) \/ j = Len(requests) + 1)
    BY <1>3
  <2>2. CASE j \in 1 .. Len(requests)
    BY <1>3, <2>1, <2>2 DEF FlightInv
  <2>3. CASE j = Len(requests) + 1
    BY <1>1, <1>3, <1>4, <1>12, <2>1, <2>3
  <2> QED BY <2>1, <2>2, <2>3
<1>15. \A s \in serving', i \in 1 .. Len(requests') : s.rpc.id < requests'[i].rpc.id
  <2> SUFFICES ASSUME NEW s \in serving, NEW i \in 1 .. Len(requests')
               PROVE  s.rpc.id < requests'[i].rpc.id
    OBVIOUS
  <2>1. CASE i \in 1 .. Len(requests)
    BY <1>3, <2>1 DEF FlightInv
  <2>2. CASE i = Len(requests) + 1
    BY <1>1, <1>3, <1>4, <1>13, <2>2
  <2> QED BY <1>3, <2>1, <2>2
<1> QED BY <1>8, <1>9, <1>10, <1>11, <1>14, <1>15 DEF FlightInv

(* A call ends: it has failed, or nothing it changes is in flight any more.      *)
EndsAs(c, how) ==
    /\ outcome' = [outcome EXCEPT ![c] = how]
    /\ rpcOf' = [rpcOf EXCEPT ![c] = NoRpc]
    /\ UNCHANGED <<seq, requests>>

LEMMA EndFlight ==
    ASSUME NetfsInv, FlightInv, NEW c \in Call, NEW k, NEW how \in {"ok", "failed"},
           EndsAs(c, how), kind' = [kind EXCEPT ![c] = k], serving' = serving, Fewer,
           outcome[c] = "idle" \/ (Waits(c) /\ k = kind[c]),
           how = "ok" => outcome[c] = "idle" \/ Answered(c)
    PROVE  FlightInv'
<1>1. DOMAIN kind = Call /\ DOMAIN rpcOf = Call /\ DOMAIN outcome = Call
  BY DEF NetfsInv, Typed
<1>2. /\ kind'[c] = k /\ rpcOf'[c] = NoRpc /\ outcome'[c] = how
      /\ \A d \in Call : d # c => /\ kind'[d] = kind[d] /\ rpcOf'[d] = rpcOf[d]
                                  /\ outcome'[d] = outcome[d]
  BY <1>1 DEF EndsAs
<1>3. \A d \in Call : d # c /\ ~ Answered(d) => ~ Answered(d)'
  BY <1>2 DEF Answered, Fewer
<1>4. InFlight' = InFlight
  BY DEF InFlight, EndsAs
<1>5. ASSUME NEW q \in InFlight PROVE SentBy(q.call, q.rpc)'
  <2>1. q.call \in Call /\ SentBy(q.call, q.rpc)
    BY NumbersGiven DEF FlightInv
  <2>2. CASE q.call = c
    <3>1. Waits(c) /\ k = kind[c] /\ outcome[c] = "running"
      BY <2>1, <2>2 DEF SentBy, FlightInv
    <3>2. q.rpc.op \in Changing => how = "failed"
      BY <2>1, <2>2, <3>1 DEF SentBy
    <3> QED BY <1>2, <2>1, <2>2, <3>1, <3>2 DEF SentBy, Waits
  <2>3. CASE q.call # c
    BY <1>2, <1>3, <2>1, <2>3 DEF SentBy, Waits
  <2> QED BY <2>2, <2>3
<1>6. \A d \in Call : outcome'[d] = "running" <=> Waits(d)'
  BY <1>2 DEF FlightInv, Waits
<1> QED BY <1>4, <1>5, <1>6 DEF FlightInv, EndsAs

(* Frames go, or move on from the queue to a task that has begun.               *)
LEMMA LossFlight ==
    ASSUME NetfsInv, FlightInv, UNCHANGED <<seq, rpcOf, kind, outcome>>, Fewer,
           \/ UNCHANGED <<requests, serving>>
           \/ /\ requests # <<>> /\ requests' = Tail(requests)
              /\ \/ serving' = serving
                 \/ \E q : /\ serving' = serving \union {q}
                           /\ q.call = requests[1].call /\ q.rpc = requests[1].rpc
    PROVE  FlightInv'
<1>1. requests \in Seq(Request0)
  BY DEF NetfsInv, Typed
<1>2. \A d \in Call : ~ Answered(d) => ~ Answered(d)'
  BY DEF Answered, Fewer
<1>3. \A q \in InFlight : q.call \in Call /\ SentBy(q.call, q.rpc)'
  <2>1. \A q \in InFlight : q.call \in Call /\ SentBy(q.call, q.rpc)
    BY NumbersGiven DEF FlightInv
  <2> QED BY <1>2, <2>1 DEF SentBy, Waits
<1>4. CASE UNCHANGED <<requests, serving>>
  BY <1>3, <1>4 DEF FlightInv, InFlight, Waits
<1>5. ASSUME requests # <<>>, requests' = Tail(requests) PROVE
         /\ Len(requests') = Len(requests) - 1 /\ Len(requests) \in Nat
         /\ 1 \in 1 .. Len(requests)
         /\ \A i \in 1 .. Len(requests') : requests'[i] = requests[i + 1]
                                           /\ i + 1 \in 2 .. Len(requests)
  BY <1>1, <1>5
<1>6. ASSUME requests # <<>>, requests' = Tail(requests)
      PROVE  /\ \A i, j \in 1 .. Len(requests') : i < j => requests'[i].rpc.id < requests'[j].rpc.id
             /\ \A i \in 1 .. Len(requests') : requests[1].rpc.id < requests'[i].rpc.id
             /\ \A s \in serving, i \in 1 .. Len(requests') : s.rpc.id < requests'[i].rpc.id
             /\ \A q \in InFlight' \ serving' : q \in InFlight
  BY <1>5, <1>6 DEF FlightInv, InFlight
<1>7. CASE requests # <<>> /\ requests' = Tail(requests) /\ serving' = serving
  <2>1. \A q \in InFlight' : q \in InFlight
    BY <1>6, <1>7 DEF InFlight
  <2> QED BY <1>3, <1>6, <1>7, <2>1 DEF FlightInv, Waits
<1>8. ASSUME requests # <<>>, requests' = Tail(requests), NEW q, serving' = serving \union {q},
             q.call = requests[1].call, q.rpc = requests[1].rpc
      PROVE  FlightInv'
  <2>1. \A x \in InFlight' : SentBy(x.call, x.rpc)'
    <3>1. requests[1] \in InFlight
      BY <1>5, <1>8 DEF InFlight
    <3>2. \A x \in InFlight' : x = q \/ x \in InFlight
      BY <1>6, <1>8 DEF InFlight
    <3> QED BY <1>3, <1>8, <3>1, <3>2
  <2>2. \A s \in serving : s.rpc.id < q.rpc.id
    BY <1>5, <1>8 DEF FlightInv
  <2>3. \A s \in serving' : s = q \/ s \in serving
    BY <1>8
  <2>4. \A s, t \in serving' : s.rpc.id = t.rpc.id => s = t
    <3>1. \A s \in serving : s.rpc.id # q.rpc.id
      <4>1. \A s \in serving : s.rpc.id \in 1 .. seq
        BY NumbersGiven DEF InFlight
      <4>2. q.rpc.id \in 1 .. seq /\ seq \in Nat
        BY <1>5, <1>8, NumbersGiven DEF InFlight
      <4> QED BY <2>2, <4>1, <4>2
    <3> QED BY <2>3, <3>1 DEF FlightInv
  <2>5. \A s \in serving', i \in 1 .. Len(requests') : s.rpc.id < requests'[i].rpc.id
    BY <1>6, <1>8, <2>3
  <2> QED BY <1>6, <1>8, <2>1, <2>4, <2>5 DEF FlightInv, Waits
<1> QED BY <1>4, <1>7, <1>8

(* A task makes a syscall.                                                       *)
LEMMA StepFlight ==
    ASSUME NetfsInv, FlightInv, UNCHANGED <<seq, rpcOf, kind, outcome, requests, replies>>,
           NEW s \in serving, NEW t, t.call = s.call, t.rpc = s.rpc,
           serving' = (serving \ {s}) \union {t}
    PROVE  FlightInv'
<1>1. \A x \in serving' : \E y \in serving :
         x.call = y.call /\ x.rpc = y.rpc /\ (x = y \/ (x = t /\ y = s))
  OBVIOUS
<1>2. \A x \in InFlight' : \E y \in InFlight : x.call = y.call /\ x.rpc = y.rpc
  BY <1>1 DEF InFlight
<1>3. \A y \in InFlight : SentBy(y.call, y.rpc)'
  <2>1. \A y \in InFlight : SentBy(y.call, y.rpc)
    BY DEF FlightInv
  <2> QED BY <2>1 DEF SentBy, Waits, Answered
<1>4. \A x \in InFlight' : SentBy(x.call, x.rpc)'
  <2> SUFFICES ASSUME NEW x \in InFlight' PROVE SentBy(x.call, x.rpc)'
    OBVIOUS
  <2>1. PICK y \in InFlight : x.call = y.call /\ x.rpc = y.rpc
    BY <1>2
  <2> QED BY <1>3, <2>1
<1>5. \A x \in serving', i \in 1 .. Len(requests') : x.rpc.id < requests'[i].rpc.id
  BY <1>1 DEF FlightInv
<1>6. \A x, y \in serving' : x.rpc.id = y.rpc.id => x = y
  BY DEF FlightInv
<1> QED BY <1>4, <1>5, <1>6 DEF FlightInv, Waits

(* A request is answered; what else is in flight is not answered by that.       *)
LEMMA AnswerFlight ==
    ASSUME NetfsInv, FlightInv, UNCHANGED <<seq, rpcOf, kind, outcome>>,
           NEW e \in Reply0, replies' = Append(replies, e), NEW q \in InFlight,
           e.call = q.call, e.rpc = q.rpc,
           \/ requests # <<>> /\ q = requests[1] /\ requests' = Tail(requests) /\ serving' = serving
           \/ q \in serving /\ serving' = serving \ {q} /\ requests' = requests
    PROVE  FlightInv'
<1>1. requests \in Seq(Request0) /\ replies \in Seq(Reply0)
  BY DEF NetfsInv, Typed
<1>2. /\ Len(replies') = Len(replies) + 1 /\ Len(replies) \in Nat
      /\ replies'[Len(replies) + 1] = e
      /\ \A i \in 1 .. Len(replies) : replies'[i] = replies[i]
  BY <1>1
<1>3. \A d \in Call : rpcOf[d].id # q.rpc.id /\ ~ Answered(d) => ~ Answered(d)'
  <2>1. \A i \in 1 .. Len(replies') : i = Len(replies) + 1 \/ i \in 1 .. Len(replies)
    BY <1>2
  <2> QED BY <1>2, <2>1 DEF Answered
<1>4. /\ \A x \in InFlight' : x \in InFlight
      /\ \A x \in InFlight' : x.rpc.op \in Changing /\ Waits(x.call) => rpcOf[x.call].id # q.rpc.id
      /\ \A i, j \in 1 .. Len(requests') : i < j => requests'[i].rpc.id < requests'[j].rpc.id
      /\ \A s \in serving', i \in 1 .. Len(requests') : s.rpc.id < requests'[i].rpc.id
      /\ \A s, t \in serving' : s.rpc.id = t.rpc.id => s = t
  <2>1. CASE requests # <<>> /\ q = requests[1] /\ requests' = Tail(requests) /\ serving' = serving
    <3>1. /\ Len(requests') = Len(requests) - 1 /\ Len(requests) \in Nat
          /\ 1 \in 1 .. Len(requests)
          /\ \A i \in 1 .. Len(requests') : requests'[i] = requests[i + 1]
                                            /\ i + 1 \in 2 .. Len(requests)
      BY <1>1, <2>1
    <3>2. \A x \in InFlight' : x \in serving \/ \E i \in 2 .. Len(requests) : x = requests[i]
      <4> SUFFICES ASSUME NEW x \in InFlight', x \notin serving
                   PROVE  \E i \in 2 .. Len(requests) : x = requests[i]
        OBVIOUS
      <4>1. PICK k \in 1 .. Len(requests') : x = requests'[k]
        BY <2>1 DEF InFlight
      <4>2. k + 1 \in 2 .. Len(requests) /\ x = requests[k + 1]
        BY <3>1, <4>1
      <4> QED BY <4>2
    <3>3. \A x \in InFlight' : x \in InFlight
      BY <3>1, <3>2 DEF InFlight
    <3>4. ASSUME NEW x \in InFlight', x.rpc.op \in Changing, Waits(x.call),
                 rpcOf[x.call].id = q.rpc.id
          PROVE  FALSE
      <4>1. x \in InFlight /\ x.call \in Call /\ rpcOf[x.call] = q.rpc /\ q.rpc.id \in Nat
            /\ x.rpc.id \in Nat
        BY <3>3, <3>4, NumbersGiven
      <4>2. x.rpc.id <= q.rpc.id /\ (x.rpc.op \in Rewriting => x.rpc = q.rpc)
        BY <3>4, <4>1 DEF FlightInv, SentBy
      <4>3. CASE x \in serving
        <5>1. x.rpc.id < q.rpc.id /\ x.rpc.op \in Rewriting
          BY <2>1, <3>1, <3>4, <4>3
          DEF FlightInv, NetfsInv, Typed, TaskTyped, Changing, Rewriting
        <5> QED BY <4>1, <4>2, <5>1, SMTT(30)
      <4>4. CASE \E i \in 2 .. Len(requests) : x = requests[i]
        <5>1. PICK i \in 2 .. Len(requests) : x = requests[i]
          BY <4>4
        <5>2. i \in 1 .. Len(requests) /\ 1 < i
          BY <3>1, SMTT(30)
        <5>3. q.rpc.id < x.rpc.id
          BY <2>1, <3>1, <5>1, <5>2 DEF FlightInv
        <5> QED BY <4>1, <4>2, <5>3
      <4> QED BY <3>2, <4>3, <4>4
    <3>5. \A i, j \in 1 .. Len(requests') : i < j => requests'[i].rpc.id < requests'[j].rpc.id
      <4> SUFFICES ASSUME NEW i \in 1 .. Len(requests'), NEW j \in 1 .. Len(requests'), i < j
                   PROVE  requests'[i].rpc.id < requests'[j].rpc.id
        OBVIOUS
      <4>1. i + 1 \in 1 .. Len(requests) /\ j + 1 \in 1 .. Len(requests) /\ i + 1 < j + 1
        BY <3>1
      <4>2. requests[i + 1].rpc.id < requests[j + 1].rpc.id
        BY <4>1 DEF FlightInv
      <4> QED BY <3>1, <4>2
    <3>6. \A s \in serving', i \in 1 .. Len(requests') : s.rpc.id < requests'[i].rpc.id
      <4> SUFFICES ASSUME NEW s \in serving, NEW i \in 1 .. Len(requests')
                   PROVE  s.rpc.id < requests'[i].rpc.id
        BY <2>1
      <4>1. i + 1 \in 1 .. Len(requests)
        BY <3>1
      <4> QED BY <3>1, <4>1 DEF FlightInv
    <3> QED BY <2>1, <3>3, <3>4, <3>5, <3>6 DEF FlightInv
  <2>2. CASE q \in serving /\ serving' = serving \ {q} /\ requests' = requests
    <3>1. \A x \in InFlight' : x \in InFlight /\ (x \in serving \ {q} \/ \E i \in 1 .. Len(requests) : x = requests[i])
      BY <2>2 DEF InFlight
    <3>2. ASSUME NEW x \in InFlight', x.rpc.op \in Changing, Waits(x.call),
                 rpcOf[x.call].id = q.rpc.id
          PROVE  FALSE
      <4>1. x \in InFlight /\ x.call \in Call /\ rpcOf[x.call] = q.rpc /\ q.rpc.id \in Nat
            /\ x.rpc.id \in Nat
        BY <3>1, <3>2, NumbersGiven
      <4>2. x.rpc.id <= q.rpc.id /\ (x.rpc.op \in Rewriting => x.rpc = q.rpc)
        BY <3>2, <4>1 DEF FlightInv, SentBy
      <4>3. CASE x \in serving \ {q}
        <5>1. x.rpc.op \in Rewriting
          BY <3>2, <4>3 DEF NetfsInv, Typed, TaskTyped, Changing, Rewriting
        <5> QED BY <2>2, <4>2, <4>3, <5>1 DEF FlightInv
      <4>4. CASE \E i \in 1 .. Len(requests) : x = requests[i]
        <5>1. q.rpc.id < x.rpc.id
          BY <2>2, <4>4 DEF FlightInv
        <5> QED BY <4>1, <4>2, <5>1
      <4> QED BY <3>1, <4>3, <4>4
    <3> QED BY <2>2, <3>1, <3>2 DEF FlightInv
  <2> QED BY <2>1, <2>2
<1>5. \A x \in InFlight' : SentBy(x.call, x.rpc)'
  <2>1. \A x \in InFlight' : x.call \in Call /\ SentBy(x.call, x.rpc)
    BY <1>4, NumbersGiven DEF FlightInv
  <2> QED BY <1>3, <1>4, <2>1 DEF SentBy, Waits
<1> QED BY <1>4, <1>5 DEF FlightInv, Waits

(* The cache after a step of a call that leaves the file alone: whoever owed a  *)
(* clean-up still does, except for the call itself.                             *)
LEMMA MoveCache ==
    ASSUME CacheInv, NEW c \in Call, NoFailure, file' = file,
           exists' = exists,
           \/ UNCHANGED replies
           \/ replies # <<>> /\ replies' = Tail(replies),
           \A d \in Call : d # c => rpcOf'[d] = rpcOf[d] /\ kind'[d] = kind[d],
           \/ Owes(c) => Owes(c)' /\ rpcOf'[c].id \in {rpcOf[c].id, seq + 1}
           \/ replies' = Tail(replies) /\ replies # <<>> /\ replies[1].rpc.id = rpcOf[c].id
    PROVE  \A i \in 1 .. Len(replies') : StatFits(i)'
<1> SUFFICES ASSUME NEW i \in 1 .. Len(replies'), replies'[i].ok, replies'[i].rpc.op = "stat",
                    replies'[i].val # Stat
             PROVE  \E d \in Call : Owes(d)' /\ \A j \in 1 .. i - 1 : replies'[j].rpc.id # rpcOf'[d].id
  BY DEF StatFits, Stat
<1>1. replies \in Seq(Reply0) /\ seq \in Nat
      /\ \A j \in 1 .. Len(replies) : replies[j].rpc.id \in 1 .. seq
  BY NumbersGiven DEF CacheInv, NetfsInv, Typed
<1>2. PICK k \in 1 .. Len(replies) :
         /\ i - 1 <= k - 1 /\ replies'[i] = replies[k] /\ i \in Nat /\ k \in Nat
         /\ \A j \in 1 .. i - 1 : \E m \in 1 .. k - 1 : replies'[j] = replies[m] /\ m \in 1 .. Len(replies)
         /\ replies' = Tail(replies) /\ replies # <<>> => 1 \in 1 .. k - 1
  <2>1. CASE replies' = replies
    <3>1. i \in 1 .. Len(replies) /\ i \in Nat
          /\ \A j \in 1 .. i - 1 : j \in 1 .. Len(replies)
      BY <1>1, <2>1
    <3>2. ~ (replies' = Tail(replies) /\ replies # <<>>)
      <4>1. ASSUME replies # <<>> PROVE Len(Tail(replies)) # Len(replies)
        <5>1. Len(Tail(replies)) = Len(replies) - 1 /\ Len(replies) \in Nat
          BY <1>1, <4>1
        <5> QED BY <5>1
      <4> QED BY <2>1, <4>1
    <3> QED BY <2>1, <3>1, <3>2
  <2>2. CASE replies # <<>> /\ replies' = Tail(replies)
    <3>1. /\ Len(replies') = Len(replies) - 1 /\ Len(replies) \in Nat
          /\ \A j \in 1 .. Len(replies') : replies'[j] = replies[j + 1]
      BY <1>1, <2>2
    <3>2. i + 1 \in 1 .. Len(replies) /\ i \in Nat /\ i + 1 \in Nat /\ 1 \in 1 .. i
          /\ (i + 1) - 1 = i /\ i - 1 <= i
      BY <3>1
    <3>3. \A j \in 1 .. i - 1 : /\ j + 1 \in 1 .. i /\ j + 1 \in 1 .. Len(replies)
                                /\ replies'[j] = replies[j + 1]
      BY <3>1
    <3> QED BY <3>1, <3>2, <3>3
  <2> QED BY <2>1, <2>2
<1>3. PICK d \in Call : Owes(d) /\ \A j \in 1 .. k - 1 : replies[j].rpc.id # rpcOf[d].id
  BY <1>2 DEF CacheInv, StatFits
<1>4. CASE d # c
  BY <1>2, <1>3, <1>4 DEF Owes, Waits
<1>5. CASE d = c
  <2>1. Owes(c)' /\ rpcOf'[c].id \in {rpcOf[c].id, seq + 1}
    BY <1>2, <1>3, <1>5
  <2>2. \A j \in 1 .. i - 1 : replies'[j].rpc.id \in 1 .. seq
    BY <1>1, <1>2
  <2>3. \A j \in 1 .. i - 1 : replies'[j].rpc.id # rpcOf[c].id
    BY <1>2, <1>3, <1>5
  <2> QED BY <1>1, <2>1, <2>2, <2>3
<1> QED BY <1>4, <1>5

LEMMA FewerReplies ==
    ASSUME NetfsInv, replies' = replies \/ (replies # <<>> /\ replies' = Tail(replies))
    PROVE  Fewer
<1>1. replies \in Seq(Reply0)
  BY DEF NetfsInv, Typed
<1> QED BY <1>1, TailElements DEF Fewer

LEMMA RequestIsNew ==
    ASSUME Typed, NEW c \in Call, NEW k, NEW op \in Op, NEW at \in Nat, NEW n \in Nat,
           Request(c, op, at, n), op \in Rewriting => k = op,
           op \in Changing => k \in Changers
    PROVE  (\E r \in Rpc : NewRequest(c, k, r)) /\ cached' = cached
<1> DEFINE r == [id |-> seq + 1, op |-> op, at |-> at, n |-> n]
<1>1. r \in Rpc /\ r.id = seq + 1 /\ r.op = op
  BY DEF Typed, Rpc
<1>2. /\ seq' = seq + 1
      /\ rpcOf' = [rpcOf EXCEPT ![c] = r]
      /\ requests' = Append(requests, [call |-> c, rpc |-> r])
      /\ outcome' = [outcome EXCEPT ![c] = "running"]
      /\ cached' = cached
  BY DEF Request, NewId
<1> HIDE DEF r
<1> QED BY <1>1, <1>2 DEF NewRequest

(* What a call does with its answer, as far as the cache is concerned: one that *)
(* changed the file and is done leaves nothing in the cache.                    *)
Settles(c, ok, val) ==
    \/ (\E r \in Rpc : NewRequest(c, kind[c], r)) /\ kind[c] \notin Rewriting /\ cached' = cached
    \/ EndsAs(c, "failed")
    \/ /\ ok /\ EndsAs(c, "ok")
       /\ kind[c] \in Changers => cached' = {}
       /\ kind[c] \notin Changers =>
            cached' \subseteq cached \/ (rpcOf[c].op = "stat" /\ cached' = {val})

LEMMA ContinueSettles ==
    ASSUME NetfsInv, NEW c \in Call, Waits(c), NEW ok \in BOOLEAN, NEW val \in Nat,
           Continue(c, ok, val)
    PROVE  Settles(c, ok, val)
<1> DEFINE r == rpcOf[c]
           k == kind[c]
<1>1. /\ r \in Rpc /\ KindFits(c, k, r) /\ r.at \in Nat /\ r.n \in Nat
  BY DEF NetfsInv, Typed, CallsFit, Rpc, Waits
<1>2. ASSUME Fail(c) PROVE Settles(c, ok, val)
  BY <1>2 DEF Fail, End, EndsAs, Settles
<1>3. ASSUME EndWrite(c), ok PROVE Settles(c, ok, val)
  BY <1>3 DEF EndWrite, End, EndsAs, Settles
<1>4. ASSUME EndRead(c), ok, k \notin Changers PROVE Settles(c, ok, val)
  BY <1>4 DEF EndRead, End, EndsAs, Settles
<1>5. ASSUME NEW op \in {"writeChunk", "getSize", "readChunk"}, NEW at \in Nat, NEW n \in Nat,
             Request(c, op, at, n), op = "writeChunk" => k \in Big, k \notin Rewriting
      PROVE  Settles(c, ok, val)
  <2>1. op \in Op /\ op \notin Rewriting /\ (op \in Changing => k \in Changers)
    BY <1>5 DEF Op, Changing, Changers, Big, Rewriting
  <2> QED BY <1>5, <2>1, RequestIsNew DEF NetfsInv, Settles
<1> SUFFICES Settles(c, ok, val)
  OBVIOUS
<1> HIDE DEF k
<1>7. CASE r.op = "unlink" /\ k = "bigTouch" /\ Request(c, "writeChunk", 0, 1)
  BY <1>5, <1>7 DEF Big, Rewriting
<1>8. CASE r.op = "getSize" /\ k = "bigAppend"
           /\ Request(c, "writeChunk", Offset(ok, val), 1)
  BY <1>5, <1>8 DEF Big, Offset, Rewriting
<1>9. CASE r.op = "writeChunk" /\ NextChunk(c, r, ok)
  <2>1. k \in Big /\ k \notin Rewriting
    BY <1>1, <1>9 DEF KindFits, Big, Rewriting
  <2>2. \/ Fail(c) \/ (ok /\ EndWrite(c)) \/ Request(c, "writeChunk", r.at + 1, 2)
    BY <1>9 DEF NextChunk
  <2> QED BY <1>1, <1>2, <1>3, <1>5, <2>1, <2>2
<1>10. CASE r.op \in {"touch", "append"} /\ (IF ok THEN EndWrite(c) ELSE Fail(c))
  BY <1>2, <1>3, <1>10
<1>11. CASE r.op = "unlink" /\ k = "unlink" /\ (IF ok THEN EndWrite(c) ELSE Fail(c))
  BY <1>2, <1>3, <1>11
<1>12. CASE r.op = "stat" /\ ((ok /\ End(c, "ok") /\ cached' = {val}) \/ Fail(c))
  <2>1. k = "stat"
    BY <1>1, <1>12 DEF KindFits
  <2>2. k \notin Changers
    BY <2>1 DEF Changers
  <2>3. CASE ok /\ End(c, "ok") /\ cached' = {val}
    BY <1>12, <2>2, <2>3 DEF End, EndsAs, Settles, k
  <2> QED BY <1>2, <1>12, <2>3
<1>13. CASE r.op = "read" /\ (Request(c, "getSize", 0, 0) \/ (ok /\ EndRead(c)) \/ Fail(c))
  <2>1. k = "read" /\ k \notin Changers /\ k \notin Rewriting
    BY <1>1, <1>13 DEF KindFits, Changers, Rewriting
  <2> QED BY <1>2, <1>4, <1>5, <1>13, <2>1
<1>14. CASE r.op = "getSize" /\ k = "read"
            /\ IF ok /\ val > 0 THEN Request(c, "readChunk", 0, val) ELSE Fail(c)
  BY <1>2, <1>5, <1>14 DEF Rewriting
<1>15. CASE r.op = "readChunk" /\ NextPiece(c, r, ok, val)
  <2>1. k = "read" /\ k \notin Changers /\ k \notin Rewriting
    BY <1>1, <1>15 DEF KindFits, Changers, Rewriting
  <2>2. \/ Fail(c) \/ (ok /\ EndRead(c))
        \/ r.n > 1 /\ Request(c, "readChunk", r.at + 1, r.n - 1)
    BY <1>15 DEF NextPiece
  <2>3. r.n > 1 => r.n - 1 \in Nat /\ r.at + 1 \in Nat
    BY <1>1
  <2> QED BY <1>2, <1>4, <1>5, <2>1, <2>2, <2>3
<1> QED
  BY <1>7, <1>8, <1>9, <1>10, <1>11, <1>12, <1>13, <1>14, <1>15 DEF Continue, k

(* The client goes on with an answer, or without one.                           *)
LEMMA SettleCache ==
    ASSUME CacheInv, NetfsInv', NEW c \in Call, Waits(c), NEW ok \in BOOLEAN, NEW val,
           Settles(c, ok, val), UNCHANGED <<kind, serving, file, exists>>,
           \/ ~ ok /\ replies' = replies
           \/ /\ replies # <<>> /\ replies' = Tail(replies)
              /\ replies[1].rpc = rpcOf[c] /\ (ok => replies[1].ok) /\ replies[1].val = val
    PROVE  CacheInv'
<1>1. Fewer
  BY FewerReplies DEF CacheInv
<1>2. /\ DOMAIN rpcOf = Call /\ DOMAIN outcome = Call /\ kind' = [kind EXCEPT ![c] = kind[c]]
      /\ replies \in Seq(Reply0) /\ NoRpc.id = 0
  BY DEF CacheInv, NetfsInv, Typed, NoRpc
<1>3. CASE (\E r \in Rpc : NewRequest(c, kind[c], r)) /\ kind[c] \notin Rewriting /\ cached' = cached
  <2>1. PICK r \in Rpc : NewRequest(c, kind[c], r)
    BY <1>3
  <2>2. FlightInv'
    BY <1>1, <1>2, <1>3, <2>1, SendFlight DEF CacheInv
  <2>3. /\ rpcOf'[c] = r /\ r.id = seq + 1 /\ r # NoRpc /\ Waits(c)'
        /\ \A d \in Call : d # c => rpcOf'[d] = rpcOf[d]
        /\ outcome'[c] = "running" /\ \A d \in Call : d # c => outcome'[d] = outcome[d]
    <3>1. seq \in Nat
      BY NumbersGiven DEF CacheInv
    <3> QED BY <1>2, <2>1, <3>1 DEF NewRequest, Waits
  <2>4. NoFailure' => NoFailure
    BY <2>3 DEF NoFailure, CacheInv, FlightInv
  <2>5. Owes(c) => Owes(c)'
    BY <2>3 DEF Owes
  <2>6. ASSUME NoFailure PROVE \A i \in 1 .. Len(replies') : StatFits(i)'
    BY <2>3, <2>5, <2>6, MoveCache
  <2>7. ASSUME NoFailure PROVE CacheFits'
    BY <1>3, <2>3, <2>5, <2>7 DEF CacheInv, CacheFits, Owes, Waits, Stat
  <2> QED BY <2>2, <2>4, <2>6, <2>7 DEF CacheInv
<1>4. CASE EndsAs(c, "failed")
  <2>1. FlightInv'
    BY <1>1, <1>2, <1>4, EndFlight DEF CacheInv
  <2>2. ~ NoFailure'
    BY <1>2, <1>4 DEF EndsAs, NoFailure
  <2> QED BY <2>1, <2>2 DEF CacheInv
<1>5. CASE /\ ok /\ EndsAs(c, "ok")
           /\ kind[c] \in Changers => cached' = {}
           /\ kind[c] \notin Changers =>
                cached' \subseteq cached \/ (rpcOf[c].op = "stat" /\ cached' = {val})
  <2>0. /\ replies # <<>> /\ replies' = Tail(replies)
        /\ replies[1].rpc = rpcOf[c] /\ replies[1].ok /\ replies[1].val = val
    BY <1>5
  <2>1. /\ replies # <<>> /\ replies' = Tail(replies) /\ 1 \in 1 .. Len(replies)
        /\ replies[1].rpc = rpcOf[c] /\ replies[1].ok /\ replies[1].val = val
    BY <1>2, <2>0
  <2>2. FlightInv'
    <3>1. Answered(c)
      BY <2>1 DEF Answered
    <3> QED BY <1>1, <1>2, <1>5, <3>1, EndFlight DEF CacheInv
  <2>3. /\ \A d \in Call : d # c => rpcOf'[d] = rpcOf[d]
        /\ \A d \in Call : d # c => outcome'[d] = outcome[d]
    BY <1>2, <1>5 DEF EndsAs
  <2>4. NoFailure' => NoFailure
    BY <2>3 DEF NoFailure, CacheInv, FlightInv
  <2>5. ASSUME NoFailure PROVE \A i \in 1 .. Len(replies') : StatFits(i)'
    BY <2>1, <2>3, <2>5, MoveCache
  <2>6. \A d \in Call : Owes(d) /\ d # c => Owes(d)'
    BY <2>3 DEF Owes, Waits
  <2>7. ASSUME NoFailure PROVE CacheFits'
    <3>1. CASE kind[c] \in Changers
      BY <1>5, <3>1 DEF CacheFits
    <3>2. CASE kind[c] \notin Changers /\ cached' \subseteq cached
      BY <2>6, <2>7, <3>2 DEF CacheInv, CacheFits, Owes, Stat
    <3>3. CASE kind[c] \notin Changers /\ rpcOf[c].op = "stat" /\ cached' = {val}
      <4>1. val = Stat \/ \E d \in Call : Owes(d)
        BY <1>5, <2>1, <2>7, <3>3 DEF CacheInv, StatFits
      <4> QED BY <2>6, <3>3, <4>1 DEF CacheFits, Owes, Stat
    <3> QED BY <1>5, <3>1, <3>2, <3>3
  <2> QED BY <2>2, <2>4, <2>5, <2>7 DEF CacheInv
<1> QED BY <1>3, <1>4, <1>5 DEF Settles

LEMMA TimeoutCache ==
    ASSUME CacheInv, NetfsInv', NEW c \in Call, Timeout(c)
    PROVE  CacheInv'
<1>1. Waits(c) /\ Settles(c, FALSE, 0)
  BY ContinueSettles DEF Timeout, Waiting, Waits, CacheInv
<1> QED BY <1>1, SettleCache DEF Timeout, fileVars

LEMMA ReplyCache ==
    ASSUME CacheInv, NetfsInv', NEW a \in {replies[i] : i \in DOMAIN replies}, OnReply(a)
    PROVE  CacheInv'
<1>1. /\ replies # <<>> /\ a = replies[1] /\ replies' = Tail(replies)
      /\ UNCHANGED <<kind, serving, file, exists>>
      /\ replies \in Seq(Reply0) /\ 1 \in 1 .. Len(replies)
  BY DEF OnReply, CacheInv, NetfsInv, Typed, fileVars
<1>2. ASSUME NEW c \in Waiting, rpcOf[c].id = a.rpc.id, Continue(c, a.ok, a.val)
      PROVE  CacheInv'
  <2>1. c \in Call /\ Waits(c)
    BY <1>2 DEF Waiting, Waits
  <2>2. a.rpc = rpcOf[c] /\ a.ok \in BOOLEAN /\ a.val \in Nat
    <3>1. a \in Reply0
      BY <1>1
    <3>2. FrameFits(a.call, a.rpc)
      BY <1>1 DEF CacheInv, NetfsInv, FramesFit
    <3> QED BY <1>2, <2>1, <3>1, <3>2 DEF FrameFits, Reply0
  <2>3. Settles(c, a.ok, a.val)
    BY <1>2, <2>1, <2>2, ContinueSettles DEF CacheInv
  <2> QED BY <1>1, <2>1, <2>2, <2>3, SettleCache
<1>3. CASE UNCHANGED <<seq, rpcOf, requests, outcome, cached>>
  <2>1. FlightInv'
    BY <1>1, <1>3, FewerReplies, LossFlight DEF CacheInv
  <2>2. ASSUME NoFailure, NEW c \in Call PROVE \A i \in 1 .. Len(replies') : StatFits(i)'
    <3>1. Owes(c) => Owes(c)' /\ rpcOf'[c].id \in {rpcOf[c].id, seq + 1}
      BY <1>1, <1>3 DEF Owes, Waits
    <3> QED BY <1>1, <1>3, <2>2, <3>1, MoveCache
  <2>3. \A i \in 1 .. Len(replies') : replies'[i].call \in Call
    <3>1. \A i \in 1 .. Len(replies') : replies'[i] \in Reply0
      BY DEF NetfsInv, Typed
    <3> QED BY <3>1 DEF Reply0
  <2>4. NoFailure => \A i \in 1 .. Len(replies') : StatFits(i)'
    BY <2>2, <2>3
  <2>5. NoFailure' = NoFailure /\ CacheFits' = CacheFits
    BY <1>1, <1>3 DEF NoFailure, CacheFits, Owes, Waits, Stat
  <2> QED BY <2>1, <2>4, <2>5 DEF CacheInv
<1> QED BY <1>2, <1>3 DEF OnReply

LEMMA StartCache ==
    ASSUME CacheInv, NetfsInv', NEW c \in Call, NEW k \in Operation, Start(c, k)
    PROVE  CacheInv'
<1>1. /\ outcome[c] = "idle" /\ kind' = [kind EXCEPT ![c] = k]
      /\ UNCHANGED <<serving, replies, file, exists>> /\ Fewer /\ ~ Waits(c)
  BY FewerReplies DEF Start, CacheInv, FlightInv, fileVars
<1>2. DOMAIN rpcOf = Call /\ DOMAIN outcome = Call /\ DOMAIN kind = Call
  BY DEF CacheInv, NetfsInv, Typed
<1>3. /\ cached' = cached
      /\ \/ \E r \in Rpc : NewRequest(c, k, r)
         \/ \E how \in {"ok", "failed"} : EndsAs(c, how)
  <2>1. CASE closed \/ (k = "stat" /\ cached # {})
    BY <2>1 DEF Start, End, EndsAs
  <2>2. CASE ~ (closed \/ (k = "stat" /\ cached # {}))
    <3> DEFINE n == IF k \in {"touch", "append"} THEN 1 ELSE 0
               op == FirstOp(k)
    <3>1. Request(c, op, 0, n)
      BY <2>2 DEF Start
    <3>2. /\ n \in Nat /\ op \in Op /\ (op \in Rewriting => k = op)
          /\ (op \in Changing => k \in Changers)
      BY DEF FirstOp, Operation, Op, Changing, Changers, Rewriting
    <3> HIDE DEF n, op
    <3> QED BY <3>1, <3>2, RequestIsNew DEF CacheInv, NetfsInv
  <2> QED BY <2>1, <2>2
<1>4. FlightInv'
  BY <1>1, <1>3, SendFlight, EndFlight DEF CacheInv
<1>5. \A d \in Call : d # c => /\ rpcOf'[d] = rpcOf[d] /\ kind'[d] = kind[d]
                               /\ outcome'[d] = outcome[d]
  BY <1>1, <1>2, <1>3 DEF NewRequest, EndsAs
<1>6. NoFailure' => NoFailure
  BY <1>1, <1>5 DEF NoFailure
<1>7. ASSUME NoFailure PROVE \A i \in 1 .. Len(replies') : StatFits(i)'
  <2>1. ~ Owes(c)
    BY <1>1 DEF Owes
  <2> QED BY <1>1, <1>5, <1>7, <2>1, MoveCache
<1>8. ASSUME NoFailure PROVE CacheFits'
  BY <1>1, <1>3, <1>5, <1>8 DEF CacheInv, CacheFits, Owes, Waits, Stat
<1> QED BY <1>4, <1>6, <1>7, <1>8 DEF CacheInv

(* The network loses a frame, the cache expires.                                 *)
LEMMA LossCache ==
    ASSUME CacheInv, NetfsInv', LoseRequest \/ LoseReply \/ CacheExpires
    PROVE  CacheInv'
<1>1. /\ UNCHANGED <<seq, rpcOf, kind, outcome, file, exists>>
      /\ cached' = cached \/ cached' = {}
      /\ replies' = replies \/ (replies # <<>> /\ replies' = Tail(replies))
  BY DEF LoseRequest, LoseReply, CacheExpires, clientVars, fileVars
<1>2. \/ UNCHANGED <<requests, serving>>
      \/ requests # <<>> /\ requests' = Tail(requests) /\ serving' = serving
  BY DEF LoseRequest, LoseReply, CacheExpires, clientVars
<1>3. FlightInv'
  BY <1>1, <1>2, FewerReplies, LossFlight DEF CacheInv
<1>4. ASSUME NoFailure, NEW c \in Call PROVE \A i \in 1 .. Len(replies') : StatFits(i)'
  <2>1. Owes(c) => Owes(c)' /\ rpcOf'[c].id \in {rpcOf[c].id, seq + 1}
    BY <1>1 DEF Owes, Waits
  <2> QED BY <1>1, <1>4, <2>1, MoveCache
<1>5. \A i \in 1 .. Len(replies') : replies'[i].call \in Call
  <2>1. \A i \in 1 .. Len(replies') : replies'[i] \in Reply0
    BY DEF NetfsInv, Typed
  <2> QED BY <2>1 DEF Reply0
<1>6. NoFailure => \A i \in 1 .. Len(replies') : StatFits(i)'
  BY <1>4, <1>5
<1>7. NoFailure' = NoFailure /\ (CacheFits => CacheFits')
  BY <1>1 DEF NoFailure, CacheFits, Owes, Waits, Stat
<1> QED BY <1>3, <1>6, <1>7 DEF CacheInv

(* A syscall of the daemon that is not the last for its request.  If it changes  *)
(* the file, it is for a call that waits for an answer behind all that are on    *)
(* the wire.                                                                     *)
LEMMA ChangeCache ==
    ASSUME CacheInv, NetfsInv', FlightInv',
           UNCHANGED <<seq, rpcOf, kind, outcome, cached, replies>>,
           NEW q \in InFlight, q.rpc.op \in Changing \/ Stat' = Stat
    PROVE  CacheInv'
<1>1. \A d \in Call : Owes(d)' = Owes(d)
  BY DEF Owes, Waits
<1>2. NoFailure' = NoFailure
  BY DEF NoFailure
<1>3. ASSUME NoFailure, q.rpc.op \in Changing
      PROVE  q.call \in Call /\ Owes(q.call) /\ ~ Answered(q.call)
  <2>1. q.call \in Call /\ SentBy(q.call, q.rpc)
    BY NumbersGiven DEF CacheInv, FlightInv
  <2> QED BY <1>3, <2>1 DEF SentBy, Owes, NoFailure
<1>4. ASSUME NoFailure PROVE CacheFits'
  <2>1. CASE q.rpc.op \in Changing
    BY <1>1, <1>3, <1>4, <2>1 DEF CacheFits
  <2>2. CASE Stat' = Stat
    BY <1>1, <1>4, <2>2 DEF CacheInv, CacheFits
  <2> QED BY <2>1, <2>2
<1>5. ASSUME NoFailure, NEW i \in 1 .. Len(replies') PROVE StatFits(i)'
  <2>1. replies \in Seq(Reply0) /\ i \in 1 .. Len(replies)
        /\ \A j \in 1 .. i - 1 : j \in 1 .. Len(replies)
    BY DEF CacheInv, NetfsInv, Typed
  <2>2. CASE q.rpc.op \in Changing
    <3>1. \A j \in 1 .. i - 1 : replies'[j].rpc.id # rpcOf'[q.call].id
      BY <1>3, <1>5, <2>1, <2>2 DEF Answered
    <3> QED BY <1>1, <1>3, <1>5, <2>2, <3>1 DEF StatFits
  <2>3. CASE Stat' = Stat
    <3>1. StatFits(i)
      BY <1>5, <2>1 DEF CacheInv
    <3> QED BY <1>1, <2>3, <3>1 DEF StatFits
  <2> QED BY <2>2, <2>3
<1> QED BY <1>2, <1>4, <1>5 DEF CacheInv

(* The daemon answers.  A stat is told what the file is now; what changes the   *)
(* file is for a call that waits for an answer behind all that are on the wire. *)
LEMMA AnswerCache ==
    ASSUME CacheInv, NetfsInv', UNCHANGED <<seq, rpcOf, kind, outcome, cached>>,
           NEW e \in Reply0, replies' = Append(replies, e), NEW q \in InFlight,
           e.call = q.call, e.rpc = q.rpc,
           \/ requests # <<>> /\ q = requests[1] /\ requests' = Tail(requests) /\ serving' = serving
           \/ q \in serving /\ serving' = serving \ {q} /\ requests' = requests,
           e.ok /\ e.rpc.op = "stat" => e.val = Stat',
           e.rpc.op \in Changing \/ Stat' = Stat
    PROVE  CacheInv'
<1>1. FlightInv'
  BY AnswerFlight DEF CacheInv
<1>2. /\ Len(replies') = Len(replies) + 1 /\ Len(replies) \in Nat
      /\ replies'[Len(replies) + 1] = e
      /\ \A i \in 1 .. Len(replies) : replies'[i] = replies[i]
  BY DEF CacheInv, NetfsInv, Typed
<1>3. \A d \in Call : Owes(d)' = Owes(d)
  BY DEF Owes, Waits
<1>4. NoFailure' = NoFailure
  BY DEF NoFailure
<1>5. ASSUME NoFailure, e.rpc.op \in Changing
      PROVE  q.call \in Call /\ Owes(q.call) /\ ~ Answered(q.call)
  <2>1. q.call \in Call /\ SentBy(q.call, q.rpc)
    BY NumbersGiven DEF CacheInv, FlightInv
  <2> QED BY <1>5, <2>1 DEF SentBy, Owes, NoFailure
<1>6. ASSUME NoFailure PROVE CacheFits'
  <2>1. CASE e.rpc.op \in Changing
    BY <1>3, <1>5, <1>6, <2>1 DEF CacheFits
  <2>2. CASE Stat' = Stat
    BY <1>3, <1>6, <2>2 DEF CacheInv, CacheFits
  <2> QED BY <2>1, <2>2
<1>7. ASSUME NoFailure, NEW i \in 1 .. Len(replies') PROVE StatFits(i)'
  <2>1. CASE i = Len(replies) + 1
    BY <1>2, <2>1 DEF StatFits
  <2>2. CASE i \in 1 .. Len(replies)
    <3>1. \A j \in 1 .. i - 1 : j \in 1 .. Len(replies) /\ replies'[j] = replies[j]
      BY <1>2, <2>2
    <3>2. CASE Stat' = Stat
      <4>1. StatFits(i)
        BY <1>7, <2>2 DEF CacheInv
      <4> QED BY <1>2, <1>3, <2>2, <3>1, <3>2, <4>1 DEF StatFits
    <3>3. CASE e.rpc.op \in Changing
      <4>1. \A j \in 1 .. i - 1 : replies'[j].rpc.id # rpcOf'[q.call].id
        BY <1>5, <1>7, <3>1, <3>3 DEF Answered
      <4> QED BY <1>3, <1>5, <1>7, <3>3, <4>1 DEF StatFits
    <3> QED BY <3>2, <3>3
  <2> QED BY <1>2, <2>1, <2>2
<1> QED BY <1>1, <1>4, <1>6, <1>7 DEF CacheInv

LEMMA ServeCache ==
    ASSUME CacheInv, NetfsInv', NEW q \in {requests[i] : i \in DOMAIN requests}, Serve(q)
    PROVE  CacheInv'
<1>0. UNCHANGED clientVars /\ Arrives(q)
  BY DEF Serve, Refuse, ServeQuery, ServeUnlink, ServeChunk, ServeTouch, ServeAppend
<1>1. /\ UNCHANGED <<seq, rpcOf, kind, outcome, cached>>
      /\ requests # <<>> /\ q = requests[1] /\ requests' = Tail(requests)
  BY <1>0 DEF Arrives, clientVars
<1>2. q \in InFlight /\ q \in Request0 /\ exists \in BOOLEAN
  <2>1. requests \in Seq(Request0) /\ 1 \in 1 .. Len(requests)
    BY <1>1 DEF CacheInv, NetfsInv, Typed
  <2> QED BY <1>1, <2>1 DEF InFlight, CacheInv, NetfsInv, Typed
<1>3. ASSUME NEW step, Begin(q, step), q.rpc.op \in Changing \/ Stat' = Stat
      PROVE  CacheInv'
  <2> DEFINE t == [call |-> q.call, rpc |-> q.rpc, step |-> step, saw |-> <<>>]
  <2>1. t.call = q.call /\ t.rpc = q.rpc
    OBVIOUS
  <2>2. serving' = serving \union {t} /\ replies' = replies
    BY <1>3 DEF Begin
  <2> HIDE DEF t
  <2>3. FlightInv'
    BY <1>1, <2>1, <2>2, FewerReplies, LossFlight DEF CacheInv
  <2> QED BY <1>1, <1>2, <1>3, <2>2, <2>3, ChangeCache
<1>4. ASSUME NEW ok \in BOOLEAN, NEW val \in Nat, Reply(q, ok, val), serving' = serving,
             ok /\ q.rpc.op = "stat" => val = Stat',
             q.rpc.op \in Changing \/ Stat' = Stat
      PROVE  CacheInv'
  <2> DEFINE e == [call |-> q.call, rpc |-> q.rpc, ok |-> ok, val |-> val]
  <2>1. e \in Reply0 /\ e.call = q.call /\ e.rpc = q.rpc /\ e.ok = ok /\ e.val = val
    BY <1>2 DEF Request0, Reply0
  <2>2. replies' = Append(replies, e)
    BY <1>4 DEF Reply
  <2> HIDE DEF e
  <2> QED BY <1>1, <1>2, <1>4, <2>1, <2>2, AnswerCache
<1>5. CASE Refuse(q)
  BY <1>4, <1>5 DEF Refuse, fileVars, Stat
<1>6. CASE ServeQuery(q)
  <2>1. Stat' = Stat
    BY <1>6 DEF ServeQuery, fileVars, Stat
  <2>2. CASE q.rpc.op = "stat" /\ Reply(q, TRUE, Stat) /\ UNCHANGED serving
    <3>1. Stat \in Nat
      BY NetFSAssumption DEF Stat, Missing
    <3> QED BY <1>4, <2>1, <2>2, <3>1
  <2>3. CASE q.rpc.op = "getSize" /\ Reply(q, exists, Len(file)) /\ UNCHANGED serving
    BY <1>2, <1>4, <2>1, <2>3
  <2>4. CASE /\ q.rpc.op = "readChunk"
             /\ Reply(q, exists, IF q.rpc.at < Len(file) THEN 1 ELSE 0)
             /\ UNCHANGED serving
    BY <1>2, <1>4, <2>1, <2>4
  <2>5. CASE q.rpc.op = "read" /\ Reply(q, TRUE, Len(file)) /\ UNCHANGED serving
    <3>1. Len(file) \in Nat /\ q.rpc.op # "stat"
      BY <2>5
    <3> QED BY <1>4, <2>1, <2>5, <3>1
  <2>6. CASE q.rpc.op = "read" /\ Begin(q, "close")
    BY <1>3, <2>1, <2>6
  <2> QED BY <1>6, <2>2, <2>3, <2>4, <2>5, <2>6 DEF ServeQuery
<1>7. CASE ServeUnlink(q)
  BY <1>2, <1>4, <1>7 DEF ServeUnlink, Changing
<1>8. CASE ServeChunk(q)
  <2>1. q.rpc.op = "writeChunk" /\ serving' = serving
    BY <1>8 DEF ServeChunk
  <2>2. Reply(q, TRUE, 0) \/ Reply(q, FALSE, 0)
    BY <1>8 DEF ServeChunk
  <2> QED BY <1>4, <2>1, <2>2 DEF Changing
<1>9. CASE ServeTouch(q)
  BY <1>3, <1>9 DEF ServeTouch, Changing
<1>10. CASE ServeAppend(q)
  <2>1. PICK step \in {"read", "open"} : Begin(q, step)
    BY <1>10 DEF ServeAppend
  <2> QED BY <1>3, <1>10, <2>1 DEF ServeAppend, Changing
<1> QED BY <1>5, <1>6, <1>7, <1>8, <1>9, <1>10 DEF Serve

LEMMA TaskCache ==
    ASSUME CacheInv, NetfsInv', NEW s \in serving, RunTask(s)
    PROVE  CacheInv'
<1>1. UNCHANGED <<seq, rpcOf, kind, outcome, cached, requests>>
  BY DEF RunTask, RefuseTask, ReadFile, OpenFile, WriteFile, CloseFile, Proceed, clientVars
<1>2. s \in InFlight /\ TaskTyped(s) /\ s.call \in Call /\ s.rpc \in Rpc
  BY DEF CacheInv, NetfsInv, Typed, TaskTyped, InFlight
<1>3. ASSUME NEW ok \in BOOLEAN, Reply(s, ok, 0), serving' = serving \ {s}, UNCHANGED fileVars
      PROVE  CacheInv'
  <2> DEFINE e == [call |-> s.call, rpc |-> s.rpc, ok |-> ok, val |-> 0]
  <2>1. e \in Reply0 /\ e.call = s.call /\ e.rpc = s.rpc
    BY <1>2 DEF Reply0
  <2>2. replies' = Append(replies, e)
    BY <1>3 DEF Reply
  <2> HIDE DEF e
  <2>3. e.rpc.op # "stat"
    BY <1>2, <2>1 DEF TaskTyped
  <2>4. Stat' = Stat
    BY <1>3 DEF fileVars, Stat
  <2> QED BY <1>1, <1>2, <1>3, <2>1, <2>2, <2>3, <2>4, AnswerCache
<1>4. ASSUME NEW step, NEW saw, Proceed(s, step, saw), s.rpc.op \in Changing \/ Stat' = Stat
      PROVE  CacheInv'
  <2> DEFINE t == [s EXCEPT !.step = step, !.saw = saw]
  <2>1. t.call = s.call /\ t.rpc = s.rpc
    OBVIOUS
  <2>2. serving' = (serving \ {s}) \union {t} /\ replies' = replies
    BY <1>4 DEF Proceed
  <2> HIDE DEF t
  <2>3. FlightInv'
    BY <1>1, <2>1, <2>2, StepFlight DEF CacheInv
  <2> QED BY <1>1, <1>2, <1>4, <2>2, <2>3, ChangeCache
<1>5. CASE RefuseTask(s)
  BY <1>3, <1>5 DEF RefuseTask
<1>6. CASE CloseFile(s)
  BY <1>3, <1>6 DEF CloseFile
<1>7. CASE ReadFile(s)
  BY <1>4, <1>7 DEF ReadFile, fileVars, Stat
<1>8. CASE OpenFile(s)
  BY <1>2, <1>4, <1>8 DEF OpenFile, TaskTyped, Changing
<1>9. CASE WriteFile(s)
  BY <1>2, <1>4, <1>9 DEF WriteFile, TaskTyped, Changing
<1> QED BY <1>5, <1>6, <1>7, <1>8, <1>9 DEF RunTask

(* The mount is closed: every call that waits has failed.                       *)
LEMMA CloseCache ==
    ASSUME CacheInv, NetfsInv', Close
    PROVE  CacheInv'
<1>1. /\ rpcOf' = [c \in Call |-> NoRpc]
      /\ outcome' = [c \in Call |-> IF Waits(c) THEN "failed" ELSE outcome[c]]
      /\ cached' = {}
      /\ UNCHANGED <<seq, kind, requests, serving, replies, file, exists>>
  BY DEF Close, Waiting, Waits, fileVars
<1>2. \A c \in Call : ~ Waits(c)' /\ (Waits(c) => outcome'[c] = "failed")
                      /\ (~ Waits(c) => outcome'[c] = outcome[c])
  BY <1>1 DEF Waits
<1>3. InFlight' = InFlight
  BY <1>1 DEF InFlight
<1>4. ASSUME NEW q \in InFlight PROVE SentBy(q.call, q.rpc)'
  <2>1. q.call \in Call /\ SentBy(q.call, q.rpc)
    BY NumbersGiven DEF CacheInv, FlightInv
  <2> QED BY <1>1, <1>2, <2>1 DEF SentBy
<1>5. \A c \in Call : outcome'[c] = "running" <=> Waits(c)'
  BY <1>2 DEF CacheInv, FlightInv
<1>6. FlightInv'
  BY <1>1, <1>3, <1>4, <1>5 DEF CacheInv, FlightInv
<1>7. ASSUME NoFailure' PROVE NoFailure /\ \A c \in Call : ~ Waits(c)
  BY <1>2, <1>7 DEF NoFailure
<1>8. ASSUME NoFailure' PROVE CacheFits' /\ \A i \in 1 .. Len(replies') : StatFits(i)'
  <2>1. CacheFits'
    BY <1>1 DEF CacheFits
  <2>2. \A i \in 1 .. Len(replies) :
           replies[i].ok /\ replies[i].rpc.op = "stat" => replies[i].val = Stat
    BY <1>7, <1>8 DEF CacheInv, StatFits, Owes
  <2> QED BY <1>1, <2>1, <2>2 DEF StatFits, Stat
<1> QED BY <1>6, <1>8 DEF CacheInv

LEMMA CacheInvNext ==
    ASSUME CacheInv, [NetfsNext]_netfsVars
    PROVE  CacheInv'
<1>1. NetfsInv'
  BY NetfsInvNext DEF CacheInv
<1>2. CASE UNCHANGED netfsVars
  <2>1. FlightInv'
    BY <1>2, FewerReplies, LossFlight DEF CacheInv, netfsVars
  <2>2. NoFailure' = NoFailure /\ CacheFits' = CacheFits
    BY <1>2 DEF netfsVars, NoFailure, CacheFits, Owes, Waits, Stat
  <2>3. \A i \in 1 .. Len(replies) : StatFits(i)' = StatFits(i)
    BY <1>2 DEF netfsVars, StatFits, Owes, Waits, Stat
  <2> QED BY <1>1, <1>2, <2>1, <2>2, <2>3 DEF CacheInv, netfsVars
<1>3. CASE NetfsNext
  BY <1>1, <1>3, StartCache, TimeoutCache, ReplyCache, LossCache, ServeCache, TaskCache,
     CloseCache DEF NetfsNext
<1> QED BY <1>2, <1>3

(* When no call runs and none has failed, the cache has what the file is, or    *)
(* nothing (invalidateCache(), NetFS.ts:492), however the answers to stats and  *)
(* writes came and went.                                                        *)
THEOREM CacheIsFresh == NetfsSpec => []QuietCacheFresh
<1>1. NetfsInit => CacheInv
  <2> SUFFICES ASSUME NetfsInit PROVE CacheInv
    OBVIOUS
  <2>1. Len(requests) = 0 /\ Len(replies) = 0 /\ serving = {} /\ cached = {}
    BY DEF NetfsInit
  <2>2. \A c \in Call : outcome[c] = "idle" /\ ~ Waits(c)
    BY DEF NetfsInit, Waits
  <2>3. FlightInv
    BY <2>1, <2>2 DEF FlightInv, InFlight
  <2> QED BY <2>1, <2>3, NetfsInvInit DEF CacheInv, CacheFits
<1>2. CacheInv => QuietCacheFresh
  <2> SUFFICES ASSUME CacheInv, \A c \in Call : outcome[c] \in {"idle", "ok"}
               PROVE  cached \subseteq {Stat}
    BY DEF QuietCacheFresh
  <2>1. NoFailure /\ \A c \in Call : ~ Waits(c)
    BY DEF NoFailure, CacheInv, FlightInv
  <2> QED BY <2>1 DEF CacheInv, CacheFits, Owes
<1>3. CacheInv /\ [NetfsNext]_netfsVars => CacheInv'
  BY CacheInvNext
<1> QED BY <1>1, <1>2, <1>3, PTL DEF NetfsSpec

-----------------------------------------------------------------------------
(* The mount table *)

Sorted == \A i, j \in 1 .. Len(mounts) : i < j => Depth(i) >= Depth(j)

OneMountPerPath ==
    \A i, j \in 1 .. Len(mounts) : mounts[i].vfsPath = mounts[j].vfsPath => i = j

OnePlacePerDriver ==
    \A i, j \in 1 .. Len(mounts) : mounts[i].vfs = mounts[j].vfs => i = j

(* The table alone: longest paths first, and nothing in it twice. *)
TableOK == MountsTypeOK /\ Sorted /\ OneMountPerPath /\ OnePlacePerDriver

MountsInv == TableOK /\ OpenMeansMounted

(* What InsertAt and RemoveAt make of a sequence. *)
LEMMA Inserted ==
    ASSUME NEW S, NEW s \in Seq(S), NEW e \in S, NEW k \in 1 .. Len(s) + 1
    PROVE  /\ InsertAt(s, k, e) \in Seq(S) /\ Len(InsertAt(s, k, e)) = Len(s) + 1
           /\ \A j \in 1 .. k - 1 : InsertAt(s, k, e)[j] = s[j]
           /\ InsertAt(s, k, e)[k] = e
           /\ \A j \in k + 1 .. Len(s) + 1 : InsertAt(s, k, e)[j] = s[j - 1]
<1> DEFINE n == Len(s)
           a == SubSeq(s, 1, k - 1)
           b == a \o <<e>>
           c == SubSeq(s, k, n)
           t == InsertAt(s, k, e)
<1>0. n \in Nat /\ k \in Nat /\ 1 <= k /\ k <= n + 1 /\ \A i \in 1 .. n : s[i] \in S
  OBVIOUS
<1>1. t = b \o c
  BY DEF InsertAt
<1>2. a \in Seq(S) /\ Len(a) = k - 1 /\ \A i \in 1 .. k - 1 : a[i] = s[i]
  BY <1>0, SubSeqProperties
<1>3. c \in Seq(S) /\ Len(c) = n + 1 - k /\ \A i \in 1 .. n + 1 - k : c[i] = s[k + i - 1]
  BY <1>0, SubSeqProperties
<1>4. <<e>> \in Seq(S) /\ Len(<<e>>) = 1 /\ <<e>>[1] = e
  OBVIOUS
<1> HIDE DEF a, c, t
<1>5. b \in Seq(S) /\ Len(b) = k
      /\ \A i \in 1 .. k : b[i] = IF i <= k - 1 THEN s[i] ELSE e
  BY <1>0, <1>2, <1>4, ConcatProperties
<1> HIDE DEF b
<1>6. t \in Seq(S) /\ Len(t) = n + 1
      /\ \A j \in 1 .. n + 1 : t[j] = IF j <= k THEN b[j] ELSE c[j - k]
  <2>1. Len(b) + Len(c) = n + 1
    BY <1>0, <1>3, <1>5
  <2>2. /\ b \o c \in Seq(S) /\ Len(b \o c) = Len(b) + Len(c)
        /\ \A j \in 1 .. Len(b) + Len(c) :
             (b \o c)[j] = IF j <= Len(b) THEN b[j] ELSE c[j - Len(b)]
    BY <1>3, <1>5, ConcatProperties, Zenon
  <2> QED BY <1>1, <1>5, <2>1, <2>2, Zenon
<1>7. \A j \in 1 .. k - 1 : t[j] = s[j]
  BY <1>0, <1>5, <1>6
<1>8. t[k] = e
  BY <1>0, <1>5, <1>6
<1>9. ASSUME NEW j \in k + 1 .. n + 1 PROVE t[j] = s[j - 1]
  <2>1. j - k \in 1 .. n + 1 - k /\ k + (j - k) - 1 = j - 1
    BY <1>0
  <2> QED BY <2>1, <1>0, <1>3, <1>6
<1> QED BY <1>6, <1>7, <1>8, <1>9 DEF t

LEMMA Removed ==
    ASSUME NEW S, NEW s \in Seq(S), NEW k \in 1 .. Len(s)
    PROVE  LET t == RemoveAt(s, k)
           IN /\ t \in Seq(S) /\ Len(t) = Len(s) - 1
              /\ \A j \in 1 .. Len(s) - 1 : t[j] = IF j < k THEN s[j] ELSE s[j + 1]
<1> DEFINE n == Len(s)
           a == SubSeq(s, 1, k - 1)
           c == SubSeq(s, k + 1, n)
<1>0. n \in Nat /\ k \in Nat /\ 1 <= k /\ k <= n /\ \A i \in 1 .. n : s[i] \in S
  OBVIOUS
<1>1. RemoveAt(s, k) = a \o c
  BY DEF RemoveAt
<1>2. a \in Seq(S) /\ Len(a) = k - 1 /\ \A i \in 1 .. k - 1 : a[i] = s[i]
  BY <1>0, SubSeqProperties
<1>3. c \in Seq(S) /\ Len(c) = n - k /\ \A i \in 1 .. n - k : c[i] = s[k + i]
  BY <1>0, SubSeqProperties
<1> HIDE DEF a, c
<1>4. a \o c \in Seq(S) /\ Len(a \o c) = n - 1
      /\ \A j \in 1 .. n - 1 : (a \o c)[j] = IF j <= k - 1 THEN a[j] ELSE c[j - (k - 1)]
  <2>1. Len(a) + Len(c) = n - 1
    BY <1>0, <1>2, <1>3
  <2>2. /\ a \o c \in Seq(S) /\ Len(a \o c) = Len(a) + Len(c)
        /\ \A j \in 1 .. Len(a) + Len(c) :
             (a \o c)[j] = IF j <= Len(a) THEN a[j] ELSE c[j - Len(a)]
    BY <1>2, <1>3, ConcatProperties, Zenon
  <2> QED BY <2>1, <2>2, <1>2, Zenon
<1>5. ASSUME NEW j \in 1 .. n - 1
      PROVE  (a \o c)[j] = IF j < k THEN s[j] ELSE s[j + 1]
  <2>0. j < k \/ j >= k
    BY <1>0
  <2>1. CASE j < k
    BY <2>1, <1>0, <1>2, <1>4
  <2>2. CASE j >= k
    <3>1. j - (k - 1) \in 1 .. n - k /\ k + (j - (k - 1)) = j + 1 /\ ~ (j <= k - 1) /\ ~ (j < k)
      BY <2>2, <1>0
    <3>2. (a \o c)[j] = c[j - (k - 1)]
      BY <3>1, <1>4, SMTT(30)
    <3>3. c[j - (k - 1)] = s[j + 1]
      BY <3>1, <1>3
    <3> QED BY <3>1, <3>2, <3>3
  <2> QED BY <2>0, <2>1, <2>2, Zenon
<1> QED BY <1>1, <1>4, <1>5, Zenon

(* Of two prefixes of one path, the longer one is as long as the path only if *)
(* it is the path.                                                            *)
LEMMA WholePrefix ==
    ASSUME NEW q \in Seq(STRING), NEW p \in Seq(STRING), IsPrefix(q, p)
    PROVE  Len(q) <= Len(p) /\ (Len(q) = Len(p) => q = p)
<1>1. Len(q) <= Len(p) /\ SubSeq(q, 1, Len(q)) = SubSeq(p, 1, Len(q))
  BY DEF IsPrefix
<1>2. SubSeq(q, 1, Len(q)) = q /\ SubSeq(p, 1, Len(p)) = p
  OBVIOUS
<1> QED BY <1>1, <1>2

LEMMA PrefixOfItself == ASSUME NEW p \in Seq(STRING) PROVE IsPrefix(p, p)
  BY DEF IsPrefix

LEMMA PathsAreSequences ==
    ASSUME TableOK
    PROVE  /\ \A p \in MountPath : p \in Seq(STRING)
           /\ DOMAIN mounts = 1 .. Len(mounts)
           /\ Len(mounts) \in Nat
           /\ \A i \in 1 .. Len(mounts) :
                /\ mounts[i] \in MountPoint
                /\ mounts[i].vfsPath \in MountPath /\ mounts[i].vfsPath \in Seq(STRING)
                /\ mounts[i].vfs \in Driver
                /\ Depth(i) \in Nat
<1>1. mounts \in Seq(MountPoint)
  BY DEF TableOK, MountsTypeOK
<1>2. MountPath \subseteq Seq(STRING)
  BY MountsAssumption
<1>3. DOMAIN mounts = 1 .. Len(mounts) /\ Len(mounts) \in Nat
      /\ \A i \in 1 .. Len(mounts) : mounts[i] \in MountPoint
  BY <1>1
<1>4. \A i \in 1 .. Len(mounts) :
        mounts[i].vfsPath \in MountPath /\ mounts[i].vfs \in Driver
  BY <1>3 DEF MountPoint
<1>5. \A p \in MountPath : p \in Seq(STRING) /\ Len(p) \in Nat
  BY <1>2
<1> QED BY <1>3, <1>4, <1>5 DEF Depth

(* Where something is mounted, resolve() finds it and nothing else: the        *)
(* driver that UMOUNT closes is the one it takes from the table.               *)
LEMMA ResolvesExact ==
    ASSUME TableOK, NEW p \in MountPath, NEW i, Resolves(i, p),
           NEW k \in 1 .. Len(mounts), mounts[k].vfsPath = p
    PROVE  i = k
<1>1. i \in 1 .. Len(mounts) /\ Covers(i, p) /\ \A j \in 1 .. i - 1 : ~ Covers(j, p)
  BY PathsAreSequences DEF Resolves
<1>2. Covers(k, p)
  BY PathsAreSequences, PrefixOfItself DEF Covers
<1>3. i <= k
  BY <1>1, <1>2
<1>4. CASE i < k
  <2>1. Depth(i) >= Len(p)
    BY <1>1, <1>4, PathsAreSequences DEF TableOK, Sorted, Depth
  <2>2. mounts[i].vfsPath = p
    BY <2>1, <1>1, WholePrefix, PathsAreSequences DEF Covers, Depth
  <2> QED BY <2>2, <1>1 DEF TableOK, OneMountPerPath
<1> QED BY <1>1, <1>3, <1>4

(* What mount() does to the table. *)
LEMMA MountKeepsTable ==
    ASSUME TableOK, NEW p \in MountPath, NEW d \in Driver, ~ Mounted(d), Mount(p, d)
    PROVE  /\ mounts' \in Seq(MountPoint) /\ replaced' \subseteq Driver
           /\ Sorted' /\ OneMountPerPath' /\ OnePlacePerDriver'
           /\ replaced \subseteq replaced'
           /\ Mounted(d)'
           /\ \A e : Mounted(e)' => e = d \/ Mounted(e)
           /\ \A e : Mounted(e) => Mounted(e)' \/ e \in replaced'
<1> USE PathsAreSequences
<1> DEFINE n == Len(mounts)
<1>0. mounts \in Seq(MountPoint) /\ replaced \subseteq Driver
  BY DEF TableOK, MountsTypeOK
<1>n. n \in Nat
  OBVIOUS
<1>d. \A i \in 1 .. n : mounts[i].vfs # d
  BY DEF Mounted
<1>1. CASE \E i \in DOMAIN mounts :
             /\ mounts[i].vfsPath = p
             /\ mounts' = [mounts EXCEPT ![i].vfs = d]
             /\ replaced' = replaced \union {mounts[i].vfs}
  <2>1. PICK i \in 1 .. n : /\ mounts[i].vfsPath = p
                            /\ mounts' = [mounts EXCEPT ![i].vfs = d]
                            /\ replaced' = replaced \union {mounts[i].vfs}
    BY <1>1
  <2>2. /\ mounts' \in Seq(MountPoint) /\ Len(mounts') = n
        /\ \A j \in 1 .. n : /\ mounts'[j].vfsPath = mounts[j].vfsPath
                             /\ mounts'[j].vfs = IF j = i THEN d ELSE mounts[j].vfs
    <3>1. [mounts[i] EXCEPT !.vfs = d] \in MountPoint
      BY <1>0 DEF MountPoint
    <3>2. mounts' = [mounts EXCEPT ![i] = [mounts[i] EXCEPT !.vfs = d]]
      BY <2>1
    <3>3. mounts' \in Seq(MountPoint) /\ Len(mounts') = n
      BY <3>1, <3>2, <1>0
    <3>4. ASSUME NEW j \in 1 .. n
          PROVE  /\ mounts'[j].vfsPath = mounts[j].vfsPath
                 /\ mounts'[j].vfs = IF j = i THEN d ELSE mounts[j].vfs
      BY <3>2, <1>0 DEF MountPoint
    <3> QED BY <3>3, <3>4
  <2>3. DOMAIN mounts' = 1 .. n
    BY <2>2
  <2>4. Sorted' /\ OneMountPerPath'
    BY <2>2 DEF TableOK, Sorted, OneMountPerPath, Depth
  <2>5. OnePlacePerDriver'
    BY <2>2, <1>d DEF TableOK, OnePlacePerDriver
  <2>6. Mounted(d)' /\ \A e : Mounted(e)' => e = d \/ Mounted(e)
    BY <2>1, <2>2, <2>3 DEF Mounted
  <2>7. \A e : Mounted(e) => Mounted(e)' \/ e \in replaced'
    BY <2>1, <2>2, <2>3 DEF Mounted
  <2> QED BY <2>1, <2>2, <2>4, <2>5, <2>6, <2>7, <1>0
<1>2. CASE \E k \in 0 .. n :
             /\ \A i \in DOMAIN mounts : mounts[i].vfsPath # p
             /\ PlaceOf(k, p)
             /\ mounts' = InsertAt(mounts, k + 1, [vfsPath |-> p, vfs |-> d])
             /\ UNCHANGED replaced
  <2> DEFINE new == [vfsPath |-> p, vfs |-> d]
  <2>1. PICK k \in 0 .. n :
             /\ \A i \in 1 .. n : mounts[i].vfsPath # p
             /\ PlaceOf(k, p)
             /\ mounts' = InsertAt(mounts, k + 1, new)
             /\ replaced' = replaced
    BY <1>2
  <2>2. new \in MountPoint /\ new.vfsPath = p /\ new.vfs = d
    BY DEF MountPoint
  <2> HIDE DEF new
  <2>4. /\ mounts' \in Seq(MountPoint) /\ Len(mounts') = n + 1
        /\ \A j \in 1 .. n + 1 :
             mounts'[j] = IF j <= k THEN mounts[j] ELSE IF j = k + 1 THEN new ELSE mounts[j - 1]
    <3>1. /\ mounts' \in Seq(MountPoint) /\ Len(mounts') = n + 1
          /\ \A j \in 1 .. k : mounts'[j] = mounts[j]
          /\ mounts'[k + 1] = new
          /\ \A j \in k + 2 .. n + 1 : mounts'[j] = mounts[j - 1]
      <4>1. k + 1 \in 1 .. n + 1 /\ (k + 1) - 1 = k /\ (k + 1) + 1 = k + 2
        BY <1>n
      <4> DEFINE l == k + 1
      <4>2. mounts' = InsertAt(mounts, l, new) /\ l \in 1 .. n + 1
        BY <4>1, <2>1
      <4> HIDE DEF l
      <4>3. /\ mounts' \in Seq(MountPoint) /\ Len(mounts') = n + 1
            /\ \A j \in 1 .. l - 1 : mounts'[j] = mounts[j]
            /\ mounts'[l] = new
            /\ \A j \in l + 1 .. n + 1 : mounts'[j] = mounts[j - 1]
        <5>1. l \in 1 .. Len(mounts) + 1 /\ mounts \in Seq(MountPoint) /\ new \in MountPoint
          BY <4>2, <2>2, <1>0
        <5>2. /\ InsertAt(mounts, l, new) \in Seq(MountPoint)
              /\ Len(InsertAt(mounts, l, new)) = Len(mounts) + 1
          BY ONLY <5>1, Inserted, ZenonT(60)
        <5>3. \A j \in 1 .. l - 1 : InsertAt(mounts, l, new)[j] = mounts[j]
          BY ONLY <5>1, Inserted, SMTT(60)
        <5>4. InsertAt(mounts, l, new)[l] = new
          BY ONLY <5>1, Inserted, SMTT(60)
        <5>5. \A j \in l + 1 .. Len(mounts) + 1 :
                InsertAt(mounts, l, new)[j] = mounts[j - 1]
          BY ONLY <5>1, Inserted, SMTT(60)
        <5> QED BY <4>2, <5>2, <5>3, <5>4, <5>5
      <4> QED BY <4>1, <4>3 DEF l
    <3>2. ASSUME NEW j \in 1 .. n + 1
          PROVE  mounts'[j] = IF j <= k THEN mounts[j] ELSE IF j = k + 1 THEN new
                              ELSE mounts[j - 1]
      <4>1. j <= k => j \in 1 .. k
        BY <1>n
      <4>2. ~ (j <= k) /\ j # k + 1 => j \in k + 2 .. n + 1
        BY <1>n
      <4> QED BY <4>1, <4>2, <3>1
    <3> QED BY <3>1, <3>2
  <2>5. DOMAIN mounts' = 1 .. n + 1
    BY <2>4
  <2>6. Len(p) \in Nat
    OBVIOUS
  <2>7. Sorted'
    <3> SUFFICES ASSUME NEW i \in 1 .. n + 1, NEW j \in 1 .. n + 1, i < j
                 PROVE  Len(mounts'[i].vfsPath) >= Len(mounts'[j].vfsPath)
      BY <2>4 DEF Sorted, Depth
    <3>1. /\ \A a \in 1 .. k : Len(mounts[a].vfsPath) >= Len(p)
          /\ \A a \in k + 1 .. n : Len(mounts[a].vfsPath) < Len(p)
      BY <2>1 DEF PlaceOf, Depth
    <3>2. \A a, b \in 1 .. n : a < b => Len(mounts[a].vfsPath) >= Len(mounts[b].vfsPath)
      BY DEF TableOK, Sorted, Depth
    <3>3. \A a \in 1 .. n : Len(mounts[a].vfsPath) \in Nat
      BY DEF Depth
    <3>4. CASE j <= k
      BY <3>4, <3>2, <2>4
    <3>5. CASE j = k + 1
      BY <3>5, <3>1, <2>4, <2>2, SMTT(30)
    <3>6. CASE j > k + 1 /\ i <= k
      <4>1. j - 1 \in 1 .. n /\ i \in 1 .. n /\ i < j - 1
        BY <3>6, <1>n
      <4>2. mounts'[i] = mounts[i] /\ mounts'[j] = mounts[j - 1]
        BY <3>6, <2>4, <1>n
      <4> QED BY <4>1, <4>2, <3>2
    <3>7. CASE j > k + 1 /\ i = k + 1
      <4>1. j - 1 \in k + 1 .. n /\ j - 1 \in 1 .. n
        BY <3>7, <1>n
      <4>2. mounts'[i] = new /\ mounts'[j] = mounts[j - 1]
        BY <3>7, <2>4, <1>n
      <4>3. Len(mounts[j - 1].vfsPath) < Len(p) /\ Len(mounts[j - 1].vfsPath) \in Nat
        BY <4>1, <3>1, <3>3
      <4> QED BY <4>2, <4>3, <2>2, <2>6
    <3>8. CASE j > k + 1 /\ i > k + 1
      <4>1. i - 1 \in 1 .. n /\ j - 1 \in 1 .. n /\ i - 1 < j - 1
        BY <3>8, <1>n
      <4>2. mounts'[i] = mounts[i - 1] /\ mounts'[j] = mounts[j - 1]
        BY <3>8, <2>4, <1>n
      <4> QED BY <4>1, <4>2, <3>2
    <3> QED BY <3>4, <3>5, <3>6, <3>7, <3>8
  <2> DEFINE back(j) == IF j <= k THEN j ELSE j - 1
  <2>b. \A j \in 1 .. n + 1 : j # k + 1 => back(j) \in 1 .. n /\ mounts'[j] = mounts[back(j)]
    BY <2>4
  <2>c. \A i, j \in 1 .. n + 1 : i # k + 1 /\ j # k + 1 /\ back(i) = back(j) => i = j
    OBVIOUS
  <2>e. \A j \in 1 .. n : \E i \in 1 .. n + 1 : mounts'[i] = mounts[j]
    <3> SUFFICES ASSUME NEW j \in 1 .. n
                 PROVE  \E i \in 1 .. n + 1 : mounts'[i] = mounts[j]
      OBVIOUS
    <3>1. CASE j <= k
      <4>1. j \in 1 .. n + 1 /\ mounts'[j] = mounts[j]
        BY <3>1, <2>4, <1>n
      <4> QED BY <4>1
    <3>2. CASE j > k
      <4>1. j + 1 \in 1 .. n + 1 /\ mounts'[j + 1] = mounts[j]
        BY <3>2, <2>4
      <4> QED BY <4>1
    <3> QED BY <3>1, <3>2
  <2>k. k + 1 \in 1 .. n + 1 /\ mounts'[k + 1] = new
    <3>1. k + 1 \in 1 .. n + 1 /\ ~ (k + 1 <= k)
      BY <1>n
    <3> QED BY <3>1, <2>4
  <2> HIDE DEF back
  <2>8. OneMountPerPath'
    <3> SUFFICES ASSUME NEW i \in 1 .. n + 1, NEW j \in 1 .. n + 1,
                        mounts'[i].vfsPath = mounts'[j].vfsPath
                 PROVE  i = j
      BY <2>4 DEF OneMountPerPath
    <3>1. CASE i = k + 1 \/ j = k + 1
      BY <3>1, <2>b, <2>k, <2>1, <2>2
    <3>2. CASE i # k + 1 /\ j # k + 1
      <4>1. /\ back(i) \in 1 .. n /\ mounts'[i] = mounts[back(i)]
            /\ back(j) \in 1 .. n /\ mounts'[j] = mounts[back(j)]
        BY <3>2, <2>b
      <4>2. back(i) = back(j)
        BY <4>1 DEF TableOK, OneMountPerPath
      <4> QED BY <4>2, <3>2, <2>c
    <3> QED BY <3>1, <3>2
  <2>9. OnePlacePerDriver'
    <3> SUFFICES ASSUME NEW i \in 1 .. n + 1, NEW j \in 1 .. n + 1,
                        mounts'[i].vfs = mounts'[j].vfs
                 PROVE  i = j
      BY <2>4 DEF OnePlacePerDriver
    <3>1. CASE i = k + 1 \/ j = k + 1
      BY <3>1, <2>b, <2>k, <1>d, <2>2
    <3>2. CASE i # k + 1 /\ j # k + 1
      <4>1. /\ back(i) \in 1 .. n /\ mounts'[i] = mounts[back(i)]
            /\ back(j) \in 1 .. n /\ mounts'[j] = mounts[back(j)]
        BY <3>2, <2>b
      <4>2. back(i) = back(j)
        BY <4>1 DEF TableOK, OnePlacePerDriver
      <4> QED BY <4>2, <3>2, <2>c
    <3> QED BY <3>1, <3>2
  <2>10. Mounted(d)' /\ \A e : Mounted(e)' => e = d \/ Mounted(e)
    <3>1. Mounted(d)'
      BY <2>k, <2>5, <2>2 DEF Mounted
    <3>2. ASSUME NEW e, Mounted(e)' PROVE e = d \/ Mounted(e)
      <4>1. PICK i \in 1 .. n + 1 : mounts'[i].vfs = e
        BY <3>2, <2>5 DEF Mounted
      <4>2. CASE i = k + 1
        BY <4>1, <4>2, <2>k, <2>2
      <4>3. CASE i # k + 1
        BY <4>1, <4>3, <2>b DEF Mounted
      <4> QED BY <4>2, <4>3
    <3> QED BY <3>1, <3>2
  <2>11. \A e : Mounted(e) => Mounted(e)'
    BY <2>e, <2>5 DEF Mounted
  <2> QED BY <2>1, <2>4, <2>7, <2>8, <2>9, <2>10, <2>11, <1>0
<1> QED BY <1>1, <1>2 DEF Mount

(* A MOUNT that comes to its end: the driver is open and has a place. *)
LEMMA MountedOpen ==
    ASSUME MountsInv, ~ halted, NEW p \in MountPath, NEW d \in Driver,
           resource[d] \in {"none", "opening"}, Mount(p, d),
           resource' = [resource EXCEPT ![d] = "open"],
           UNCHANGED halted, wanted' \in [Driver -> MountPath]
    PROVE  MountsInv'
<1>1. ~ Mounted(d)
  BY DEF MountsInv, OpenMeansMounted
<1>2. /\ mounts' \in Seq(MountPoint) /\ replaced' \subseteq Driver
      /\ Sorted' /\ OneMountPerPath' /\ OnePlacePerDriver'
      /\ replaced \subseteq replaced'
      /\ Mounted(d)'
      /\ \A e : Mounted(e)' => e = d \/ Mounted(e)
      /\ \A e : Mounted(e) => Mounted(e)' \/ e \in replaced'
  BY <1>1, MountKeepsTable DEF MountsInv
<1>3. resource \in [Driver -> {"none", "opening", "open", "closed"}] /\ halted \in BOOLEAN
  BY DEF MountsInv, TableOK, MountsTypeOK
<1>4. TableOK'
  BY <1>2, <1>3 DEF TableOK, MountsTypeOK
<1>5. OpenMeansMounted'
  BY <1>2, <1>3 DEF MountsInv, OpenMeansMounted
<1> QED BY <1>4, <1>5 DEF MountsInv

LEMMA MountsInvInit == MountsInit => MountsInv
<1> SUFFICES ASSUME MountsInit PROVE MountsInv
  OBVIOUS
<1>1. [vfsPath |-> Root, vfs |-> RootFs] \in MountPoint
  BY MountsAssumption DEF MountPoint
<1>2. mounts = <<[vfsPath |-> Root, vfs |-> RootFs]>> /\ mounts \in Seq(MountPoint)
      /\ Len(mounts) = 1 /\ DOMAIN mounts = 1 .. 1 /\ mounts[1].vfs = RootFs
  BY <1>1 DEF MountsInit
<1>3. TableOK
  <2>1. MountsTypeOK
    BY <1>2, MountsAssumption DEF MountsTypeOK, MountsInit
  <2>2. \A i, j \in 1 .. Len(mounts) : i = j
    BY <1>2
  <2> QED BY <2>1, <2>2, <1>2 DEF TableOK, Sorted, OneMountPerPath, OnePlacePerDriver
<1>4. OpenMeansMounted
  BY <1>2 DEF OpenMeansMounted, Mounted, MountsInit
<1> QED BY <1>3, <1>4 DEF MountsInv

LEMMA UmountInv ==
    ASSUME MountsInv, NEW p \in MountPath, Umount(p) PROVE MountsInv'
<1> USE PathsAreSequences DEF MountsInv
<1> DEFINE n == Len(mounts)
<1>1. PICK i, k \in 1 .. n :
        /\ Resolves(i, p) /\ mounts[k].vfsPath = p
        /\ mounts' = RemoveAt(mounts, k)
        /\ resource' = [resource EXCEPT ![mounts[i].vfs] = "closed"]
  BY DEF Umount
<1>2. i = k
  BY <1>1, ResolvesExact
<1>3. /\ mounts \in Seq(MountPoint)
      /\ resource \in [Driver -> {"none", "opening", "open", "closed"}]
      /\ wanted \in [Driver -> MountPath] /\ replaced \subseteq Driver /\ halted \in BOOLEAN
      /\ ~ halted /\ UNCHANGED <<wanted, replaced, halted>>
  BY SMTT(30) DEF TableOK, MountsTypeOK, Umount
<1> DEFINE c == mounts[k].vfs
<1>5. /\ mounts' \in Seq(MountPoint) /\ Len(mounts') = n - 1
      /\ \A j \in 1 .. n - 1 : mounts'[j] = IF j < k THEN mounts[j] ELSE mounts[j + 1]
  BY <1>1, <1>3, Removed
<1>6. DOMAIN mounts' = 1 .. n - 1
  BY <1>5
<1> DEFINE old(j) == IF j < k THEN j ELSE j + 1
<1>7. /\ \A j \in 1 .. n - 1 : old(j) \in 1 .. n /\ old(j) # k /\ mounts'[j] = mounts[old(j)]
      /\ \A a, b \in 1 .. n - 1 : (a < b => old(a) < old(b)) /\ (old(a) = old(b) => a = b)
  <2>1. n \in Nat /\ k \in Nat
    OBVIOUS
  <2>2. \A a, b \in 1 .. n - 1 : (a < b => old(a) < old(b)) /\ (old(a) = old(b) => a = b)
    BY <2>1
  <2>3. \A j \in 1 .. n - 1 : old(j) \in 1 .. n /\ old(j) # k
    BY <2>1
  <2>4. \A j \in 1 .. n - 1 : mounts'[j] = mounts[old(j)]
    BY <1>5
  <2> QED BY <2>2, <2>3, <2>4
<1>8. \A j \in 1 .. n : j # k => \E a \in 1 .. n - 1 : mounts'[a] = mounts[j]
  <2> SUFFICES ASSUME NEW j \in 1 .. n, j # k
               PROVE  \E a \in 1 .. n - 1 : mounts'[a] = mounts[j]
    OBVIOUS
  <2>1. CASE j < k
    <3>1. j \in 1 .. n - 1 /\ mounts'[j] = mounts[j]
      BY <2>1, <1>5
    <3> QED BY <3>1
  <2>2. CASE j > k
    <3>1. j - 1 \in 1 .. n - 1 /\ mounts'[j - 1] = mounts[j]
      BY <2>2, <1>5
    <3> QED BY <3>1
  <2> QED BY <2>1, <2>2
<1> HIDE DEF old
<1>9. TableOK'
  <2>1. MountsTypeOK'
    BY <1>1, <1>3, <1>5 DEF MountsTypeOK
  <2>2. Sorted'
    <3> SUFFICES ASSUME NEW a \in 1 .. n - 1, NEW b \in 1 .. n - 1, a < b
                 PROVE  Len(mounts'[a].vfsPath) >= Len(mounts'[b].vfsPath)
      BY <1>5 DEF Sorted, Depth
    <3>1. /\ old(a) \in 1 .. n /\ old(b) \in 1 .. n /\ old(a) < old(b)
          /\ mounts'[a] = mounts[old(a)] /\ mounts'[b] = mounts[old(b)]
      BY <1>7
    <3> QED BY <3>1 DEF TableOK, Sorted, Depth
  <2>3. OneMountPerPath'
    <3> SUFFICES ASSUME NEW a \in 1 .. n - 1, NEW b \in 1 .. n - 1,
                        mounts'[a].vfsPath = mounts'[b].vfsPath
                 PROVE  a = b
      BY <1>5 DEF OneMountPerPath
    <3>1. old(a) = old(b)
      BY <1>7, ZenonT(60) DEF TableOK, OneMountPerPath
    <3> QED BY <3>1, <1>7
  <2>4. OnePlacePerDriver'
    <3> SUFFICES ASSUME NEW a \in 1 .. n - 1, NEW b \in 1 .. n - 1,
                        mounts'[a].vfs = mounts'[b].vfs
                 PROVE  a = b
      BY <1>5 DEF OnePlacePerDriver
    <3>1. old(a) = old(b)
      BY <1>7, ZenonT(60) DEF TableOK, OnePlacePerDriver
    <3> QED BY <3>1, <1>7
  <2> QED BY <2>1, <2>2, <2>3, <2>4 DEF TableOK
<1>10. \A e : Mounted(e)' <=> Mounted(e) /\ e # c
  <2>1. ASSUME NEW e, Mounted(e)' PROVE Mounted(e) /\ e # c
    <3>1. PICK j \in 1 .. n - 1 : mounts'[j].vfs = e
      BY <2>1, <1>6 DEF Mounted
    <3>2. old(j) \in 1 .. n /\ old(j) # k /\ mounts[old(j)].vfs = e
      BY <3>1, <1>7
    <3> QED BY <3>2 DEF Mounted, TableOK, OnePlacePerDriver
  <2>2. ASSUME NEW e, Mounted(e), e # c PROVE Mounted(e)'
    <3>1. PICK j \in 1 .. n : mounts[j].vfs = e
      BY <2>2 DEF Mounted
    <3>2. j # k
      BY <3>1, <2>2
    <3> QED BY <3>1, <3>2, <1>8, <1>6 DEF Mounted
  <2> QED BY <2>1, <2>2
<1>11. c \in Driver /\ resource' = [resource EXCEPT ![c] = "closed"]
  BY <1>1, <1>2
<1>12. OpenMeansMounted'
  BY <1>3, <1>10, <1>11 DEF OpenMeansMounted
<1> QED BY <1>9, <1>12

LEMMA MountsInvNext == MountsInv /\ [MountsNext]_mountVars => MountsInv'
<1> SUFFICES ASSUME MountsInv, [MountsNext]_mountVars PROVE MountsInv'
  OBVIOUS
<1>0. MountsTypeOK /\ TableOK /\ OpenMeansMounted
  BY DEF MountsInv, TableOK
<1>1. ASSUME NEW d \in Driver, NEW p \in MountPath, MountLocal(d, p) PROVE MountsInv'
  BY <1>0, <1>1, MountedOpen DEF MountLocal, MountsTypeOK
<1>2. ASSUME NEW d \in Driver, NEW p \in MountPath, BeginMount(d, p) PROVE MountsInv'
  <2>1. TableOK'
    BY <1>0, <1>2 DEF BeginMount, TableOK, MountsTypeOK, Sorted, OneMountPerPath,
       OnePlacePerDriver, Depth
  <2>2. OpenMeansMounted'
    BY <1>0, <1>2 DEF BeginMount, OpenMeansMounted, Mounted, MountsTypeOK
  <2> QED BY <2>1, <2>2 DEF MountsInv
<1>3. ASSUME NEW d \in Driver, EndMount(d) PROVE MountsInv'
  BY <1>0, <1>3, MountedOpen DEF EndMount, MountsTypeOK
<1>4. ASSUME NEW d \in Driver, MountFails(d) PROVE MountsInv'
  <2>1. TableOK'
    BY <1>0, <1>4 DEF MountFails, TableOK, MountsTypeOK, Sorted, OneMountPerPath,
       OnePlacePerDriver, Depth
  <2>2. OpenMeansMounted'
    BY <1>0, <1>4 DEF MountFails, OpenMeansMounted, Mounted, MountsTypeOK
  <2> QED BY <2>1, <2>2 DEF MountsInv
<1>5. ASSUME NEW p \in MountPath, Umount(p) PROVE MountsInv'
  BY <1>5, UmountInv
<1>6. CASE CloseAll
  <2>1. TableOK'
    BY <1>0, <1>6 DEF CloseAll, TableOK, MountsTypeOK, Sorted, OneMountPerPath,
       OnePlacePerDriver, Depth
  <2>2. OpenMeansMounted'
    BY <1>0, <1>6 DEF CloseAll, OpenMeansMounted, Mounted, MountsTypeOK
  <2> QED BY <2>1, <2>2 DEF MountsInv
<1>7. CASE UNCHANGED mountVars
  BY <1>0, <1>7 DEF mountVars, MountsInv, TableOK, MountsTypeOK, Sorted, OneMountPerPath,
     OnePlacePerDriver, Depth, OpenMeansMounted, Mounted
<1> QED BY <1>1, <1>2, <1>3, <1>4, <1>5, <1>6, <1>7 DEF MountsNext

LEMMA MountsInvAlways == MountsSpec => []MountsInv
<1>1. MountsInit => MountsInv
  BY MountsInvInit
<1>2. MountsInv /\ [MountsNext]_mountVars => MountsInv'
  BY MountsInvNext
<1> QED BY <1>1, <1>2, PTL DEF MountsSpec

(* No path leads to a driver that was closed, and none that is open has been  *)
(* forgotten by UMOUNT or by the end of the system.                           *)
THEOREM DriversFollowTheTable == MountsSpec => []OpenMeansMounted
<1>1. MountsInv => OpenMeansMounted
  BY DEF MountsInv
<1> QED BY <1>1, MountsInvAlways, PTL

(* A path belongs to the deepest mount it is in, because mount() keeps the    *)
(* longest paths first.                                                       *)
THEOREM DeepestMountWins == MountsSpec => []DeepestWins
<1>1. MountsInv => DeepestWins
  <2> SUFFICES ASSUME MountsInv, NEW p \in MountPath, NEW i \in DOMAIN mounts,
                      NEW j \in DOMAIN mounts, Resolves(i, p), Covers(j, p)
               PROVE  Depth(j) <= Depth(i)
    BY DEF DeepestWins
  <2>0. TableOK
    BY DEF MountsInv
  <2>1. i \in 1 .. Len(mounts) /\ j \in 1 .. Len(mounts) /\ i <= j
    BY <2>0, PathsAreSequences DEF Resolves
  <2>2. CASE i = j
    BY <2>0, <2>1, <2>2, PathsAreSequences
  <2>3. CASE i < j
    BY <2>0, <2>1, <2>3, PathsAreSequences DEF TableOK, Sorted
  <2> QED BY <2>1, <2>2, <2>3
<1> QED BY <1>1, MountsInvAlways, PTL
=============================================================================
