-------------------------------- MODULE Windows --------------------------------
(* Windows, from the application to the browser: the library batches an          *)
(* application's updates (src/src/mirror/lib/emerald.ts), the kernel knows who   *)
(* owns which window and forwards (GUI_REQ in src/src/kernel/Syscalls.ts and     *)
(* GUIRegistry.ts), the display server keeps for every window the messages that  *)
(* made it, sends them on, and replays them one await at a time to a browser     *)
(* that connects (src/src/mirror/opt/dome/dome.ts).                              *)
(*                                                                               *)
(* The display server runs, registered, all the time.  Nodes are mounted one by  *)
(* one.  Messages reach a browser in the order they are sent, and what is kept   *)
(* of a browser is what it shows when it has handled them.                       *)
EXTENDS Naturals, Sequences, SequencesExt, FiniteSets

CONSTANTS Window,     \* window ids, never used twice
          Node,       \* the nodes of a window
          Client,     \* connections of browsers
          MaxOps      \* bound: mounts, unmounts, updates an application makes

Value == 0..MaxOps
NoWindow == "noWindow"
Unset == MaxOps + 1

ASSUME WindowsAssumption ==
    /\ NoWindow \notin Window
    /\ MaxOps \in Nat /\ Node # {}

VARIABLES
    app,       \* the application of a window: "new", "up", "closing", "closed", "gone"
    ops,       \* how many changes it has made
    mounted,   \* nodes it has mounted
    wanted,    \* the last value it gave a node
    dirty,     \* dirtyProps
    batched,   \* batchPromise is set
    timers,    \* batch timers that are set
    flushes,   \* calls of flushNow() that await a reply, in the order of the replies
    asked,     \* windows whose application a browser has asked to close them
    registry,  \* windows the kernel knows
    signalled, \* windows whose owner was sent SIGSEGV
    toDome,    \* events on their way to the display server
    windows,   \* its windows
    states,    \* windowStates: the messages that made a window
    conn,      \* "no", "up", "gone"
    replay,    \* the replay to a client: the windows it is through with, the one it
               \* is at, how many of its messages are sent, and the array of them
               \* if it is no longer the one in windowStates
    shown,     \* the windows a browser shows, and in them every copy of a node
    raced      \* a node came or went while its window was replayed

libVars == <<app, ops, mounted, wanted, dirty, batched, timers, flushes>>
kernelVars == <<registry, signalled, toDome>>
domeVars == <<windows, states, replay, raced>>
winVars == <<libVars, kernelVars, domeVars, conn, shown, asked>>

Msg == [type : {"mount", "update", "unmount"}, node : Node, value : Value]
GuiEvent == [type : {"create", "destroy", "mount", "update", "unmount"}, wid : Window,
          node : Node \union {"none"}, value : Value]
           \union [type : {"connect"}, client : Client]
Flush == [rest : Seq(Node \X Value), why : {"timer", "flush", "close"}]
Absent == <<>> \* a function of no nodes
Empty == [n \in Node |-> <<>>]
Off == [seen |-> {}, at |-> NoWindow, sent |-> 0, live |-> TRUE, old |-> <<>>, on |-> FALSE]

WinTypeOK ==
    /\ app \in [Window -> {"new", "up", "closing", "closed", "gone"}]
    /\ ops \in [Window -> 0..MaxOps]
    /\ mounted \in [Window -> SUBSET Node]
    /\ wanted \in [Window -> [Node -> Value]]
    /\ dirty \in [Window -> [Node -> Value \union {Unset}]]
    /\ batched \in [Window -> BOOLEAN]
    /\ timers \in [Window -> Nat]
    /\ flushes \in [Window -> Seq(Flush)]
    /\ asked \subseteq Window /\ registry \subseteq Window /\ signalled \subseteq Window
    /\ toDome \in Seq(GuiEvent)
    /\ windows \subseteq Window
    /\ states \in [Window -> Seq(Msg)]
    /\ conn \in [Client -> {"no", "up", "gone"}]
    /\ \A c \in Client :
         /\ replay[c].seen \subseteq Window /\ replay[c].at \in Window \union {NoWindow}
         /\ replay[c].sent \in Nat /\ replay[c].old \in Seq(Msg)
         /\ \A w \in Window :
              shown[c][w] \in [Node -> Seq(Value)] \union {Absent}
    /\ raced \subseteq Client \X Window

WinInit ==
    /\ app = [w \in Window |-> "new"]
    /\ ops = [w \in Window |-> 0]
    /\ mounted = [w \in Window |-> {}]
    /\ wanted = [w \in Window |-> [n \in Node |-> 0]]
    /\ dirty = [w \in Window |-> [n \in Node |-> Unset]]
    /\ batched = [w \in Window |-> FALSE]
    /\ timers = [w \in Window |-> 0]
    /\ flushes = [w \in Window |-> <<>>]
    /\ asked = {} /\ registry = {} /\ signalled = {} /\ toDome = <<>> /\ windows = {}
    /\ states = [w \in Window |-> <<>>]
    /\ conn = [c \in Client |-> "no"]
    /\ replay = [c \in Client |-> Off]
    /\ shown = [c \in Client |-> [w \in Window |-> Absent]]
    /\ raced = {}

-----------------------------------------------------------------------------
(* The kernel *)

(* GUI_REQ but for a creation: from the owner it is forwarded, and a window     *)
(* that is destroyed is forgotten.  Anyone else is signalled, the former owner  *)
(* of a window that is gone included.                                           *)
GuiReq(type, w, n, v) ==
    IF w \in registry
    THEN /\ toDome' = Append(toDome, [type |-> type, wid |-> w, node |-> n, value |-> v])
         /\ registry' = IF type = "destroy" THEN registry \ {w} ELSE registry
         /\ UNCHANGED signalled
    ELSE /\ signalled' = signalled \union {w}
         /\ UNCHANGED <<toDome, registry>>

(* Mutant: the display server is not told. *)
ForgetWindows(w) == UNCHANGED toDome

(* The exit hook tells the display server of the windows of the process.        *)
DestroyAll(w) ==
    toDome' = IF w \in registry
              THEN Append(toDome, [type |-> "destroy", wid |-> w, node |-> "none", value |-> 0])
              ELSE toDome

-----------------------------------------------------------------------------
(* The application and its library *)

CreateWindow(w) ==
    /\ app[w] = "new"
    /\ app' = [app EXCEPT ![w] = "up"]
    /\ registry' = registry \union {w}
    /\ toDome' = Append(toDome, [type |-> "create", wid |-> w, node |-> "none", value |-> 0])
    /\ UNCHANGED <<ops, mounted, wanted, dirty, batched, timers, flushes, signalled,
                   domeVars, conn, shown, asked>>

Change(w) ==
    /\ app[w] = "up" /\ ops[w] < MaxOps
    /\ ops' = [ops EXCEPT ![w] = @ + 1]

(* mount(), unmount(): sent at once. *)
Mount(w, n) ==
    /\ Change(w) /\ n \notin mounted[w]
    /\ mounted' = [mounted EXCEPT ![w] = @ \union {n}]
    /\ wanted' = [wanted EXCEPT ![w][n] = 0]
    /\ GuiReq("mount", w, n, 0)
    /\ UNCHANGED <<app, dirty, batched, timers, flushes, domeVars, conn, shown, asked>>

Unmount(w, n) ==
    /\ Change(w) /\ n \in mounted[w]
    /\ mounted' = [mounted EXCEPT ![w] = @ \ {n}]
    /\ GuiReq("unmount", w, n, 0)
    /\ UNCHANGED <<app, wanted, dirty, batched, timers, flushes, domeVars, conn, shown, asked>>

(* updateProps(): kept in dirtyProps, and a flush scheduled unless one is. *)
UpdateProps(w, n) ==
    /\ Change(w) /\ n \in mounted[w]
    /\ wanted' = [wanted EXCEPT ![w][n] = ops'[w]]
    /\ dirty' = [dirty EXCEPT ![w][n] = ops'[w]]
    /\ batched' = [batched EXCEPT ![w] = TRUE]
    /\ timers' = IF batched[w] THEN timers ELSE [timers EXCEPT ![w] = @ + 1]
    /\ UNCHANGED <<app, mounted, flushes, registry, signalled, toDome, domeVars, conn, shown, asked>>

Dirty(w) == {n \in Node : dirty[w][n] # Unset}

(* The first message of flushNow(), for what is dirty now. *)
FlushNow(w, why) ==
    LET all == SetToSeq({<<n, dirty[w][n]>> : n \in Dirty(w)})
    IN /\ GuiReq("update", w, all[1][1], all[1][2])
       /\ flushes' = [flushes EXCEPT ![w] = Append(@, [rest |-> Tail(all), why |-> why])]

TimerFires(w) ==
    /\ timers[w] > 0 /\ app[w] # "gone"
    /\ timers' = [timers EXCEPT ![w] = @ - 1]
    /\ IF Dirty(w) = {} THEN UNCHANGED <<flushes, toDome, registry, signalled>>
       ELSE FlushNow(w, "timer")
    /\ UNCHANGED <<app, ops, mounted, wanted, dirty, batched, domeVars, conn, shown, asked>>

FlushCalled(w) ==
    /\ app[w] = "up" /\ Dirty(w) # {}
    /\ flushes[w] = <<>> \* bound: flush() is not called while one runs
    /\ FlushNow(w, "flush")
    /\ UNCHANGED <<app, ops, mounted, wanted, dirty, batched, timers, domeVars, conn, shown, asked>>

(* close(): what is dirty is flushed before the window is destroyed. *)
CloseCalled(w) ==
    /\ app[w] = "up"
    /\ IF Dirty(w) = {}
       THEN /\ app' = [app EXCEPT ![w] = "closed"]
            /\ GuiReq("destroy", w, "none", 0)
            /\ UNCHANGED flushes
       ELSE /\ app' = [app EXCEPT ![w] = "closing"]
            /\ FlushNow(w, "close")
    /\ UNCHANGED <<ops, mounted, wanted, dirty, batched, timers, domeVars, conn, shown, asked>>

(* The reply to the message a flush awaits: it sends the next of those it began *)
(* with, or ends with dirtyProps cleared, whatever is there by now.             *)
FlushReply(w) ==
    /\ flushes[w] # <<>>
    /\ LET f == Head(flushes[w])
       IN IF f.rest # <<>>
          THEN /\ GuiReq("update", w, f.rest[1][1], f.rest[1][2])
               /\ flushes' = [flushes EXCEPT ![w] =
                                Append(Tail(@), [f EXCEPT !.rest = Tail(@)])]
               /\ UNCHANGED <<app, dirty, batched>>
          ELSE /\ flushes' = [flushes EXCEPT ![w] = Tail(@)]
               /\ dirty' = [dirty EXCEPT ![w] = [n \in Node |-> Unset]]
               /\ batched' = [batched EXCEPT ![w] = FALSE]
               /\ IF f.why = "close"
                  THEN GuiReq("destroy", w, "none", 0) /\ app' = [app EXCEPT ![w] = "closed"]
                  ELSE UNCHANGED <<app, toDome, registry, signalled>>
    /\ UNCHANGED <<ops, mounted, wanted, timers, domeVars, conn, shown, asked>>

OwnerEnds(w) ==
    /\ app[w] \in {"up", "closing", "closed"}
    /\ app' = [app EXCEPT ![w] = "gone"]
    /\ flushes' = [flushes EXCEPT ![w] = <<>>]
    /\ timers' = [timers EXCEPT ![w] = 0]
    /\ registry' = registry \ {w}
    /\ DestroyAll(w)
    /\ UNCHANGED <<ops, mounted, wanted, dirty, batched, signalled, domeVars, conn, shown, asked>>

-----------------------------------------------------------------------------
(* The browser *)

(* MOUNT_NODE, UPDATE_PROPS, UNMOUNT_NODE on the nodes of a window: a node is   *)
(* added even if there is one of its id, and the first of them is found.        *)
Apply(nodes, m) ==
    CASE m.type = "mount" -> [nodes EXCEPT ![m.node] = Append(@, m.value)]
      [] m.type = "update" -> [nodes EXCEPT ![m.node] =
                                 IF @ = <<>> THEN @ ELSE [@ EXCEPT ![1] = m.value]]
      [] OTHER -> [nodes EXCEPT ![m.node] = IF @ = <<>> THEN @ ELSE Tail(@)]

(* A message for a node of a window it does not show is dropped. *)
OnNode(window, m) == IF window = Absent THEN Absent ELSE Apply(window, m)

(* What a browser shows of a window after a message for it. *)
Handled(window, m) ==
    CASE m.type = "create" -> Empty
      [] m.type = "destroy" -> Absent
      [] OTHER -> OnNode(window, m)

Broadcast(w, m) ==
    shown' = [c \in Client |->
                IF conn[c] = "up" THEN [shown[c] EXCEPT ![w] = Handled(@, m)] ELSE shown[c]]

SendTo(c, w, window) == shown' = [shown EXCEPT ![c][w] = IF conn[c] = "up" THEN window ELSE @]

(* The kernel knows a client before the display server does. *)
Connect(c) ==
    /\ conn[c] = "no"
    /\ conn' = [conn EXCEPT ![c] = "up"]
    /\ toDome' = Append(toDome, [type |-> "connect", client |-> c])
    /\ UNCHANGED <<libVars, asked, registry, signalled, domeVars, shown>>

Disconnect(c) ==
    /\ conn[c] = "up"
    /\ conn' = [conn EXCEPT ![c] = "gone"]
    /\ shown' = [shown EXCEPT ![c] = [w \in Window |-> Absent]]
    /\ UNCHANGED <<libVars, asked, kernelVars, domeVars>>

-----------------------------------------------------------------------------
(* The display server *)

(* A replay that is under way goes through the array it has. *)
Detach(w) ==
    [c \in Client |-> IF replay[c].at = w /\ replay[c].sent > 0 /\ replay[c].live
                      THEN [replay[c] EXCEPT !.live = FALSE, !.old = states[w]]
                      ELSE replay[c]]

(* pruneWindowState(): what was kept of a node is not replayed any more. *)
NotAbout(n, msgs) ==
    LET kept[i \in 0..Len(msgs)] ==
          IF i = 0 THEN <<>>
          ELSE IF msgs[i].node # n THEN Append(kept[i - 1], msgs[i])
          ELSE kept[i - 1]
    IN kept[Len(msgs)]

PruneWindowState(w, n) == [states EXCEPT ![w] = NotAbout(n, @)]

At(w) == {c \in Client : replay[c].at = w}

(* gui_request: an event is applied, kept if a new browser has to see it, and   *)
(* sent to every browser; and a browser that connects is to be told of all.     *)
HandleEvent ==
    /\ toDome # <<>>
    /\ toDome' = Tail(toDome)
    /\ LET e == Head(toDome)
       IN CASE e.type = "connect" ->
                 /\ replay' = [replay EXCEPT ![e.client] = [Off EXCEPT !.on = TRUE]]
                 /\ UNCHANGED <<windows, states, shown, raced>>
            [] e.type = "create" ->
                 /\ windows' = windows \union {e.wid}
                 /\ Broadcast(e.wid, e)
                 /\ UNCHANGED <<states, replay, raced>>
            [] e.type = "destroy" ->
                 /\ windows' = windows \ {e.wid}
                 /\ states' = [states EXCEPT ![e.wid] = <<>>]
                 /\ replay' = Detach(e.wid)
                 /\ Broadcast(e.wid, e)
                 /\ UNCHANGED raced
            [] e.type \in {"mount", "update"} ->
                 /\ states' = [states EXCEPT ![e.wid] =
                                 Append(@, [type |-> e.type, node |-> e.node, value |-> e.value])]
                 /\ Broadcast(e.wid, e)
                 /\ raced' = IF e.type = "mount" THEN raced \union (At(e.wid) \X {e.wid})
                             ELSE raced
                 /\ UNCHANGED <<windows, replay>>
            [] e.type = "unmount" ->
                 /\ states' = PruneWindowState(e.wid, e.node)
                 /\ replay' = Detach(e.wid)
                 /\ Broadcast(e.wid, e)
                 /\ raced' = raced \union (At(e.wid) \X {e.wid})
                 /\ UNCHANGED windows
    /\ UNCHANGED <<libVars, asked, registry, signalled, conn>>

(* The next window of a replay: the iteration sees windows that came meanwhile. *)
ReplayWindow(c, w) ==
    /\ replay[c].on /\ replay[c].at = NoWindow
    /\ w \in windows \ replay[c].seen
    /\ replay' = [replay EXCEPT ![c] = [Off EXCEPT !.on = TRUE, !.at = w,
                                                   !.seen = replay[c].seen \union {w}]]
    /\ SendTo(c, w, Empty)
    /\ UNCHANGED <<libVars, asked, kernelVars, windows, states, conn, raced>>

(* Mutant: the messages are those there were when the first of them is sent. *)
Snapshot(r) == IF r.sent = 0 THEN states[r.at] ELSE r.old

(* The array of the messages of a window: it grows while it is gone through.    *)
Array(r) == IF r.live THEN states[r.at] ELSE r.old

(* The next message of the window, or no more of them. *)
ReplayState(c) ==
    LET r == replay[c]
    IN /\ r.at # NoWindow
       /\ IF r.sent < Len(Array(r))
          THEN /\ SendTo(c, r.at, OnNode(shown[c][r.at], Array(r)[r.sent + 1]))
               /\ replay' = [replay EXCEPT ![c].sent = @ + 1, ![c].old = Array(r)]
          ELSE /\ replay' = [replay EXCEPT ![c] = [Off EXCEPT !.on = TRUE, !.seen = r.seen]]
               /\ UNCHANGED shown
       /\ UNCHANGED <<libVars, asked, kernelVars, windows, states, conn, raced>>

ReplayEnds(c) ==
    /\ replay[c].on /\ replay[c].at = NoWindow /\ windows \subseteq replay[c].seen
    /\ replay' = [replay EXCEPT ![c] = Off]
    /\ UNCHANGED <<libVars, asked, kernelVars, windows, states, conn, shown, raced>>

(* A click on a window's close button: its owner is told, and every browser is  *)
(* to take it away before the owner has closed it.  An owner that has ended     *)
(* cannot be told, and nothing is sent.                                         *)
BrowserCloses(w) ==
    /\ w \in windows /\ app[w] # "gone"
    /\ \E c \in Client : shown[c][w] # Absent
    /\ asked' = asked \union {w}
    /\ Broadcast(w, [type |-> "destroy"])
    /\ UNCHANGED <<libVars, kernelVars, domeVars, conn>>

WinNext ==
    \/ \E w \in Window :
         \/ CreateWindow(w) \/ TimerFires(w) \/ FlushCalled(w) \/ FlushReply(w)
         \/ CloseCalled(w) \/ OwnerEnds(w) \/ BrowserCloses(w)
         \/ \E n \in Node : Mount(w, n) \/ Unmount(w, n) \/ UpdateProps(w, n)
    \/ HandleEvent
    \/ \E c \in Client :
         \/ Connect(c) \/ Disconnect(c) \/ ReplayState(c) \/ ReplayEnds(c)
         \/ \E w \in Window : ReplayWindow(c, w)

WinSpec == WinInit /\ [][WinNext]_winVars

-----------------------------------------------------------------------------
(* Properties *)

(* Nothing is on its way to the display server or being replayed, and what a    *)
(* browser has asked for is done.                                               *)
Quiet ==
    /\ toDome = <<>>
    /\ \A c \in Client : ~replay[c].on
    /\ \A w \in asked : app[w] \notin {"up", "closing"}

(* When it is quiet, the kernel, the display server and every browser know the  *)
(* same windows, and none of a process that has ended: however windows came     *)
(* and went while the browser connected (dome.ts:338, Syscalls.ts:100).         *)
WindowsAgree ==
    Quiet => /\ windows = registry
             /\ \A w \in windows : app[w] # "gone"
             /\ \A c \in Client : conn[c] = "up" =>
                    {w \in Window : shown[c][w] # Absent} = windows

(* ... and a browser shows in a window what all its messages make, in order:    *)
(* also one that connected while the application made updates (dome.ts:360).    *)
(* The exception is a window replayed while a node came or went in it, which    *)
(* may show that node twice, or still.                                          *)
ReplayFaithful ==
    Quiet => \A c \in Client, w \in windows :
        conn[c] = "up" /\ <<c, w>> \notin raced =>
            shown[c][w] = FoldLeft(Apply, Empty, states[w])

(* When no update is pending and no flush runs, the display server has the last *)
(* value the application gave to each node (flush(), emerald.ts:3954: "sends    *)
(* all pending UPDATE_PROPS").                                                  *)
FlushSendsAll ==
    \A w \in windows : app[w] = "up" /\ Dirty(w) = {} /\ flushes[w] = <<>> /\ toDome = <<>> =>
        \A n \in mounted[w] : FoldLeft(Apply, Empty, states[w])[n] = <<wanted[w][n]>>
=============================================================================
