----------------------------- MODULE WindowsProofs -----------------------------
EXTENDS Windows, SequenceTheorems, TLAPS

(* The proof that the kernel's registry and the display server's window table *)
(* agree once nothing is on its way between them: every message of the queue  *)
(* is matched with what it will do to the table it has not reached yet.       *)

(* What is on its way to the display server. *)
Events(w, t) == {i \in DOMAIN toDome : toDome[i].type = t /\ toDome[i].wid = w}
Coming(w) == Events(w, "create") # {}
Going(w) == Events(w, "destroy") # {}
Awaited(c) == \E i \in DOMAIN toDome : toDome[i].type = "connect" /\ toDome[i].client = c

EventTypes == {"create", "destroy", "mount", "update", "unmount"}
IsEvent(e) ==
    \/ e.type = "connect" /\ e.client \in Client
    \/ e.type \in EventTypes /\ e.wid \in Window

(* What a browser has of a window it shows is a function of its nodes. *)
IsShown(window) == window = Absent \/ DOMAIN window = Node

(* What the proof needs of the types. *)
WinShape ==
    /\ app \in [Window -> {"new", "up", "closing", "closed", "gone"}]
    /\ registry \subseteq Window /\ windows \subseteq Window
    /\ conn \in [Client -> {"no", "up", "gone"}]
    /\ \E S : toDome \in Seq(S)
    /\ \A i \in DOMAIN toDome : IsEvent(toDome[i])
    /\ DOMAIN replay = Client /\ \A c \in Client : DOMAIN replay[c] = DOMAIN Off
    /\ DOMAIN shown = Client /\ \A c \in Client : DOMAIN shown[c] = Window
    /\ \A c \in Client, w \in Window : IsShown(shown[c][w])

(* The kernel knows a window if the display server does, or will when it has    *)
(* handled what is on its way, and if its application has not closed it.        *)
KernelKnows(w) ==
    /\ w \in registry <=> (w \in windows \/ Coming(w)) /\ ~Going(w)
    /\ \A i \in Events(w, "create"), j \in Events(w, "destroy") : i < j
    /\ app[w] = "new" => w \notin windows /\ ~Coming(w) /\ ~Going(w)
    /\ w \in registry => app[w] \in {"up", "closing"}

(* A browser shows a window the display server has, or is still to be told of   *)
(* it; or somebody has asked to close the window, and it was taken away.        *)
BrowserSees(c, w) ==
    /\ shown[c][w] # Absent => conn[c] = "up" /\ w \in windows
    /\ conn[c] = "up" /\ w \in windows \ asked /\ shown[c][w] = Absent =>
         Awaited(c) \/ (replay[c].on /\ w \notin replay[c].seen)

WinInv ==
    /\ WinShape
    /\ \A w \in Window : KernelKnows(w)
    /\ \A c \in Client, w \in Window : BrowserSees(c, w)

LEMMA EmptyIsShown ==
    /\ Empty # Absent /\ IsShown(Empty) /\ IsShown(Absent)
    /\ \A x, m : IsShown(x) => IsShown(OnNode(x, m)) /\ (OnNode(x, m) = Absent <=> x = Absent)
<1>1. ASSUME NEW x PROVE DOMAIN x = Node => x # Absent
  BY WindowsAssumption DEF Absent
<1>2. ASSUME NEW x, DOMAIN x = Node, NEW m PROVE DOMAIN Apply(x, m) = Node
  BY <1>2 DEF Apply
<1>3. Empty # Absent /\ IsShown(Empty) /\ IsShown(Absent)
  BY <1>1 DEF Empty, IsShown
<1>4. ASSUME NEW x, IsShown(x), NEW m
      PROVE  IsShown(OnNode(x, m)) /\ (OnNode(x, m) = Absent <=> x = Absent)
  <2>1. CASE x = Absent
    BY <2>1 DEF OnNode, IsShown
  <2>2. CASE DOMAIN x = Node
    <3>1. OnNode(x, m) = Apply(x, m)
      BY <1>1, <2>2 DEF OnNode
    <3> QED BY <1>1, <1>2, <2>2, <3>1 DEF IsShown
  <2> QED BY <1>4, <2>1, <2>2 DEF IsShown
<1> QED BY <1>3, <1>4

(* One more event. *)
LEMMA EventQueued ==
  ASSUME WinShape, NEW e, IsEvent(e), toDome' = Append(toDome, e)
  PROVE  /\ \E S : toDome' \in Seq(S)
         /\ \A i \in DOMAIN toDome' : IsEvent(toDome'[i])
         /\ \A w, t : Events(w, t)' = Events(w, t) \union
               {i \in {Len(toDome) + 1} : e.type = t /\ e.wid = w}
         /\ \A w, t : \A i \in Events(w, t) : i < Len(toDome) + 1
         /\ \A c : Awaited(c) => Awaited(c)'
<1>1. PICK S : toDome \in Seq(S)
  BY DEF WinShape
<1>2. /\ toDome \in Seq(S \union {e}) /\ e \in S \union {e}
      /\ DOMAIN toDome = 1 .. Len(toDome) /\ Len(toDome) \in Nat
  BY <1>1
<1>3. /\ toDome' \in Seq(S \union {e})
      /\ DOMAIN toDome' = DOMAIN toDome \union {Len(toDome) + 1}
      /\ \A i \in DOMAIN toDome : toDome'[i] = toDome[i] /\ i < Len(toDome) + 1
      /\ toDome'[Len(toDome) + 1] = e
  BY <1>2
<1>4. \A i \in DOMAIN toDome' : IsEvent(toDome'[i])
  BY <1>3 DEF WinShape
<1>5. ASSUME NEW w, NEW t
      PROVE  Events(w, t)' = Events(w, t) \union {i \in {Len(toDome) + 1} : e.type = t /\ e.wid = w}
  BY <1>3 DEF Events
<1>6. \A w, t : \A i \in Events(w, t) : i < Len(toDome) + 1
  BY <1>3 DEF Events
<1>7. \A c : Awaited(c) => Awaited(c)'
  BY <1>3 DEF Awaited
<1> QED BY <1>3, <1>4, <1>5, <1>6, <1>7

(* The first event is taken. *)
LEMMA EventTaken ==
  ASSUME WinShape, toDome # <<>>, toDome' = Tail(toDome), NEW e, e = Head(toDome)
  PROVE  /\ IsEvent(e)
         /\ \E S : toDome' \in Seq(S)
         /\ \A i \in DOMAIN toDome' : IsEvent(toDome'[i])
         /\ \A w, t : 1 \in Events(w, t) <=> e.type = t /\ e.wid = w
         /\ \A w, t : \A i \in Events(w, t)' : i \in Nat \ {0} /\ i + 1 \in Events(w, t)
         /\ \A w, t : \A i \in Events(w, t) : i \in Nat \ {0} /\ (i # 1 => i - 1 \in Events(w, t)')
         /\ \A c : Awaited(c) => Awaited(c)' \/ (e.type = "connect" /\ e.client = c)
<1>1. PICK S : toDome \in Seq(S)
  BY DEF WinShape
<1>2. /\ DOMAIN toDome = 1 .. Len(toDome) /\ Len(toDome) \in Nat \ {0}
      /\ e = toDome[1]
  BY <1>1
<1>3. /\ toDome' \in Seq(S)
      /\ DOMAIN toDome' = 1 .. Len(toDome) - 1
      /\ \A i \in 1 .. Len(toDome) - 1 : toDome'[i] = toDome[i + 1]
  BY <1>1, <1>2
<1>4. IsEvent(e) /\ \A i \in DOMAIN toDome' : IsEvent(toDome'[i])
  BY <1>2, <1>3 DEF WinShape
<1>5. ASSUME NEW w, NEW t
      PROVE  /\ 1 \in Events(w, t) <=> e.type = t /\ e.wid = w
             /\ \A i \in Events(w, t)' : i \in Nat \ {0} /\ i + 1 \in Events(w, t)
             /\ \A i \in Events(w, t) : i \in Nat \ {0} /\ (i # 1 => i - 1 \in Events(w, t)')
  <2>1. 1 \in Events(w, t) <=> e.type = t /\ e.wid = w
    BY <1>2 DEF Events
  <2>2. ASSUME NEW i \in Events(w, t)' PROVE i \in Nat \ {0} /\ i + 1 \in Events(w, t)
    BY <1>2, <1>3 DEF Events
  <2>3. ASSUME NEW i \in Events(w, t) PROVE i \in Nat \ {0} /\ (i # 1 => i - 1 \in Events(w, t)')
    BY <1>2, <1>3 DEF Events
  <2> QED BY <2>1, <2>2, <2>3
<1>6. ASSUME NEW c, Awaited(c) PROVE Awaited(c)' \/ (e.type = "connect" /\ e.client = c)
  <2>1. PICK i \in DOMAIN toDome : toDome[i].type = "connect" /\ toDome[i].client = c
    BY <1>6 DEF Awaited
  <2>2. CASE i = 1
    BY <1>2, <2>1, <2>2
  <2>3. CASE i # 1
    <3>1. i - 1 \in DOMAIN toDome' /\ toDome'[i - 1] = toDome[i]
      BY <1>2, <1>3, <2>3
    <3> QED BY <2>1, <3>1 DEF Awaited
  <2> QED BY <2>2, <2>3
<1> QED BY <1>3, <1>4, <1>5, <1>6

(* Nothing on its way to the display server matters but what creates a window   *)
(* or takes it away.                                                            *)
LEMMA KernelKept ==
  ASSUME NEW w \in Window, KernelKnows(w),
         w \in registry' <=> w \in registry, w \in windows' <=> w \in windows,
         Events(w, "create")' = Events(w, "create"), Events(w, "destroy")' = Events(w, "destroy"),
         app'[w] = "new" => app[w] = "new", w \in registry => app'[w] \in {"up", "closing"}
  PROVE  KernelKnows(w)'
BY DEF KernelKnows, Coming, Going

(* The applications and the kernel do not touch what browsers show. *)
LEMMA BrowsersKept ==
  ASSUME WinInv, UNCHANGED <<shown, conn, windows, asked, replay>>,
         \A c : Awaited(c) => Awaited(c)'
  PROVE  \A c \in Client, w \in Window : BrowserSees(c, w)'
BY DEF WinInv, BrowserSees

LEMMA GuiReqKeeps ==
  ASSUME WinInv, NEW w \in Window, NEW t \in EventTypes \ {"create"}, NEW n, NEW v,
         GuiReq(t, w, n, v),
         app' \in [Window -> {"new", "up", "closing", "closed", "gone"}],
         \A x \in Window : app'[x] # app[x] =>
            x = w /\ (app'[w] = "closing" \/ (t = "destroy" /\ app'[w] = "closed")),
         t = "destroy" => app'[w] = "closed",
         UNCHANGED <<shown, conn, windows, asked, replay>>
  PROVE  WinInv'
<1> USE DEF WinInv
<1> DEFINE e == [type |-> t, wid |-> w, node |-> n, value |-> v]
<1>1. CASE w \notin registry
  <2>1. UNCHANGED <<toDome, registry>>
    BY <1>1 DEF GuiReq
  <2>2. \A x, u : Events(x, u)' = Events(x, u)
    BY <2>1 DEF Events
  <2>3. WinShape'
    BY <2>1 DEF WinShape
  <2>4. ASSUME NEW x \in Window PROVE KernelKnows(x)'
    <3>1. KernelKnows(x) /\ (x \in registry => x # w)
      BY <1>1
    <3>2. /\ app'[x] = "new" => app[x] = "new"
          /\ x \in registry => app'[x] \in {"up", "closing"}
      BY <3>1 DEF KernelKnows
    <3> QED BY <2>1, <2>2, <3>1, <3>2, KernelKept
  <2>5. \A c : Awaited(c) => Awaited(c)'
    BY <2>1 DEF Awaited
  <2> QED BY <2>3, <2>4, <2>5, BrowsersKept
<1>2. CASE w \in registry
  <2>1. /\ toDome' = Append(toDome, e)
        /\ registry' = IF t = "destroy" THEN registry \ {w} ELSE registry
    BY <1>2 DEF GuiReq
  <2>2. IsEvent(e) /\ e.type = t /\ e.wid = w
    BY DEF IsEvent
  <2> HIDE DEF e
  <2>3. /\ \E S : toDome' \in Seq(S)
        /\ \A i \in DOMAIN toDome' : IsEvent(toDome'[i])
        /\ \A x, u : Events(x, u)' = Events(x, u) \union
              {i \in {Len(toDome) + 1} : e.type = u /\ e.wid = x}
        /\ \A x, u : \A i \in Events(x, u) : i < Len(toDome) + 1
        /\ \A c : Awaited(c) => Awaited(c)'
    BY <2>1, <2>2, EventQueued
  <2>4. WinShape'
    BY <2>1, <2>3 DEF WinShape
  <2>5. ASSUME NEW x \in Window, x # w PROVE KernelKnows(x)'
    <3>1. Events(x, "create")' = Events(x, "create") /\ Events(x, "destroy")' = Events(x, "destroy")
      BY <2>2, <2>3, <2>5
    <3>2. KernelKnows(x) /\ app'[x] = app[x] /\ (x \in registry' <=> x \in registry)
      BY <2>1, <2>5
    <3>3. x \in registry => app[x] \in {"up", "closing"}
      BY <3>2 DEF KernelKnows
    <3> QED BY <3>1, <3>2, <3>3, KernelKept
  <2>6. KernelKnows(w)'
    <3>1. KernelKnows(w) /\ Events(w, "create")' = Events(w, "create")
      BY <2>2, <2>3
    <3>2. CASE t # "destroy"
      <4>1. Events(w, "destroy")' = Events(w, "destroy") /\ registry' = registry
        BY <2>1, <2>2, <2>3, <3>2
      <4>2. /\ app'[w] = "new" => app[w] = "new"
            /\ app'[w] \in {"up", "closing"}
        BY <1>2, <3>1, <3>2 DEF KernelKnows
      <4> QED BY <3>1, <4>1, <4>2, KernelKept
    <3>3. CASE t = "destroy"
      <4>1. /\ Events(w, "destroy")' = Events(w, "destroy") \union {Len(toDome) + 1}
            /\ registry' = registry \ {w}
        BY <2>1, <2>2, <2>3, <3>3
      <4>2. \A i \in Events(w, "create") : i < Len(toDome) + 1
        BY <2>3
      <4>3. app'[w] # "new"
        BY <3>3
      <4> QED BY <1>2, <3>1, <4>1, <4>2, <4>3 DEF KernelKnows, Coming, Going
    <3> QED BY <3>2, <3>3
  <2> QED BY <2>3, <2>4, <2>5, <2>6, BrowsersKept
<1> QED BY <1>1, <1>2

(* A step of an application that the kernel hears nothing of. *)
LEMMA LibraryKeeps ==
  ASSUME WinInv, UNCHANGED <<app, registry, toDome, shown, conn, windows, asked, replay>>
  PROVE  WinInv'
<1>1. /\ WinShape' /\ \A w, t : Events(w, t)' = Events(w, t)
      /\ \A c : Awaited(c) => Awaited(c)'
  BY DEF WinInv, WinShape, Events, Awaited
<1>2. ASSUME NEW w \in Window PROVE KernelKnows(w)'
  BY <1>1, KernelKept DEF WinInv, KernelKnows
<1> QED BY <1>1, <1>2, BrowsersKept DEF WinInv

LEMMA CreateKeeps ==
  ASSUME WinInv, NEW w \in Window, CreateWindow(w)
  PROVE  WinInv'
<1> USE DEF WinInv
<1> DEFINE e == [type |-> "create", wid |-> w, node |-> "none", value |-> 0]
<1>1. /\ app[w] = "new" /\ app' = [app EXCEPT ![w] = "up"]
      /\ registry' = registry \union {w} /\ toDome' = Append(toDome, e)
      /\ UNCHANGED <<shown, conn, windows, asked, replay>>
  BY DEF CreateWindow, domeVars
<1>2. IsEvent(e) /\ e.type = "create" /\ e.wid = w
  BY DEF IsEvent, EventTypes
<1> HIDE DEF e
<1>3. /\ \E S : toDome' \in Seq(S)
      /\ \A i \in DOMAIN toDome' : IsEvent(toDome'[i])
      /\ \A x, u : Events(x, u)' = Events(x, u) \union
            {i \in {Len(toDome) + 1} : e.type = u /\ e.wid = x}
      /\ \A c : Awaited(c) => Awaited(c)'
  BY <1>1, <1>2, EventQueued
<1>4. /\ app' \in [Window -> {"new", "up", "closing", "closed", "gone"}]
      /\ \A x \in Window : app'[x] = IF x = w THEN "up" ELSE app[x]
  BY <1>1 DEF WinShape
<1>5. WinShape'
  BY <1>1, <1>3, <1>4 DEF WinShape
<1>6. ASSUME NEW x \in Window, x # w PROVE KernelKnows(x)'
  <2>1. Events(x, "create")' = Events(x, "create") /\ Events(x, "destroy")' = Events(x, "destroy")
    BY <1>2, <1>3, <1>6
  <2>2. KernelKnows(x) /\ app'[x] = app[x] /\ (x \in registry' <=> x \in registry)
    BY <1>1, <1>4, <1>6
  <2>3. x \in registry => app[x] \in {"up", "closing"}
    BY <2>2 DEF KernelKnows
  <2> QED BY <1>1, <2>1, <2>2, <2>3, KernelKept
<1>7. KernelKnows(w)'
  <2>1. /\ Events(w, "create")' = Events(w, "create") \union {Len(toDome) + 1}
        /\ Events(w, "destroy")' = Events(w, "destroy")
    BY <1>2, <1>3
  <2>2. KernelKnows(w) /\ app'[w] = "up" /\ w \in registry'
    BY <1>1, <1>4
  <2> QED BY <1>1, <2>1, <2>2 DEF KernelKnows, Coming, Going
<1> QED BY <1>1, <1>3, <1>5, <1>6, <1>7, BrowsersKept

LEMMA OwnerEndsKeeps ==
  ASSUME WinInv, NEW w \in Window, OwnerEnds(w)
  PROVE  WinInv'
<1> USE DEF WinInv
<1> DEFINE e == [type |-> "destroy", wid |-> w, node |-> "none", value |-> 0]
<1>1. /\ app' = [app EXCEPT ![w] = "gone"] /\ registry' = registry \ {w}
      /\ toDome' = IF w \in registry THEN Append(toDome, e) ELSE toDome
      /\ UNCHANGED <<shown, conn, windows, asked, replay>>
  BY DEF OwnerEnds, DestroyAll, domeVars
<1>2. IsEvent(e) /\ e.type = "destroy" /\ e.wid = w
  BY DEF IsEvent, EventTypes
<1> HIDE DEF e
<1>3. /\ app' \in [Window -> {"new", "up", "closing", "closed", "gone"}]
      /\ \A x \in Window : app'[x] = IF x = w THEN "gone" ELSE app[x]
  BY <1>1 DEF WinShape
<1>4. /\ \E S : toDome' \in Seq(S)
      /\ \A i \in DOMAIN toDome' : IsEvent(toDome'[i])
      /\ \A x \in Window : Events(x, "create")' = Events(x, "create")
      /\ \A x \in Window : x # w => Events(x, "destroy")' = Events(x, "destroy")
      /\ \A i \in Events(w, "create"), j \in Events(w, "destroy")' : i < j
      /\ w \in registry => Events(w, "destroy")' # {}
      /\ Events(w, "destroy") \subseteq Events(w, "destroy")'
      /\ \A c : Awaited(c) => Awaited(c)'
  <2>0. \A i \in Events(w, "create"), j \in Events(w, "destroy") : i < j
    BY DEF KernelKnows
  <2>1. CASE w \in registry
    <3>1. /\ \E S : toDome' \in Seq(S)
          /\ \A i \in DOMAIN toDome' : IsEvent(toDome'[i])
          /\ \A x, u : Events(x, u)' = Events(x, u) \union
                {i \in {Len(toDome) + 1} : e.type = u /\ e.wid = x}
          /\ \A x, u : \A i \in Events(x, u) : i < Len(toDome) + 1
          /\ \A c : Awaited(c) => Awaited(c)'
      BY <1>1, <1>2, <2>1, EventQueued
    <3>2. /\ \A x : Events(x, "create")' = Events(x, "create")
          /\ \A x : x # w => Events(x, "destroy")' = Events(x, "destroy")
          /\ Events(w, "destroy")' = Events(w, "destroy") \union {Len(toDome) + 1}
      BY <1>2, <3>1
    <3>3. \A i \in Events(w, "create"), j \in Events(w, "destroy")' : i < j
      BY <2>0, <3>1, <3>2
    <3> QED BY <3>1, <3>2, <3>3
  <2>2. CASE w \notin registry
    <3>1. toDome' = toDome
      BY <1>1, <2>2
    <3>2. \A x, u : Events(x, u)' = Events(x, u)
      BY <3>1 DEF Events
    <3>3. /\ \E S : toDome' \in Seq(S)
          /\ \A i \in DOMAIN toDome' : IsEvent(toDome'[i])
          /\ \A c : Awaited(c) => Awaited(c)'
      BY <3>1 DEF WinShape, Awaited
    <3> QED BY <2>0, <2>2, <3>2, <3>3
  <2> QED BY <2>1, <2>2
<1>5. WinShape'
  BY <1>1, <1>3, <1>4 DEF WinShape
<1>6. ASSUME NEW x \in Window, x # w PROVE KernelKnows(x)'
  <2>1. KernelKnows(x) /\ app'[x] = app[x] /\ (x \in registry' <=> x \in registry)
    BY <1>1, <1>3, <1>6
  <2>2. x \in registry => app[x] \in {"up", "closing"}
    BY <2>1 DEF KernelKnows
  <2> QED BY <1>1, <1>4, <1>6, <2>1, <2>2, KernelKept
<1>7. KernelKnows(w)'
  <2>1. KernelKnows(w) /\ app'[w] = "gone" /\ w \notin registry'
    BY <1>1, <1>3
  <2> QED BY <1>1, <1>4, <2>1 DEF KernelKnows, Coming, Going
<1> QED BY <1>1, <1>4, <1>5, <1>6, <1>7, BrowsersKept

(* The application's steps. *)
LEMMA ApplicationKeeps ==
  ASSUME WinInv, NEW w \in Window,
         \/ TimerFires(w) \/ FlushCalled(w) \/ FlushReply(w) \/ CloseCalled(w)
         \/ \E n \in Node : Mount(w, n) \/ Unmount(w, n) \/ UpdateProps(w, n)
  PROVE  WinInv'
<1>1. UNCHANGED <<shown, conn, windows, asked, replay>>
  BY DEF TimerFires, FlushCalled, FlushReply, CloseCalled, Mount, Unmount, UpdateProps, domeVars
<1>2. app \in [Window -> {"new", "up", "closing", "closed", "gone"}]
  BY DEF WinInv, WinShape
<1>3. ASSUME NEW t \in {"mount", "update", "unmount"}, NEW n, NEW v,
             GuiReq(t, w, n, v), app' = app \/ app' = [app EXCEPT ![w] = "closing"]
      PROVE  WinInv'
  BY <1>1, <1>2, <1>3, GuiReqKeeps DEF EventTypes
<1>4. ASSUME NEW n, NEW v, GuiReq("destroy", w, n, v), app' = [app EXCEPT ![w] = "closed"]
      PROVE  WinInv'
  BY <1>1, <1>2, <1>4, GuiReqKeeps DEF EventTypes
<1>5. ASSUME UNCHANGED <<app, registry, toDome>>
      PROVE  WinInv'
  BY <1>1, <1>5, LibraryKeeps
<1>6. ASSUME NEW why, FlushNow(w, why), app' = app \/ app' = [app EXCEPT ![w] = "closing"]
      PROVE  WinInv'
  BY <1>3, <1>6 DEF FlushNow
<1>7. CASE TimerFires(w)
  BY <1>5, <1>6, <1>7 DEF TimerFires
<1>8. CASE FlushCalled(w)
  BY <1>6, <1>8 DEF FlushCalled
<1>9. CASE FlushReply(w)
  <2>1. CASE Head(flushes[w]).rest # <<>>
    BY <1>3, <1>9, <2>1 DEF FlushReply
  <2>2. CASE Head(flushes[w]).rest = <<>>
    BY <1>4, <1>5, <1>9, <2>2 DEF FlushReply
  <2> QED BY <2>1, <2>2
<1>10. CASE CloseCalled(w)
  BY <1>4, <1>6, <1>10 DEF CloseCalled
<1>11. CASE \E n \in Node : Mount(w, n) \/ Unmount(w, n) \/ UpdateProps(w, n)
  <2>1. PICK n \in Node : Mount(w, n) \/ Unmount(w, n) \/ UpdateProps(w, n)
    BY <1>11
  <2>2. CASE Mount(w, n)
    BY <1>3, <2>2 DEF Mount
  <2>3. CASE Unmount(w, n)
    BY <1>3, <2>3 DEF Unmount
  <2>4. CASE UpdateProps(w, n)
    BY <1>5, <2>4 DEF UpdateProps
  <2> QED BY <2>1, <2>2, <2>3, <2>4
<1> QED BY <1>7, <1>8, <1>9, <1>10, <1>11

(* A message to all browsers changes what they show of its window only. *)
LEMMA BroadcastShows ==
  ASSUME WinShape, NEW w \in Window, NEW m, Broadcast(w, m)
  PROVE  /\ DOMAIN shown' = Client /\ \A c \in Client : DOMAIN shown'[c] = Window
         /\ \A c \in Client, x \in Window : x # w \/ conn[c] # "up" => shown'[c][x] = shown[c][x]
         /\ \A c \in Client : conn[c] = "up" =>
              shown'[c][w] = CASE m.type = "create" -> Empty
                               [] m.type = "destroy" -> Absent
                               [] OTHER -> OnNode(shown[c][w], m)
         /\ \A c \in Client, x \in Window : IsShown(shown'[c][x])
<1>1. /\ DOMAIN shown' = Client /\ \A c \in Client : DOMAIN shown'[c] = Window
      /\ \A c \in Client, x \in Window : x # w \/ conn[c] # "up" => shown'[c][x] = shown[c][x]
      /\ \A c \in Client : conn[c] = "up" =>
           shown'[c][w] = CASE m.type = "create" -> Empty
                            [] m.type = "destroy" -> Absent
                            [] OTHER -> OnNode(shown[c][w], m)
  BY DEF WinShape, Broadcast, Handled
<1>2. \A c \in Client, x \in Window : IsShown(shown[c][x])
  BY DEF WinShape
<1>3. ASSUME NEW c \in Client, NEW x \in Window PROVE IsShown(shown'[c][x])
  <2>1. shown'[c][x] \in {shown[c][x], Empty, Absent, OnNode(shown[c][x], m)}
    BY <1>1
  <2> QED BY <1>2, <2>1, EmptyIsShown
<1> QED BY <1>1, <1>3

(* The kernel and the applications have no part in a step. *)
LEMMA BrowserStep ==
  ASSUME WinInv, UNCHANGED <<app, registry, toDome, windows>>,
         conn' \in [Client -> {"no", "up", "gone"}],
         DOMAIN replay' = Client /\ \A c \in Client : DOMAIN replay'[c] = DOMAIN Off,
         DOMAIN shown' = Client /\ \A c \in Client : DOMAIN shown'[c] = Window,
         \A c \in Client, w \in Window :
            /\ IsShown(shown'[c][w])
            /\ shown'[c][w] # Absent => conn'[c] = "up" /\ w \in windows
            /\ conn'[c] = "up" /\ w \in windows \ asked' /\ shown'[c][w] = Absent =>
                 Awaited(c) \/ (replay'[c].on /\ w \notin replay'[c].seen)
  PROVE  WinInv'
<1>1. /\ WinShape' /\ \A w, t : Events(w, t)' = Events(w, t)
      /\ \A c : Awaited(c)' <=> Awaited(c)
  BY DEF WinInv, WinShape, Events, Awaited
<1>2. ASSUME NEW w \in Window PROVE KernelKnows(w)'
  BY <1>1, KernelKept DEF WinInv, KernelKnows
<1>3. \A c \in Client, w \in Window : BrowserSees(c, w)'
  BY <1>1 DEF BrowserSees
<1> QED BY <1>1, <1>2, <1>3 DEF WinInv

LEMMA BrowserClosesKeeps ==
  ASSUME WinInv, NEW w \in Window, BrowserCloses(w)
  PROVE  WinInv'
<1>1. /\ asked' = asked \union {w} /\ Broadcast(w, [type |-> "destroy"])
      /\ UNCHANGED <<app, registry, toDome, windows, replay, conn>>
  BY DEF BrowserCloses, libVars, kernelVars, domeVars
<1>2. /\ DOMAIN shown' = Client /\ \A c \in Client : DOMAIN shown'[c] = Window
      /\ \A c \in Client, x \in Window : x # w \/ conn[c] # "up" => shown'[c][x] = shown[c][x]
      /\ \A c \in Client : conn[c] = "up" => shown'[c][w] = Absent
      /\ \A c \in Client, x \in Window : IsShown(shown'[c][x])
  BY <1>1, BroadcastShows DEF WinInv
<1>3. ASSUME NEW c \in Client, NEW x \in Window
      PROVE  /\ IsShown(shown'[c][x])
             /\ shown'[c][x] # Absent => conn'[c] = "up" /\ x \in windows
             /\ conn'[c] = "up" /\ x \in windows \ asked' /\ shown'[c][x] = Absent =>
                  Awaited(c) \/ (replay'[c].on /\ x \notin replay'[c].seen)
  BY <1>1, <1>2 DEF WinInv, BrowserSees
<1> QED BY <1>1, <1>2, <1>3, BrowserStep DEF WinInv, WinShape

LEMMA DisconnectKeeps ==
  ASSUME WinInv, NEW c \in Client, Disconnect(c)
  PROVE  WinInv'
<1>1. /\ conn' = [conn EXCEPT ![c] = "gone"]
      /\ shown' = [shown EXCEPT ![c] = [w \in Window |-> Absent]]
      /\ UNCHANGED <<app, registry, toDome, windows, replay, asked>>
  BY DEF Disconnect, libVars, kernelVars, domeVars
<1>2. /\ DOMAIN shown' = Client /\ \A d \in Client : DOMAIN shown'[d] = Window
      /\ conn' \in [Client -> {"no", "up", "gone"}]
      /\ \A d \in Client \ {c} : shown'[d] = shown[d] /\ conn'[d] = conn[d]
      /\ conn'[c] = "gone" /\ \A x \in Window : shown'[c][x] = Absent
  BY <1>1 DEF WinInv, WinShape
<1>3. ASSUME NEW d \in Client, NEW x \in Window
      PROVE  /\ IsShown(shown'[d][x])
             /\ shown'[d][x] # Absent => conn'[d] = "up" /\ x \in windows
             /\ conn'[d] = "up" /\ x \in windows \ asked' /\ shown'[d][x] = Absent =>
                  Awaited(d) \/ (replay'[d].on /\ x \notin replay'[d].seen)
  BY <1>1, <1>2, EmptyIsShown DEF WinInv, WinShape, BrowserSees
<1> QED BY <1>1, <1>2, <1>3, BrowserStep DEF WinInv, WinShape

(* A browser that connects is awaited by the display server. *)
LEMMA ConnectKeeps ==
  ASSUME WinInv, NEW c \in Client, Connect(c)
  PROVE  WinInv'
<1> USE DEF WinInv
<1> DEFINE e == [type |-> "connect", client |-> c]
<1>1. /\ conn[c] = "no" /\ conn' = [conn EXCEPT ![c] = "up"] /\ toDome' = Append(toDome, e)
      /\ UNCHANGED <<app, registry, windows, replay, asked, shown>>
  BY DEF Connect, libVars, domeVars
<1>2. IsEvent(e) /\ e.type = "connect" /\ e.client = c
  BY DEF IsEvent
<1> HIDE DEF e
<1>3. /\ \E S : toDome' \in Seq(S)
      /\ \A i \in DOMAIN toDome' : IsEvent(toDome'[i])
      /\ \A x, t : Events(x, t)' = Events(x, t) \union
            {i \in {Len(toDome) + 1} : e.type = t /\ e.wid = x}
      /\ \A d : Awaited(d) => Awaited(d)'
  BY <1>1, <1>2, EventQueued
<1>4. Awaited(c)'
  <2>1. PICK S : toDome \in Seq(S)
    BY DEF WinShape
  <2>2. toDome \in Seq(S \union {e}) /\ e \in S \union {e}
    BY <2>1
  <2>3. Len(toDome) + 1 \in DOMAIN toDome' /\ toDome'[Len(toDome) + 1] = e
    BY <1>1, <2>2
  <2> QED BY <1>2, <2>3 DEF Awaited
<1>5. /\ conn' \in [Client -> {"no", "up", "gone"}]
      /\ \A d \in Client \ {c} : conn'[d] = conn[d]
  BY <1>1 DEF WinShape
<1>6. WinShape'
  BY <1>1, <1>3, <1>5 DEF WinShape
<1>7. ASSUME NEW w \in Window PROVE KernelKnows(w)'
  <2>1. Events(w, "create")' = Events(w, "create") /\ Events(w, "destroy")' = Events(w, "destroy")
    BY <1>2, <1>3
  <2> QED BY <1>1, <2>1, KernelKept DEF KernelKnows
<1>8. ASSUME NEW d \in Client, NEW w \in Window PROVE BrowserSees(d, w)'
  BY <1>1, <1>3, <1>4, <1>5 DEF BrowserSees
<1> QED BY <1>6, <1>7, <1>8

(* The display server's steps.  A browser is shown a window it is told of. *)
LEMMA ReplayWindowKeeps ==
  ASSUME WinInv, NEW c \in Client, NEW w \in Window, ReplayWindow(c, w)
  PROVE  WinInv'
<1> DEFINE next == [Off EXCEPT !.on = TRUE, !.at = w, !.seen = replay[c].seen \union {w}]
<1>1. /\ replay[c].on /\ w \in windows
      /\ replay' = [replay EXCEPT ![c] = next] /\ SendTo(c, w, Empty)
      /\ UNCHANGED <<app, registry, toDome, windows, asked, conn>>
  BY DEF ReplayWindow, libVars, kernelVars
<1>2. DOMAIN next = DOMAIN Off /\ next.on /\ next.seen = replay[c].seen \union {w}
  BY DEF Off
<1> HIDE DEF next
<1>3. /\ DOMAIN replay' = Client /\ replay'[c] = next
      /\ \A d \in Client \ {c} : replay'[d] = replay[d]
  BY <1>1 DEF WinInv, WinShape
<1>4. /\ DOMAIN shown' = Client /\ \A d \in Client : DOMAIN shown'[d] = Window
      /\ \A d \in Client \ {c} : shown'[d] = shown[d]
      /\ \A x \in Window \ {w} : shown'[c][x] = shown[c][x]
      /\ shown'[c][w] = IF conn[c] = "up" THEN Empty ELSE shown[c][w]
  BY <1>1 DEF WinInv, WinShape, SendTo
<1>5. ASSUME NEW d \in Client, NEW x \in Window
      PROVE  /\ IsShown(shown'[d][x])
             /\ shown'[d][x] # Absent => conn'[d] = "up" /\ x \in windows
             /\ conn'[d] = "up" /\ x \in windows \ asked' /\ shown'[d][x] = Absent =>
                  Awaited(d) \/ (replay'[d].on /\ x \notin replay'[d].seen)
  <2>1. BrowserSees(d, x) /\ IsShown(shown[d][x])
    BY DEF WinInv, WinShape
  <2>2. CASE d # c
    BY <1>1, <1>3, <1>4, <2>1, <2>2 DEF BrowserSees
  <2>3. CASE d = c /\ x # w
    BY <1>1, <1>2, <1>3, <1>4, <2>1, <2>3 DEF BrowserSees
  <2>4. CASE d = c /\ x = w
    BY <1>1, <1>4, <2>1, <2>4, EmptyIsShown DEF BrowserSees
  <2> QED BY <2>2, <2>3, <2>4
<1> QED BY <1>1, <1>2, <1>3, <1>4, <1>5, BrowserStep DEF WinInv, WinShape

LEMMA ReplayStateKeeps ==
  ASSUME WinInv, NEW c \in Client, ReplayState(c) \/ ReplayEnds(c)
  PROVE  WinInv'
<1>1. UNCHANGED <<app, registry, toDome, windows, asked, conn>>
  BY DEF ReplayState, ReplayEnds, libVars, kernelVars
<1>2. /\ DOMAIN replay' = Client /\ \A d \in Client : DOMAIN replay'[d] = DOMAIN Off
      /\ \A d \in Client \ {c} : replay'[d] = replay[d]
      /\ \/ replay'[c].seen = replay[c].seen /\ (replay[c].on => replay'[c].on)
         \/ windows \subseteq replay[c].seen
  <2>0. DOMAIN replay = Client /\ \A d \in Client : DOMAIN replay[d] = DOMAIN Off
    BY DEF WinInv, WinShape
  <2>1. CASE replay' = [replay EXCEPT ![c].sent = @ + 1, ![c].old = Array(replay[c])]
    BY <2>0, <2>1 DEF Off
  <2>2. CASE replay' = [replay EXCEPT ![c] = [Off EXCEPT !.on = TRUE, !.seen = replay[c].seen]]
    BY <2>0, <2>2 DEF Off
  <2>3. CASE ReplayEnds(c)
    BY <2>0, <2>3 DEF Off, ReplayEnds
  <2> QED BY <2>1, <2>2, <2>3 DEF ReplayState
<1>3. /\ DOMAIN shown' = Client /\ \A d \in Client : DOMAIN shown'[d] = Window
      /\ \A d \in Client, x \in Window :
           IsShown(shown'[d][x]) /\ (shown'[d][x] = Absent <=> shown[d][x] = Absent)
  <2>0. /\ DOMAIN shown = Client /\ \A d \in Client : DOMAIN shown[d] = Window
        /\ \A d \in Client, x \in Window : IsShown(shown[d][x])
    BY DEF WinInv, WinShape
  <2>1. ASSUME NEW w, NEW m, SendTo(c, w, OnNode(shown[c][w], m))
        PROVE  /\ DOMAIN shown' = Client /\ \A d \in Client : DOMAIN shown'[d] = Window
               /\ \A d \in Client, x \in Window :
                    IsShown(shown'[d][x]) /\ (shown'[d][x] = Absent <=> shown[d][x] = Absent)
    <3>1. shown' = [shown EXCEPT ![c][w] = IF conn[c] = "up" THEN OnNode(shown[c][w], m) ELSE @]
      BY <2>1 DEF SendTo
    <3>2. DOMAIN shown' = Client /\ \A d \in Client : DOMAIN shown'[d] = Window
      BY <2>0, <3>1
    <3>3. \A d \in Client, x \in Window :
             \/ shown'[d][x] = shown[d][x]
             \/ d = c /\ x = w /\ shown'[d][x] = OnNode(shown[c][w], m)
      BY <2>0, <3>1
    <3> QED BY <2>0, <3>2, <3>3, EmptyIsShown
  <2>2. CASE UNCHANGED shown
    BY <2>0, <2>2
  <2> QED BY <2>1, <2>2 DEF ReplayState, ReplayEnds
<1>4. ASSUME NEW d \in Client, NEW x \in Window
      PROVE  /\ IsShown(shown'[d][x])
             /\ shown'[d][x] # Absent => conn'[d] = "up" /\ x \in windows
             /\ conn'[d] = "up" /\ x \in windows \ asked' /\ shown'[d][x] = Absent =>
                  Awaited(d) \/ (replay'[d].on /\ x \notin replay'[d].seen)
  <2>1. BrowserSees(d, x)
    BY DEF WinInv
  <2>2. CASE d # c
    BY <1>1, <1>2, <1>3, <2>1, <2>2 DEF BrowserSees
  <2>3. CASE d = c
    BY <1>1, <1>2, <1>3, <2>1, <2>3 DEF BrowserSees
  <2> QED BY <2>2, <2>3
<1> QED BY <1>1, <1>2, <1>3, <1>4, BrowserStep DEF WinInv, WinShape

(* The replay of a browser goes on as before, but through another array. *)
LEMMA DetachKeeps ==
  ASSUME WinShape, NEW w \in Window, replay' = Detach(w)
  PROVE  /\ DOMAIN replay' = Client /\ \A c \in Client : DOMAIN replay'[c] = DOMAIN Off
         /\ \A c \in Client : replay'[c].on = replay[c].on /\ replay'[c].seen = replay[c].seen
<1>1. DOMAIN replay' = Client
  BY Zenon DEF Detach
<1>2. ASSUME NEW c \in Client
      PROVE  /\ DOMAIN replay'[c] = DOMAIN Off
             /\ replay'[c].on = replay[c].on /\ replay'[c].seen = replay[c].seen
  <2> DEFINE through == [replay[c] EXCEPT !.live = FALSE]
  <2>1. DOMAIN replay[c] = DOMAIN Off
    BY DEF WinShape
  <2>2. DOMAIN through = DOMAIN Off /\ through.on = replay[c].on /\ through.seen = replay[c].seen
    BY <2>1 DEF Off
  <2>3. replay'[c] = replay[c] \/ replay'[c] = [through EXCEPT !.old = states[w]]
    BY Zenon DEF Detach
  <2> HIDE DEF through
  <2> QED BY <2>1, <2>2, <2>3 DEF Off
<1> QED BY <1>1, <1>2

(* The first event is handled, if it is about a window. *)
LEMMA WindowEventKeeps ==
  ASSUME WinInv, NEW w \in Window, NEW e, e = Head(toDome), e.wid = w, e.type \in EventTypes,
         toDome # <<>>, toDome' = Tail(toDome),
         UNCHANGED <<app, registry, asked, conn>>,
         windows' = CASE e.type = "create" -> windows \union {w}
                      [] e.type = "destroy" -> windows \ {w}
                      [] OTHER -> windows,
         Broadcast(w, e),
         replay' = replay \/ replay' = Detach(w)
  PROVE  WinInv'
<1> USE DEF WinInv
<1>1. /\ \E S : toDome' \in Seq(S)
      /\ \A i \in DOMAIN toDome' : IsEvent(toDome'[i])
      /\ \A x, t : 1 \in Events(x, t) <=> e.type = t /\ e.wid = x
      /\ \A x, t : \A i \in Events(x, t)' : i \in Nat \ {0} /\ i + 1 \in Events(x, t)
      /\ \A x, t : \A i \in Events(x, t) : i \in Nat \ {0} /\ (i # 1 => i - 1 \in Events(x, t)')
      /\ \A c : Awaited(c) => Awaited(c)' \/ (e.type = "connect" /\ e.client = c)
  BY EventTaken
<1>2. /\ DOMAIN shown' = Client /\ \A c \in Client : DOMAIN shown'[c] = Window
      /\ \A c \in Client, x \in Window : x # w \/ conn[c] # "up" => shown'[c][x] = shown[c][x]
      /\ \A c \in Client : conn[c] = "up" =>
           shown'[c][w] = CASE e.type = "create" -> Empty
                            [] e.type = "destroy" -> Absent
                            [] OTHER -> OnNode(shown[c][w], e)
      /\ \A c \in Client, x \in Window : IsShown(shown'[c][x])
  BY BroadcastShows
<1>3. /\ DOMAIN replay' = Client /\ \A c \in Client : DOMAIN replay'[c] = DOMAIN Off
      /\ \A c \in Client : replay'[c].on = replay[c].on /\ replay'[c].seen = replay[c].seen
  BY DetachKeeps DEF WinShape
<1>4. windows' \subseteq Window /\ \A x \in Window \ {w} : x \in windows' <=> x \in windows
  BY DEF WinShape
<1>5. WinShape'
  BY <1>1, <1>2, <1>3, <1>4 DEF WinShape
<1>6. ASSUME NEW x \in Window, NEW t PROVE Events(x, t)' # {} => Events(x, t) # {}
  BY <1>1
<1>7. ASSUME NEW x \in Window, NEW t, ~(x = w /\ t = e.type)
      PROVE  Events(x, t)' # {} <=> Events(x, t) # {}
  BY <1>1, <1>7
<1>8. ASSUME NEW x \in Window PROVE KernelKnows(x)'
  <2>0. KernelKnows(x)
    OBVIOUS
  <2>1. \A i \in Events(x, "create")', j \in Events(x, "destroy")' : i < j
    <3> SUFFICES ASSUME NEW i \in Events(x, "create")', NEW j \in Events(x, "destroy")'
                 PROVE  i < j
      OBVIOUS
    <3>1. i + 1 \in Events(x, "create") /\ j + 1 \in Events(x, "destroy") /\ i \in Nat /\ j \in Nat
      BY <1>1
    <3>2. i + 1 < j + 1
      BY <2>0, <3>1 DEF KernelKnows
    <3> QED BY <3>1, <3>2
  <2>2. CASE x # w
    BY <1>4, <1>7, <2>0, <2>1, <2>2 DEF KernelKnows, Coming, Going
  <2>3. CASE x = w /\ e.type = "create"
    <3>1. Coming(w) /\ (Going(w)' <=> Going(w)) /\ w \in windows'
      BY <1>1, <1>7, <2>3 DEF Coming, Going
    <3> QED BY <2>0, <2>1, <2>3, <3>1 DEF KernelKnows
  <2>4. CASE x = w /\ e.type = "destroy"
    <3>1. Going(w) /\ 1 \in Events(w, "destroy") /\ w \notin windows'
      BY <1>1, <2>4 DEF Going
    <3>2. Events(w, "create")' = {}
      <4> SUFFICES ASSUME NEW i \in Events(w, "create")' PROVE FALSE
        OBVIOUS
      <4>1. i \in Nat /\ i + 1 \in Events(w, "create")
        BY <1>1
      <4>2. i + 1 < 1
        BY <2>0, <2>4, <3>1, <4>1 DEF KernelKnows
      <4> QED BY <4>1, <4>2
    <3> QED BY <2>0, <2>1, <2>4, <3>1, <3>2 DEF KernelKnows, Coming, Going
  <2>5. CASE x = w /\ e.type \notin {"create", "destroy"}
    <3>1. windows' = windows
      BY <2>5
    <3> QED BY <1>7, <2>0, <2>1, <2>5, <3>1 DEF KernelKnows, Coming, Going
  <2> QED BY <2>2, <2>3, <2>4, <2>5
<1>9. ASSUME NEW c \in Client, NEW x \in Window PROVE BrowserSees(c, x)'
  <2>0. BrowserSees(c, x) /\ IsShown(shown[c][x]) /\ (Awaited(c) => Awaited(c)')
    BY <1>1 DEF WinShape, EventTypes
  <2>1. CASE x # w
    BY <1>2, <1>3, <1>4, <2>0, <2>1 DEF BrowserSees
  <2>2. CASE x = w /\ conn[c] # "up"
    BY <1>2, <2>0, <2>2 DEF BrowserSees
  <2>3. CASE x = w /\ conn[c] = "up" /\ e.type = "create"
    BY <1>2, <2>3, EmptyIsShown DEF BrowserSees
  <2>4. CASE x = w /\ conn[c] = "up" /\ e.type = "destroy"
    <3>1. shown'[c][w] = Absent /\ w \notin windows'
      BY <1>2, <2>4
    <3> QED BY <2>4, <3>1 DEF BrowserSees
  <2>5. CASE x = w /\ conn[c] = "up" /\ e.type \notin {"create", "destroy"}
    <3>1. shown'[c][w] = OnNode(shown[c][w], e) /\ windows' = windows
      BY <1>2, <2>5
    <3>2. shown'[c][w] = Absent <=> shown[c][w] = Absent
      BY <2>0, <2>5, <3>1, EmptyIsShown
    <3> QED BY <1>3, <2>0, <2>5, <3>1, <3>2 DEF BrowserSees
  <2> QED BY <2>1, <2>2, <2>3, <2>4, <2>5
<1> QED BY <1>5, <1>8, <1>9

LEMMA HandleEventKeeps ==
  ASSUME WinInv, HandleEvent
  PROVE  WinInv'
<1> USE DEF WinInv
<1> SUFFICES ASSUME NEW e, e = Head(toDome) PROVE WinInv'
  OBVIOUS
<1>1. /\ toDome # <<>> /\ toDome' = Tail(toDome)
      /\ UNCHANGED <<app, registry, asked, conn>>
  BY DEF HandleEvent, libVars
<1>2. /\ IsEvent(e)
      /\ \E S : toDome' \in Seq(S)
      /\ \A i \in DOMAIN toDome' : IsEvent(toDome'[i])
      /\ \A x, t : 1 \in Events(x, t) <=> e.type = t /\ e.wid = x
      /\ \A x, t : \A i \in Events(x, t)' : i \in Nat \ {0} /\ i + 1 \in Events(x, t)
      /\ \A x, t : \A i \in Events(x, t) : i \in Nat \ {0} /\ (i # 1 => i - 1 \in Events(x, t)')
      /\ \A c : Awaited(c) => Awaited(c)' \/ (e.type = "connect" /\ e.client = c)
  BY <1>1, EventTaken
<1>3. CASE e.type \in EventTypes
  <2>1. e.wid \in Window
    BY <1>2, <1>3 DEF IsEvent, EventTypes
  <2>2. /\ windows' = CASE e.type = "create" -> windows \union {e.wid}
                        [] e.type = "destroy" -> windows \ {e.wid}
                        [] OTHER -> windows
        /\ Broadcast(e.wid, e)
        /\ replay' = replay \/ replay' = Detach(e.wid)
    <3>1. CASE e.type = "create"
      BY <3>1 DEF HandleEvent
    <3>2. CASE e.type = "destroy"
      BY <3>2 DEF HandleEvent
    <3>3. CASE e.type \in {"mount", "update"}
      BY <3>3 DEF HandleEvent
    <3>4. CASE e.type = "unmount"
      BY <3>4 DEF HandleEvent
    <3> QED BY <1>3, <3>1, <3>2, <3>3, <3>4 DEF EventTypes
  <2> QED BY <1>1, <1>3, <2>1, <2>2, WindowEventKeeps
<1>4. CASE e.type = "connect" /\ e.client \in Client
  <2> DEFINE begun == [Off EXCEPT !.on = TRUE]
  <2>1. /\ replay' = [replay EXCEPT ![e.client] = begun]
        /\ UNCHANGED <<windows, shown>>
    BY <1>4 DEF HandleEvent
  <2>2. DOMAIN begun = DOMAIN Off /\ begun.on /\ begun.seen = {}
    BY DEF Off
  <2> HIDE DEF begun
  <2>3. /\ DOMAIN replay' = Client /\ replay'[e.client] = begun
        /\ \A c \in Client : c # e.client => replay'[c] = replay[c]
    BY <1>4, <2>1 DEF WinShape
  <2>4. WinShape'
    BY <1>1, <1>2, <2>1, <2>2, <2>3 DEF WinShape
  <2>5. ASSUME NEW x \in Window PROVE KernelKnows(x)'
    <3>1. \A t \in {"create", "destroy"} : Events(x, t)' # {} <=> Events(x, t) # {}
      BY <1>2, <1>4
    <3>2. \A i \in Events(x, "create")', j \in Events(x, "destroy")' : i < j
      <4> SUFFICES ASSUME NEW i \in Events(x, "create")', NEW j \in Events(x, "destroy")'
                   PROVE  i < j
        OBVIOUS
      <4>1. i + 1 \in Events(x, "create") /\ j + 1 \in Events(x, "destroy") /\ i \in Nat /\ j \in Nat
        BY <1>2
      <4>2. i + 1 < j + 1
        BY <4>1 DEF KernelKnows
      <4> QED BY <4>1, <4>2
    <3>3. KernelKnows(x)
      OBVIOUS
    <3> QED BY <1>1, <2>1, <3>1, <3>2, <3>3 DEF KernelKnows, Coming, Going
  <2>6. ASSUME NEW c \in Client, NEW x \in Window PROVE BrowserSees(c, x)'
    <3>1. BrowserSees(c, x)
      OBVIOUS
    <3>2. CASE c = e.client
      BY <1>1, <2>1, <2>2, <2>3, <3>1, <3>2 DEF BrowserSees
    <3>3. CASE c # e.client
      BY <1>1, <1>2, <2>1, <2>3, <3>1, <3>3 DEF BrowserSees
    <3> QED BY <3>2, <3>3
  <2> QED BY <2>4, <2>5, <2>6
<1> QED BY <1>2, <1>3, <1>4 DEF IsEvent

LEMMA WinInvNext ==
  ASSUME WinInv, [WinNext]_winVars
  PROVE  WinInv'
<1>1. CASE UNCHANGED winVars
  BY <1>1, LibraryKeeps DEF winVars, libVars, kernelVars, domeVars
<1>2. CASE WinNext
  BY <1>2, CreateKeeps, OwnerEndsKeeps, ApplicationKeeps, BrowserClosesKeeps, DisconnectKeeps,
     ConnectKeeps, ReplayWindowKeeps, ReplayStateKeeps, HandleEventKeeps DEF WinNext
<1> QED BY <1>1, <1>2

LEMMA WinInvInit == WinInit => WinInv
<1> SUFFICES ASSUME WinInit PROVE WinInv
  OBVIOUS
<1>1. /\ app = [w \in Window |-> "new"] /\ registry = {} /\ windows = {} /\ asked = {}
      /\ toDome = <<>> /\ conn = [c \in Client |-> "no"] /\ replay = [c \in Client |-> Off]
      /\ shown = [c \in Client |-> [w \in Window |-> Absent]]
  BY DEF WinInit
<1>2. toDome \in Seq({}) /\ DOMAIN toDome = {}
  BY <1>1
<1>3. WinShape
  BY <1>1, <1>2, EmptyIsShown DEF WinShape
<1>4. \A w, t : Events(w, t) = {}
  BY <1>2 DEF Events
<1> QED BY <1>1, <1>3, <1>4 DEF WinInv, KernelKnows, BrowserSees, Coming, Going

LEMMA WindowsAgreed ==
  ASSUME WinInv
  PROVE  WindowsAgree
<1> SUFFICES ASSUME Quiet
             PROVE  /\ windows = registry
                    /\ \A w \in windows : app[w] # "gone"
                    /\ \A c \in Client : conn[c] = "up" =>
                          {w \in Window : shown[c][w] # Absent} = windows
  BY DEF WindowsAgree
<1> USE DEF WinInv
<1>1. DOMAIN toDome = {}
  BY DEF Quiet
<1>2. /\ \A w, t : Events(w, t) = {}
      /\ \A c : ~Awaited(c)
  BY <1>1 DEF Events, Awaited
<1>3. \A w \in Window : w \in registry <=> w \in windows
  BY <1>2 DEF KernelKnows, Coming, Going
<1>4. windows = registry /\ windows \subseteq Window
  BY <1>3 DEF WinShape
<1>5. \A w \in windows : app[w] \in {"up", "closing"}
  BY <1>4 DEF KernelKnows
<1>6. ASSUME NEW c \in Client, conn[c] = "up", NEW w \in Window
      PROVE  shown[c][w] # Absent <=> w \in windows
  <2>1. w \in windows => w \notin asked
    BY <1>5 DEF Quiet
  <2> QED BY <1>2, <1>6, <2>1 DEF BrowserSees, Quiet
<1> QED BY <1>4, <1>5, <1>6

(* When nothing is on its way, the kernel, the display server and every browser *)
(* know the same windows, and none of a process that has ended, for any number  *)
(* of windows and browsers (dome.ts:338, Syscalls.ts:100).                      *)
THEOREM EveryoneKnowsTheWindows == WinSpec => []WindowsAgree
BY WindowsAgreed, WinInvInit, WinInvNext, PTL DEF WinSpec

================================================================================
