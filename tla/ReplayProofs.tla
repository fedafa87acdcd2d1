------------------------------ MODULE ReplayProofs ------------------------------
(* The proof that a browser shows what the display server has kept of a window,  *)
(* whenever it connected.  What is shown is a fold of messages, so the first     *)
(* part proves, by induction over the array of messages, what a fold is, what    *)
(* one message more and a pruned array make, and that an update which overtakes  *)
(* a replay changes nothing in the end.  The rest is an inductive invariant: a   *)
(* replay that is under way makes, with the messages it has still to send, what  *)
(* all the messages make, and the nodes that are kept of a window become those   *)
(* of the application when what is on its way has been handled.                  *)
EXTENDS WindowsProofs, WellFoundedInduction, FiniteSetTheorems

-----------------------------------------------------------------------------
(* Messages applied one after the other                                         *)

(* The natural numbers are well ordered: induction, for a set.                  *)
LEMMA SmallestOf ==
  ASSUME NEW T \in SUBSET Nat, T # {}
  PROVE  \E n \in T : \A k \in T : n <= k
<1> DEFINE R == {ss \in Nat \X Nat : ss[1] < ss[2]}
<1>1. IsWellFoundedOn(R, Nat)
  BY NatLessThanWellFounded DEF OpToRel
<1>2. \A x, y \in Nat : <<y,x>> \in R <=> y < x
  OBVIOUS
<1> HIDE DEF R
<1>3. PICK x \in T : \A y \in T : ~ (<<y, x>> \in R)
  BY <1>1, WFMin
<1>4. ASSUME NEW k \in T PROVE x <= k
  <2>1. x \in Nat /\ k \in Nat /\ ~(k < x)
    BY <1>2, <1>3
  <2> QED BY <2>1
<1> QED BY <1>4

LEMMA Inductive ==
  ASSUME NEW T \in SUBSET Nat, 0 \in T, \A n \in T : n + 1 \in T
  PROVE  T = Nat
<1> SUFFICES ASSUME Nat \ T # {} PROVE FALSE
  OBVIOUS
<1>1. PICK n \in Nat \ T : \A k \in Nat \ T : n <= k
  BY SmallestOf
<1>2. n # 0 /\ n - 1 \in Nat
  BY <1>1
<1>3. n - 1 \in T
  BY <1>1, <1>2
<1> QED BY <1>1, <1>2, <1>3

(* The messages of t after the first k, applied one after the other. *)
IsRun(g, t, k) ==
    /\ g = [i \in k..Len(t) |-> g[i]]
    /\ \A i \in k .. Len(t) - 1 : g[i + 1] = Apply(g[i], t[i + 1])

(* The function by which FoldLeft is defined, from the other end.               *)
IsIter(h, x, t, n) ==
    h = [s \in SUBSET (1..n) |-> IF s = {} THEN x ELSE Apply(h[s \ {Max(s)}], t[Max(s)])]

(* The next message of a fold is the last of those that remain.                 *)
LEMMA MaxOfInterval ==
  ASSUME NEW n \in Nat \ {0}, NEW s \in SUBSET (1..n), n \in s
  PROVE  Max(s) = n
<1>1. \A y \in s : y \in Nat /\ n >= y
  OBVIOUS
<1>2. \A x \in s : (\A y \in s : x >= y) => x = n
  BY <1>1
<1> QED BY <1>1, <1>2 DEF Max

(* FoldLeft is defined by a function that exists.                               *)
LEMMA IterExists ==
  ASSUME NEW x, NEW t, NEW n \in Nat
  PROVE  \E h : IsIter(h, x, t, n)
<1> DEFINE T == {k \in Nat : \E h : IsIter(h, x, t, k)}
<1>1. 0 \in T
  <2>1. SUBSET (1..0) = {{}}
    OBVIOUS
  <2> DEFINE h == [s \in SUBSET (1..0) |-> x]
  <2>2. IsIter(h, x, t, 0)
    BY <2>1, Zenon DEF IsIter
  <2> QED BY <2>2
<1>2. ASSUME NEW k \in T PROVE k + 1 \in T
  <2>1. PICK h : IsIter(h, x, t, k)
    BY <1>2
  <2> DEFINE next == [s \in SUBSET (1..k + 1) |->
                        IF k + 1 \in s THEN Apply(h[s \ {k + 1}], t[k + 1]) ELSE h[s]]
  <2>2. ASSUME NEW s \in SUBSET (1..k + 1)
        PROVE  next[s] = IF s = {} THEN x ELSE Apply(next[s \ {Max(s)}], t[Max(s)])
    <3>1. CASE k + 1 \in s
      <4>1. Max(s) = k + 1
        BY <3>1, MaxOfInterval
      <4>2. s \ {k + 1} \in SUBSET (1..k + 1) /\ k + 1 \notin s \ {k + 1}
        OBVIOUS
      <4>3. next[s \ {k + 1}] = h[s \ {k + 1}]
        BY <4>2
      <4> QED BY <3>1, <4>1, <4>3
    <3>2. CASE k + 1 \notin s
      <4>1. s \in SUBSET (1..k)
        BY <3>2
      <4>2. next[s] = h[s]
        BY <3>2
      <4>3. h[s] = IF s = {} THEN x ELSE Apply(h[s \ {Max(s)}], t[Max(s)])
        BY <2>1, <4>1 DEF IsIter
      <4>4. next[s \ {Max(s)}] = h[s \ {Max(s)}]
        <5>1. s \ {Max(s)} \in SUBSET (1..k + 1) /\ k + 1 \notin s \ {Max(s)}
          BY <3>2
        <5> QED BY <5>1
      <4> QED BY <4>2, <4>3, <4>4
    <3> QED BY <3>1, <3>2
  <2>3. IsIter(next, x, t, k + 1)
    <3> DEFINE S == SUBSET (1..k + 1)
    <3>1. next = [s \in S |-> next[s]]
      OBVIOUS
    <3> HIDE DEF next
    <3> QED BY <2>2, <3>1, Zenon DEF IsIter
  <2> QED BY <2>3
<1> HIDE DEF T
<1>3. T = Nat
  <2>1. T \in SUBSET Nat
    BY DEF T
  <2> QED BY <1>1, <1>2, <2>1, Inductive
<1> QED BY <1>3 DEF T

(* To fold the messages is to apply them one after the other.                   *)
LEMMA FoldIsRun ==
  ASSUME NEW S, NEW t \in Seq(S), NEW x
  PROVE  \E g : IsRun(g, t, 0) /\ g[0] = x /\ g[Len(t)] = FoldLeft(Apply, x, t)
<1> DEFINE it == CHOOSE h : IsIter(h, x, t, Len(t))
<1>0. DOMAIN t = 1..Len(t) /\ Len(t) \in Nat
  OBVIOUS
<1>1. IsIter(it, x, t, Len(t))
  BY <1>0, IterExists
<1>2. FoldLeft(Apply, x, t) = it[1..Len(t)]
  BY <1>0 DEF FoldLeft, MapThenFoldSet, IsIter
<1> HIDE DEF it
<1> DEFINE g == [i \in 0..Len(t) |-> it[1..i]]
<1>3. g[0] = x
  <2>1. 1..0 = {} /\ {} \in SUBSET (1..Len(t))
    OBVIOUS
  <2>2. it[{}] = x
    BY <1>1, <2>1 DEF IsIter
  <2> QED BY <1>0, <2>1, <2>2
<1>4. ASSUME NEW i \in 0..Len(t) - 1 PROVE g[i + 1] = Apply(g[i], t[i + 1])
  <2>0. i \in Nat /\ i + 1 \in Nat \ {0} /\ i + 1 <= Len(t)
    BY <1>0
  <2>1. /\ 1..i + 1 \in SUBSET (1..Len(t)) /\ 1..i + 1 # {} /\ i + 1 \in 1..i + 1
        /\ i + 1 \in 0..Len(t) /\ i \in 0..Len(t)
    <3>1. i + 1 \in 1..i + 1
      BY <2>0
    <3>2. 1..i + 1 \in SUBSET (1..Len(t))
      BY <1>0, <2>0
    <3> QED BY <1>0, <2>0, <3>1, <3>2, SMTT(30)
  <2>2. (1..i + 1) \ {i + 1} = 1..i
    <3>1. \A j : j \in (1..i + 1) \ {i + 1} <=> j \in 1..i
      BY <2>0
    <3> QED BY <3>1
  <2>3. Max(1..i + 1) = i + 1
    <3>1. 1..i + 1 \in SUBSET (1..i + 1)
      OBVIOUS
    <3> QED BY <2>0, <2>1, <3>1, MaxOfInterval
  <2>4. it[1..i + 1] = Apply(it[1..i], t[i + 1])
    BY <1>1, <2>1, <2>2, <2>3, Zenon DEF IsIter
  <2> QED BY <2>1, <2>4
<1>5. g[Len(t)] = FoldLeft(Apply, x, t)
  BY <1>0, <1>2
<1>6. g = [i \in 0..Len(t) |-> g[i]]
  OBVIOUS
<1> HIDE DEF g
<1> QED BY <1>3, <1>4, <1>5, <1>6 DEF IsRun
(* The same messages make the same. *)
LEMMA RunsAgree ==
  ASSUME NEW t, NEW u, NEW g, NEW h, Len(t) \in Nat, Len(u) \in Nat,
         IsRun(g, t, 0), IsRun(h, u, 0), g[0] = h[0],
         NEW k \in Nat, k <= Len(t), k <= Len(u), \A i \in 1..k : t[i] = u[i]
  PROVE  g[k] = h[k]
<1> DEFINE T == {i \in Nat : i <= k => g[i] = h[i]}
<1>1. 0 \in T
  OBVIOUS
<1>2. ASSUME NEW i \in T PROVE i + 1 \in T
  <2> SUFFICES ASSUME i + 1 <= k PROVE g[i + 1] = h[i + 1]
    OBVIOUS
  <2>1. /\ i \in 0 .. Len(t) - 1 /\ i \in 0 .. Len(u) - 1
        /\ i + 1 \in 1..k /\ g[i] = h[i]
    OBVIOUS
  <2>2. g[i + 1] = Apply(g[i], t[i + 1]) /\ h[i + 1] = Apply(h[i], u[i + 1])
    BY <2>1 DEF IsRun
  <2> QED BY <2>1, <2>2
<1> HIDE DEF T
<1>3. T = Nat
  <2>1. T \in SUBSET Nat
    BY DEF T
  <2> QED BY <1>1, <1>2, <2>1, Inductive
<1> QED BY <1>3 DEF T

(* What the messages of t make, and what one more of them does.                 *)
Shows(t) == FoldLeft(Apply, Empty, t)

LEMMA ShowsNothing == Shows(<<>>) = Empty
<1>1. <<>> \in Seq({}) /\ Len(<<>>) = 0
  OBVIOUS
<1> QED BY <1>1, FoldIsRun DEF Shows

LEMMA ShowsAppend ==
  ASSUME NEW S, NEW t \in Seq(S), NEW m \in S
  PROVE  Shows(Append(t, m)) = Apply(Shows(t), m)
<1> DEFINE u == Append(t, m)
<1>1. u \in Seq(S) /\ Len(u) = Len(t) + 1 /\ Len(t) \in Nat /\ u[Len(t) + 1] = m
  OBVIOUS
<1>2. \A i \in 1..Len(t) : t[i] = u[i]
  OBVIOUS
<1> HIDE DEF u
<1>3. PICK g : IsRun(g, t, 0) /\ g[0] = Empty /\ g[Len(t)] = Shows(t)
  BY FoldIsRun DEF Shows
<1>4. PICK h : IsRun(h, u, 0) /\ h[0] = Empty /\ h[Len(u)] = Shows(u)
  BY <1>1, FoldIsRun DEF Shows
<1>5. g[Len(t)] = h[Len(t)]
  BY <1>1, <1>2, <1>3, <1>4, RunsAgree
<1>6. h[Len(t) + 1] = Apply(h[Len(t)], u[Len(t) + 1])
  <2>1. Len(t) \in 0 .. Len(u) - 1
    BY <1>1
  <2> QED BY <1>4, <2>1 DEF IsRun
<1> QED BY <1>1, <1>3, <1>4, <1>5, <1>6 DEF u

(* What a browser has of a window, and the messages that are kept.              *)
Nodes == [Node -> Seq(Value)]
Kept == [type : {"mount", "update"}, node : Node, value : Value]

(* MOUNT_NODE, UPDATE_PROPS and UNMOUNT_NODE touch one node.                    *)
LEMMA ApplyTyped ==
  ASSUME NEW x \in Nodes, NEW m, m.node \in Node, m.value \in Value
  PROVE  /\ Apply(x, m) \in Nodes
         /\ \A n \in Node \ {m.node} : Apply(x, m)[n] = x[n]
         /\ m.type = "mount" => Apply(x, m)[m.node] = Append(x[m.node], m.value)
         /\ m.type = "update" => /\ x[m.node] = <<>> => Apply(x, m)[m.node] = <<>>
                                 /\ x[m.node] # <<>> => Apply(x, m)[m.node] =
                                                         [x[m.node] EXCEPT ![1] = m.value]
         /\ m.type \notin {"mount", "update"} =>
               /\ x[m.node] = <<>> => Apply(x, m)[m.node] = <<>>
               /\ x[m.node] # <<>> => Apply(x, m)[m.node] = Tail(x[m.node])
<1>1. x[m.node] \in Seq(Value)
  BY DEF Nodes
<1> DEFINE y == CASE m.type = "mount" -> Append(x[m.node], m.value)
                  [] m.type = "update" -> IF x[m.node] = <<>> THEN <<>>
                                          ELSE [x[m.node] EXCEPT ![1] = m.value]
                  [] OTHER -> IF x[m.node] = <<>> THEN <<>> ELSE Tail(x[m.node])
<1>2. y \in Seq(Value)
  <2>1. CASE x[m.node] = <<>>
    BY <1>1, <2>1
  <2>2. CASE x[m.node] # <<>>
    <3>1. Tail(x[m.node]) \in Seq(Value) /\ Append(x[m.node], m.value) \in Seq(Value)
      BY <1>1, <2>2
    <3>2. [x[m.node] EXCEPT ![1] = m.value] \in Seq(Value)
      BY <1>1, <2>2
    <3> QED BY <2>2, <3>1, <3>2
  <2> QED BY <2>1, <2>2
<1>3. Apply(x, m) = [x EXCEPT ![m.node] = y]
  <2>1. CASE m.type = "mount"
    BY <2>1 DEF Apply
  <2>2. CASE m.type = "update"
    BY <2>2 DEF Apply
  <2>3. CASE m.type \notin {"mount", "update"}
    BY <2>3 DEF Apply
  <2> QED BY <2>1, <2>2, <2>3
<1>4. Apply(x, m)[m.node] = y
  BY <1>3 DEF Nodes
<1> HIDE DEF y
<1>5. Apply(x, m) \in Nodes /\ \A n \in Node \ {m.node} : Apply(x, m)[n] = x[n]
  BY <1>2, <1>3 DEF Nodes
<1> QED BY <1>4, <1>5 DEF y

LEMMA EmptyTyped == Empty \in Nodes
<1>1. <<>> \in Seq(Value)
  OBVIOUS
<1> QED BY <1>1 DEF Empty, Nodes

(* Well formed messages make well formed nodes.                                 *)
LEMMA RunTyped ==
  ASSUME NEW t \in Seq(Kept), NEW k \in 0..Len(t), NEW g, IsRun(g, t, k), g[k] \in Nodes
  PROVE  \A i \in k..Len(t) : g[i] \in Nodes
<1> DEFINE T == {i \in Nat : k + i <= Len(t) => g[k + i] \in Nodes}
<1>0. Len(t) \in Nat /\ k \in Nat /\ k + 0 = k
  OBVIOUS
<1>1. 0 \in T
  BY <1>0
<1>2. ASSUME NEW i \in T PROVE i + 1 \in T
  <2> SUFFICES ASSUME k + (i + 1) <= Len(t) PROVE g[k + (i + 1)] \in Nodes
    OBVIOUS
  <2>1. /\ k + i \in k .. Len(t) - 1 /\ g[k + i] \in Nodes
        /\ k + i + 1 \in 1 .. Len(t) /\ k + (i + 1) = k + i + 1
    BY <1>0
  <2>2. g[k + i + 1] = Apply(g[k + i], t[k + i + 1])
    BY <2>1 DEF IsRun
  <2>3. t[k + i + 1] \in Kept
    BY <2>1
  <2>4. t[k + i + 1].node \in Node /\ t[k + i + 1].value \in Value
    BY <2>3 DEF Kept
  <2>5. Apply(g[k + i], t[k + i + 1]) \in Nodes
    BY <2>1, <2>4, ApplyTyped
  <2> QED BY <2>1, <2>2, <2>5
<1> HIDE DEF T
<1>3. T = Nat
  <2>1. T \in SUBSET Nat
    BY DEF T
  <2> QED BY <1>1, <1>2, <2>1, Inductive
<1>4. ASSUME NEW i \in k..Len(t) PROVE g[i] \in Nodes
  <2>1. i - k \in T /\ k + (i - k) = i /\ i <= Len(t)
    BY <1>0, <1>3
  <2> QED BY <2>1 DEF T
<1> QED BY <1>4

LEMMA ShowsTyped ==
  ASSUME NEW t \in Seq(Kept)
  PROVE  Shows(t) \in Nodes
<1>1. PICK g : IsRun(g, t, 0) /\ g[0] = Empty /\ g[Len(t)] = Shows(t)
  BY FoldIsRun DEF Shows
<1>2. 0 \in 0..Len(t) /\ Len(t) \in 0..Len(t)
  OBVIOUS
<1> QED BY <1>1, <1>2, RunTyped, EmptyTyped

(* The array that pruneWindowState() builds, message by message.                *)
IsPruning(f, n, msgs, k) ==
    f = [i \in 0..k |-> IF i = 0 THEN <<>>
                        ELSE IF msgs[i].node # n THEN Append(f[i - 1], msgs[i])
                        ELSE f[i - 1]]

LEMMA PruningExists ==
  ASSUME NEW msgs, NEW n, NEW k \in Nat
  PROVE  \E f : IsPruning(f, n, msgs, k)
<1> DEFINE T == {j \in Nat : \E f : IsPruning(f, n, msgs, j)}
<1>1. 0 \in T
  <2> DEFINE f == [i \in 0..0 |-> <<>>]
  <2>1. f = [i \in 0..0 |-> IF i = 0 THEN <<>>
                        ELSE IF msgs[i].node # n THEN Append(f[i - 1], msgs[i])
                        ELSE f[i - 1]]
    OBVIOUS
  <2> HIDE DEF f
  <2>2. IsPruning(f, n, msgs, 0)
    BY <2>1 DEF IsPruning
  <2> QED BY <2>2
<1>2. ASSUME NEW j \in T PROVE j + 1 \in T
  <2>1. PICK f : IsPruning(f, n, msgs, j)
    BY <1>2
  <2> DEFINE next == [i \in 0..j + 1 |->
                        IF i # j + 1 THEN f[i]
                        ELSE IF msgs[j + 1].node # n THEN Append(f[j], msgs[j + 1])
                        ELSE f[j]]
  <2>2. ASSUME NEW i \in 0..j + 1
        PROVE  next[i] = IF i = 0 THEN <<>>
                         ELSE IF msgs[i].node # n THEN Append(next[i - 1], msgs[i])
                         ELSE next[i - 1]
    <3>1. CASE i = j + 1
      <4>1. i # 0 /\ i - 1 = j /\ j \in 0..j + 1 /\ j # j + 1
        BY <3>1
      <4>2. next[j] = f[j]
        BY <4>1
      <4> QED BY <3>1, <4>1, <4>2
    <3>2. CASE i # j + 1
      <4>1. i \in 0..j /\ next[i] = f[i]
        BY <3>2
      <4>2. f[i] = IF i = 0 THEN <<>>
                   ELSE IF msgs[i].node # n THEN Append(f[i - 1], msgs[i])
                   ELSE f[i - 1]
        BY <2>1, <4>1 DEF IsPruning
      <4>3. i # 0 => next[i - 1] = f[i - 1]
        <5>1. i # 0 => i - 1 \in 0..j + 1 /\ i - 1 # j + 1
          BY <4>1
        <5> QED BY <5>1
      <4> QED BY <4>1, <4>2, <4>3
    <3> QED BY <3>1, <3>2
  <2>3. next = [i \in 0..j + 1 |-> next[i]]
    OBVIOUS
  <2> HIDE DEF next
  <2>4. IsPruning(next, n, msgs, j + 1)
    <3> DEFINE D == 0..j + 1
    <3>1. next = [i \in D |-> next[i]] /\ \A i \in D :
             next[i] = IF i = 0 THEN <<>>
                       ELSE IF msgs[i].node # n THEN Append(next[i - 1], msgs[i])
                       ELSE next[i - 1]
      BY <2>2, <2>3
    <3> HIDE DEF D
    <3>2. next = [i \in D |-> IF i = 0 THEN <<>>
                       ELSE IF msgs[i].node # n THEN Append(next[i - 1], msgs[i])
                       ELSE next[i - 1]]
      BY <3>1
    <3> QED BY <3>2 DEF IsPruning, D
  <2> QED BY <2>4
<1> HIDE DEF T
<1>3. T = Nat
  <2>1. T \in SUBSET Nat
    BY DEF T
  <2> QED BY <1>1, <1>2, <2>1, Inductive
<1> QED BY <1>3 DEF T

(* What is kept of a window when a node goes makes the same but for that node. *)
LEMMA ShowsPruned ==
  ASSUME NEW t \in Seq(Kept), NEW n \in Node
  PROVE  /\ NotAbout(n, t) \in Seq(Kept)
         /\ Shows(NotAbout(n, t)) = [Shows(t) EXCEPT ![n] = <<>>]
<1>0. Len(t) \in Nat /\ Len(t) \in 0..Len(t) /\ 0 \in 0..Len(t)
  OBVIOUS
<1> DEFINE f == CHOOSE f : IsPruning(f, n, t, Len(t))
<1>1. IsPruning(f, n, t, Len(t))
  BY <1>0, PruningExists
<1>2. NotAbout(n, t) = f[Len(t)]
  BY DEF NotAbout, IsPruning
<1> HIDE DEF f
<1>3. PICK g : IsRun(g, t, 0) /\ g[0] = Empty /\ g[Len(t)] = Shows(t)
  BY FoldIsRun DEF Shows
<1>4. \A i \in 0..Len(t) : g[i] \in Nodes
  BY <1>0, <1>3, RunTyped, EmptyTyped
<1> DEFINE Good(i) == /\ f[i] \in Seq(Kept)
                      /\ Shows(f[i]) = [g[i] EXCEPT ![n] = <<>>]
           T == {i \in Nat : i <= Len(t) => Good(i)}
<1>5. 0 \in T
  <2>1. f[0] = <<>>
    BY <1>0, <1>1 DEF IsPruning
  <2>2. [Empty EXCEPT ![n] = <<>>] = Empty
    BY DEF Empty
  <2>3. <<>> \in Seq(Kept)
    OBVIOUS
  <2> QED BY <1>3, <2>1, <2>2, <2>3, ShowsNothing
<1>6. ASSUME NEW i \in T PROVE i + 1 \in T
  <2> SUFFICES ASSUME i + 1 <= Len(t) PROVE Good(i + 1)
    OBVIOUS
  <2>1. /\ i \in 0..Len(t) - 1 /\ i + 1 \in 0..Len(t) /\ i + 1 # 0 /\ i + 1 - 1 = i
        /\ i \in 0..Len(t) /\ i + 1 \in 1..Len(t)
    BY <1>0
  <2>2. Good(i)
    BY <2>1
  <2> DEFINE m == t[i + 1]
  <2>3. m \in Kept
    BY <2>1
  <2>4. m.node \in Node /\ m.value \in Value
    BY <2>3 DEF Kept
  <2>5. g[i + 1] = Apply(g[i], m) /\ g[i] \in Nodes
    BY <1>3, <1>4, <2>1 DEF IsRun
  <2>6. f[i + 1] = IF m.node # n THEN Append(f[i], m) ELSE f[i]
    <3>1. \A j \in 0..Len(t) : f[j] = IF j = 0 THEN <<>>
                     ELSE IF t[j].node # n THEN Append(f[j - 1], t[j])
                     ELSE f[j - 1]
      BY <1>1 DEF IsPruning
    <3> QED BY <2>1, <3>1
  <2> HIDE DEF m
  <2> DEFINE cut == [g[i] EXCEPT ![n] = <<>>]
  <2>7. g[i + 1] \in Nodes /\ \A o \in Node \ {m.node} : g[i + 1][o] = g[i][o]
    <3>1. Apply(g[i], m) \in Nodes /\ \A o \in Node \ {m.node} : Apply(g[i], m)[o] = g[i][o]
      BY <2>4, <2>5, ApplyTyped
    <3> QED BY <2>5, <3>1
  <2>8. CASE m.node = n
    <3>1. [g[i + 1] EXCEPT ![n] = <<>>] = cut
      BY <2>5, <2>7, <2>8 DEF Nodes
    <3> QED BY <2>2, <2>6, <2>8, <3>1
  <2>9. CASE m.node # n
    <3>1. f[i + 1] = Append(f[i], m)
      BY <2>6, <2>9
    <3>2. f[i + 1] \in Seq(Kept) /\ Shows(f[i + 1]) = Apply(cut, m)
      BY <2>2, <2>3, <3>1, ShowsAppend
    <3>3. cut \in Nodes /\ cut[m.node] = g[i][m.node] /\ cut[n] = <<>>
          /\ \A o \in Node \ {n} : cut[o] = g[i][o]
      <4>1. <<>> \in Seq(Value)
        OBVIOUS
      <4> QED BY <2>4, <2>5, <2>9, <4>1 DEF Nodes
    <3> HIDE DEF cut
    <3>4. Apply(cut, m) \in Nodes /\ \A o \in Node \ {m.node} : Apply(cut, m)[o] = cut[o]
      BY <2>4, <3>3, ApplyTyped
    <3>5. Apply(cut, m)[m.node] = g[i + 1][m.node]
      <4>1. DOMAIN cut = Node /\ DOMAIN g[i] = Node
        BY <2>5, <3>3 DEF Nodes
      <4> QED BY <2>4, <2>5, <3>3, <4>1 DEF Apply
    <3>6. Apply(cut, m) = [g[i + 1] EXCEPT ![n] = <<>>]
      <4>1. g[i + 1] \in [Node -> Seq(Value)] /\ Apply(cut, m) \in [Node -> Seq(Value)]
        BY <2>7, <3>4 DEF Nodes
      <4>2. \A o \in Node \ {n} : Apply(cut, m)[o] = g[i + 1][o]
        BY <2>7, <3>3, <3>4, <3>5
      <4>3. Apply(cut, m)[n] = <<>>
        BY <2>9, <3>3, <3>4
      <4> QED BY <4>1, <4>2, <4>3
    <3> QED BY <3>2, <3>6
  <2> QED BY <2>8, <2>9
<1> HIDE DEF T
<1>7. T = Nat
  <2>1. T \in SUBSET Nat
    BY DEF T
  <2> QED BY <1>5, <1>6, <2>1, Inductive
<1>8. Good(Len(t))
  BY <1>0, <1>7 DEF T
<1> QED BY <1>2, <1>3, <1>8

(* The messages of t can be applied from any of them on.                        *)
HasRun(t, k, x) == \E g : IsRun(g, t, k) /\ g[k] = x

LEMMA RunExists ==
  ASSUME NEW t, Len(t) \in Nat, NEW k \in 0..Len(t), NEW x
  PROVE  HasRun(t, k, x)
<1> DEFINE Begun(g, j) == /\ g = [i \in k..k + j |-> g[i]] /\ g[k] = x
                          /\ \A i \in k..k + j - 1 : g[i + 1] = Apply(g[i], t[i + 1])
           T == {j \in Nat : \E g : Begun(g, j)}
<1>1. 0 \in T
  <2> DEFINE g == [i \in k..k + 0 |-> x]
  <2>1. Begun(g, 0)
    OBVIOUS
  <2> QED BY <2>1
<1>2. ASSUME NEW j \in T PROVE j + 1 \in T
  <2>1. PICK g : Begun(g, j)
    BY <1>2
  <2> DEFINE h == [i \in k..k + (j + 1) |-> IF i = k + (j + 1) THEN Apply(g[k + j], t[i]) ELSE g[i]]
  <2>2. h[k] = x
    BY <2>1
  <2>3. ASSUME NEW i \in k..k + (j + 1) - 1 PROVE h[i + 1] = Apply(h[i], t[i + 1])
    <3>1. h[i] = g[i] /\ i + 1 \in k..k + (j + 1)
      OBVIOUS
    <3>2. CASE i = k + j
      <4>1. h[i + 1] = Apply(g[k + j], t[i + 1])
        BY <3>1, <3>2
      <4> QED BY <3>1, <3>2, <4>1
    <3>3. CASE i # k + j
      <4>1. i \in k..k + j - 1 /\ i + 1 # k + (j + 1)
        BY <3>3
      <4>2. h[i + 1] = g[i + 1]
        BY <3>1, <4>1
      <4> QED BY <2>1, <3>1, <4>1, <4>2
    <3> QED BY <3>2, <3>3
  <2>4. h = [i \in k..k + (j + 1) |-> h[i]]
    OBVIOUS
  <2> HIDE DEF h
  <2>5. Begun(h, j + 1)
    BY <2>2, <2>3, <2>4
  <2>6. j + 1 \in Nat
    OBVIOUS
  <2> HIDE DEF Begun
  <2> QED BY <2>5, <2>6
<1>3. T = Nat
  <2>1. T \in SUBSET Nat
    BY DEF T
  <2> HIDE DEF T
  <2> QED BY <1>1, <1>2, <2>1, Inductive
<1> DEFINE d == Len(t) - k
<1>4. d \in Nat /\ k + d = Len(t)
  OBVIOUS
<1> HIDE DEF d
<1>5. PICK g : Begun(g, d)
  BY <1>3, <1>4
<1>6. IsRun(g, t, k) /\ g[k] = x
  <2>1. g = [i \in k..Len(t) |-> g[i]] /\ g[k] = x
    BY <1>4, <1>5, Zenon
  <2>2. \A i \in k..k + d - 1 : g[i + 1] = Apply(g[i], t[i + 1])
    BY <1>5
  <2>3. \A i \in k..Len(t) - 1 : g[i + 1] = Apply(g[i], t[i + 1])
    BY <1>4, <2>2
  <2> QED BY <2>1, <2>3 DEF IsRun
<1> QED BY <1>6 DEF HasRun

(* The messages of t after the first k make y of x. *)
Makes(x, t, k, y) == \E g : IsRun(g, t, k) /\ g[k] = x /\ g[Len(t)] = y

(* A replay begins with nothing, has nothing left at the end, and sends one     *)
(* message at a time.                                                           *)
LEMMA MakesAll ==
  ASSUME NEW S, NEW t \in Seq(S)
  PROVE  Makes(Empty, t, 0, Shows(t))
BY FoldIsRun DEF Makes, Shows

LEMMA MakesNothing ==
  ASSUME NEW t, NEW x, NEW y, Makes(x, t, Len(t), y)
  PROVE  x = y
BY DEF Makes

LEMMA MakesStep ==
  ASSUME NEW t, NEW x, NEW y, NEW k \in Nat, Len(t) \in Nat, k < Len(t), Makes(x, t, k, y)
  PROVE  Makes(Apply(x, t[k + 1]), t, k + 1, y)
<1>1. PICK g : IsRun(g, t, k) /\ g[k] = x /\ g[Len(t)] = y
  BY DEF Makes
<1> DEFINE h == [i \in k + 1..Len(t) |-> g[i]]
<1>2. k \in k..Len(t) - 1 /\ k + 1 \in k + 1..Len(t) /\ Len(t) \in k + 1..Len(t)
  OBVIOUS
<1>3. h[k + 1] = Apply(x, t[k + 1]) /\ h[Len(t)] = y
  BY <1>1, <1>2 DEF IsRun
<1>4. ASSUME NEW i \in k + 1..Len(t) - 1 PROVE h[i + 1] = Apply(h[i], t[i + 1])
  <2>1. i \in k..Len(t) - 1 /\ i \in k + 1..Len(t) /\ i + 1 \in k + 1..Len(t)
    OBVIOUS
  <2>2. g[i + 1] = Apply(g[i], t[i + 1])
    BY <1>1, <2>1 DEF IsRun
  <2> QED BY <2>1, <2>2
<1>5. h = [i \in k + 1..Len(t) |-> h[i]]
  OBVIOUS
<1> HIDE DEF h
<1> QED BY <1>3, <1>4, <1>5 DEF IsRun, Makes

(* Alike but for the value of the first copy of a node. *)
Like(a, b, n) ==
    /\ a \in Nodes /\ b \in Nodes
    /\ \A o \in Node \ {n} : a[o] = b[o]
    /\ Len(a[n]) = Len(b[n]) /\ \A i \in 2..Len(a[n]) : a[n][i] = b[n][i]

(* An update makes no difference that the same update does not undo, whatever   *)
(* is mounted or updated in between.                                            *)
LEMMA UpdatedIsLike ==
  ASSUME NEW a \in Nodes, NEW m \in Kept, m.type = "update"
  PROVE  Like(Apply(a, m), a, m.node)
<1>1. m.node \in Node /\ m.value \in Value
  BY DEF Kept
<1>2. /\ Apply(a, m) \in Nodes /\ \A o \in Node \ {m.node} : Apply(a, m)[o] = a[o]
      /\ a[m.node] = <<>> => Apply(a, m)[m.node] = <<>>
      /\ a[m.node] # <<>> => Apply(a, m)[m.node] = [a[m.node] EXCEPT ![1] = m.value]
  BY <1>1, ApplyTyped
<1>3. a[m.node] \in Seq(Value)
  BY <1>1 DEF Nodes
<1>4. CASE a[m.node] = <<>>
  BY <1>2, <1>4 DEF Like
<1>5. CASE a[m.node] # <<>>
  <2>1. /\ Len([a[m.node] EXCEPT ![1] = m.value]) = Len(a[m.node])
        /\ \A i \in 2..Len(a[m.node]) : [a[m.node] EXCEPT ![1] = m.value][i] = a[m.node][i]
    BY <1>1, <1>3
  <2> QED BY <1>2, <1>5, <2>1 DEF Like
<1> QED BY <1>4, <1>5

LEMMA LikeUpdated ==
  ASSUME NEW a, NEW b, NEW m \in Kept, m.type = "update", Like(a, b, m.node)
  PROVE  Apply(a, m) = Apply(b, m)
<1>1. m.node \in Node /\ m.value \in Value /\ a \in Nodes /\ b \in Nodes
  BY DEF Kept, Like
<1>2. /\ Apply(a, m) \in Nodes /\ \A o \in Node \ {m.node} : Apply(a, m)[o] = a[o]
      /\ a[m.node] = <<>> => Apply(a, m)[m.node] = <<>>
      /\ a[m.node] # <<>> => Apply(a, m)[m.node] = [a[m.node] EXCEPT ![1] = m.value]
  BY <1>1, ApplyTyped
<1>3. /\ Apply(b, m) \in Nodes /\ \A o \in Node \ {m.node} : Apply(b, m)[o] = b[o]
      /\ b[m.node] = <<>> => Apply(b, m)[m.node] = <<>>
      /\ b[m.node] # <<>> => Apply(b, m)[m.node] = [b[m.node] EXCEPT ![1] = m.value]
  BY <1>1, ApplyTyped
<1>4. /\ a[m.node] \in Seq(Value) /\ b[m.node] \in Seq(Value)
      /\ \A o \in Node \ {m.node} : a[o] = b[o]
      /\ Len(a[m.node]) = Len(b[m.node])
      /\ \A i \in 2..Len(a[m.node]) : a[m.node][i] = b[m.node][i]
  BY <1>1 DEF Nodes, Like
<1>5. Apply(a, m)[m.node] = Apply(b, m)[m.node]
  <2>1. CASE a[m.node] = <<>>
    <3>1. b[m.node] = <<>>
      BY <1>4, <2>1
    <3> QED BY <1>2, <1>3, <2>1, <3>1
  <2>2. CASE a[m.node] # <<>>
    <3>1. b[m.node] # <<>>
      BY <1>4, <2>2
    <3>2. [a[m.node] EXCEPT ![1] = m.value] = [b[m.node] EXCEPT ![1] = m.value]
      <4> DEFINE s == a[m.node]
                 z == b[m.node]
      <4>1. /\ s \in Seq(Value) /\ z \in Seq(Value) /\ Len(s) = Len(z)
            /\ \A i \in 2..Len(s) : s[i] = z[i]
        BY <1>4
      <4> HIDE DEF s, z
      <4>2. DOMAIN s = 1..Len(s) /\ DOMAIN z = 1..Len(s) /\ Len(s) \in Nat
        BY <4>1
      <4>3. \A i \in 1..Len(s) : i = 1 \/ i \in 2..Len(s)
        BY <4>2
      <4>4. [s EXCEPT ![1] = m.value] = [z EXCEPT ![1] = m.value]
        BY <4>1, <4>2, <4>3
      <4> QED BY <4>4 DEF s, z
    <3> QED BY <1>2, <1>3, <2>2, <3>1, <3>2
  <2> QED BY <2>1, <2>2
<1>6. \A o \in Node : Apply(a, m)[o] = Apply(b, m)[o]
  BY <1>2, <1>3, <1>4, <1>5
<1>7. Apply(a, m) \in [Node -> Seq(Value)] /\ Apply(b, m) \in [Node -> Seq(Value)]
  BY <1>2, <1>3 DEF Nodes
<1> QED BY <1>6, <1>7

LEMMA LikeApplied ==
  ASSUME NEW a, NEW b, NEW n \in Node, Like(a, b, n), NEW m \in Kept
  PROVE  Like(Apply(a, m), Apply(b, m), n)
<1>1. m.node \in Node /\ m.value \in Value /\ a \in Nodes /\ b \in Nodes
      /\ m.type \in {"mount", "update"}
  BY DEF Kept, Like
<1>2. /\ Apply(a, m) \in Nodes /\ \A o \in Node \ {m.node} : Apply(a, m)[o] = a[o]
      /\ m.type = "mount" => Apply(a, m)[m.node] = Append(a[m.node], m.value)
      /\ m.type = "update" => /\ a[m.node] = <<>> => Apply(a, m)[m.node] = <<>>
                              /\ a[m.node] # <<>> => Apply(a, m)[m.node] =
                                                      [a[m.node] EXCEPT ![1] = m.value]
  BY <1>1, ApplyTyped
<1>3. /\ Apply(b, m) \in Nodes /\ \A o \in Node \ {m.node} : Apply(b, m)[o] = b[o]
      /\ m.type = "mount" => Apply(b, m)[m.node] = Append(b[m.node], m.value)
      /\ m.type = "update" => /\ b[m.node] = <<>> => Apply(b, m)[m.node] = <<>>
                              /\ b[m.node] # <<>> => Apply(b, m)[m.node] =
                                                      [b[m.node] EXCEPT ![1] = m.value]
  BY <1>1, ApplyTyped
<1>4. /\ \A o \in Node \ {n} : a[o] = b[o]
      /\ Len(a[n]) = Len(b[n]) /\ \A i \in 2..Len(a[n]) : a[n][i] = b[n][i]
  BY DEF Like
<1>5. CASE m.node # n
  <2>1. Apply(a, m)[m.node] = Apply(b, m)[m.node]
    BY <1>1, <1>4, <1>5 DEF Apply, Nodes
  <2>2. Apply(a, m)[n] = a[n] /\ Apply(b, m)[n] = b[n]
    BY <1>2, <1>3, <1>5
  <2>3. \A o \in Node \ {n} : Apply(a, m)[o] = Apply(b, m)[o]
    BY <1>2, <1>3, <1>4, <2>1
  <2> QED BY <1>2, <1>3, <1>4, <2>2, <2>3 DEF Like
<1>6. CASE m.node = n
  <2>0. a[n] \in Seq(Value) /\ b[n] \in Seq(Value)
    BY <1>1 DEF Nodes
  <2>1. \A o \in Node \ {n} : Apply(a, m)[o] = Apply(b, m)[o]
    BY <1>2, <1>3, <1>4, <1>6
  <2>2. CASE m.type = "mount"
    <3>1. /\ Len(Append(a[n], m.value)) = Len(Append(b[n], m.value))
          /\ \A i \in 2..Len(Append(a[n], m.value)) :
               Append(a[n], m.value)[i] = Append(b[n], m.value)[i]
      BY <1>1, <1>4, <2>0
    <3> QED BY <1>2, <1>3, <1>6, <2>1, <2>2, <3>1, SMTT(30) DEF Like
  <2>3. CASE m.type = "update" /\ a[n] = <<>>
    <3>1. b[n] = <<>>
      BY <1>4, <2>0, <2>3
    <3> QED BY <1>2, <1>3, <1>6, <2>1, <2>3, <3>1 DEF Like
  <2>4. CASE m.type = "update" /\ a[n] # <<>>
    <3>1. b[n] # <<>>
      BY <1>4, <2>0, <2>4
    <3>2. [a[n] EXCEPT ![1] = m.value] = [b[n] EXCEPT ![1] = m.value]
      BY <1>4, <2>0
    <3>3. Apply(a, m)[n] = Apply(b, m)[n]
      BY <1>2, <1>3, <1>6, <2>4, <3>1, <3>2
    <3> QED BY <1>2, <1>3, <2>1, <3>3 DEF Like
  <2> QED BY <1>1, <2>2, <2>3, <2>4
<1> QED BY <1>5, <1>6

(* An update that arrives before messages that are older makes no difference in *)
(* the end, for it comes again at its place.                                    *)
LEMMA MakesUpdate ==
  ASSUME NEW t \in Seq(Kept), NEW x \in Nodes, NEW y, NEW k \in 0..Len(t),
         NEW m \in Kept, m.type = "update", Makes(x, t, k, y)
  PROVE  Makes(Apply(x, m), Append(t, m), k, Apply(y, m))
<1> DEFINE u == Append(t, m)
<1>0. /\ Len(t) \in Nat /\ Len(u) \in Nat /\ Len(u) = Len(t) + 1 /\ k \in 0..Len(u) /\ u[Len(t) + 1] = m
      /\ \A i \in 1..Len(t) : u[i] = t[i]
  OBVIOUS
<1> HIDE DEF u
<1>1. PICK g : IsRun(g, t, k) /\ g[k] = x /\ g[Len(t)] = y
  BY DEF Makes
<1>2. PICK h : IsRun(h, u, k) /\ h[k] = Apply(x, m)
  <2>1. Len(u) \in Nat /\ k \in 0..Len(u)
    BY <1>0
  <2>2. HasRun(u, k, Apply(x, m))
    BY <2>1, RunExists
  <2> QED BY <2>2 DEF HasRun
<1> DEFINE T == {i \in Nat : k + i <= Len(t) => Like(h[k + i], g[k + i], m.node)}
<1>3. m.node \in Node
  BY DEF Kept
<1>4. 0 \in T
  <2>1. k + 0 = k
    OBVIOUS
  <2> QED BY <1>1, <1>2, <2>1, UpdatedIsLike
<1>5. ASSUME NEW i \in T PROVE i + 1 \in T
  <2> SUFFICES ASSUME k + (i + 1) <= Len(t) PROVE Like(h[k + (i + 1)], g[k + (i + 1)], m.node)
    OBVIOUS
  <2>1. /\ k + i \in k..Len(t) - 1 /\ k + i \in k..Len(u) - 1 /\ k + (i + 1) = k + i + 1
        /\ k + i + 1 \in 1..Len(t)
    BY <1>0
  <2>2. Like(h[k + i], g[k + i], m.node)
    BY <2>1
  <2>3. /\ h[k + i + 1] = Apply(h[k + i], u[k + i + 1])
        /\ g[k + i + 1] = Apply(g[k + i], t[k + i + 1])
    BY <1>1, <1>2, <2>1 DEF IsRun
  <2>4. t[k + i + 1] \in Kept /\ u[k + i + 1] = t[k + i + 1]
    BY <1>0, <2>1
  <2>5. Like(Apply(h[k + i], t[k + i + 1]), Apply(g[k + i], t[k + i + 1]), m.node)
    BY <1>3, <2>2, <2>4, LikeApplied
  <2> QED BY <2>1, <2>3, <2>4, <2>5
<1> HIDE DEF T
<1>6. T = Nat
  <2>1. T \in SUBSET Nat
    BY DEF T
  <2> QED BY <1>4, <1>5, <2>1, Inductive
<1>7. Like(h[Len(t)], y, m.node)
  <2>1. Len(t) - k \in T /\ k + (Len(t) - k) = Len(t)
    BY <1>0, <1>6
  <2> QED BY <1>0, <1>1, <2>1 DEF T
<1>8. h[Len(t) + 1] = Apply(h[Len(t)], m)
  <2>1. Len(t) \in k..Len(u) - 1
    BY <1>0
  <2> QED BY <1>0, <1>2, <2>1 DEF IsRun
<1>9. h[Len(u)] = Apply(y, m)
  BY <1>0, <1>7, <1>8, LikeUpdated
<1> QED BY <1>2, <1>9 DEF Makes, u

-----------------------------------------------------------------------------
(* Types                                                                        *)

(* Types.  What is on its way and what is kept is well formed. *)
SentEvent ==
    [type : {"create", "destroy"}, wid : Window, node : {"none"}, value : {0}]
    \union [type : {"mount", "update", "unmount"}, wid : Window, node : Node, value : Value]
    \union [type : {"connect"}, client : Client]
Replay == [seen : SUBSET Window, at : Window \union {NoWindow}, sent : Nat, live : BOOLEAN,
           old : Seq(Kept), on : BOOLEAN]

LibTyped ==
    /\ app \in [Window -> {"new", "up", "closing", "closed", "gone"}]
    /\ ops \in [Window -> 0..MaxOps]
    /\ mounted \in [Window -> SUBSET Node]
    /\ wanted \in [Window -> [Node -> Value]]
    /\ dirty \in [Window -> [Node -> Value \union {Unset}]]
    /\ \A w \in Window : IsFiniteSet(Dirty(w))
    /\ batched \in [Window -> BOOLEAN]
    /\ timers \in [Window -> Nat]
    /\ flushes \in [Window -> Seq(Flush)]
KernelTyped ==
    /\ registry \subseteq Window /\ signalled \subseteq Window
    /\ toDome \in Seq(SentEvent)
DomeTyped ==
    /\ windows \subseteq Window
    /\ states \in [Window -> Seq(Kept)]
    /\ replay \in [Client -> Replay]
    /\ raced \subseteq Client \X Window
BrowserTyped ==
    /\ conn \in [Client -> {"no", "up", "gone"}]
    /\ shown \in [Client -> [Window -> Nodes \union {Absent}]]
    /\ asked \subseteq Window
WinTyped == LibTyped /\ KernelTyped /\ DomeTyped /\ BrowserTyped

(* SetToSeq, of a finite set. *)
LEMMA SeqOfSet ==
  ASSUME NEW S, IsFiniteSet(S)
  PROVE  SetToSeq(S) \in Seq(S) /\ (S # {} => Len(SetToSeq(S)) > 0)
<1>1. Cardinality(S) \in Nat /\ ExistsBijection(1..Cardinality(S), S)
  BY FS_CardinalityType
<1>2. PICK f \in [1..Cardinality(S) -> S] : IsInjective(f)
  BY <1>1 DEF ExistsBijection, Bijection, Injection
<1>3. SetToSeq(S) \in [1..Cardinality(S) -> S]
  BY <1>2 DEF SetToSeq
<1>4. SetToSeq(S) \in Seq(S) /\ Len(SetToSeq(S)) = Cardinality(S)
  BY <1>1, <1>3
<1>5. S # {} => Cardinality(S) # 0
  BY FS_EmptySet
<1> QED BY <1>1, <1>4, <1>5

(* The messages of flushNow() are about nodes and values.                       *)
LEMMA DirtyMessages ==
  ASSUME LibTyped, NEW w \in Window, NEW all,
         all = SetToSeq({<<n, dirty[w][n]>> : n \in Dirty(w)})
  PROVE  /\ all \in Seq(Node \X Value)
         /\ Dirty(w) # {} => all[1] \in Node \X Value /\ Tail(all) \in Seq(Node \X Value)
<1> DEFINE D == {<<n, dirty[w][n]>> : n \in Dirty(w)}
           f == [n \in Dirty(w) |-> <<n, dirty[w][n]>>]
<1>1. \A n \in Dirty(w) : n \in Node /\ dirty[w][n] \in Value
  BY DEF LibTyped, Dirty
<1>2. D \subseteq Node \X Value
  BY <1>1
<1>3. IsFiniteSet(D)
  <2>1. f \in Surjection(Dirty(w), D)
    BY DEF Surjection
  <2> HIDE DEF f, D
  <2>2. IsFiniteSet(Dirty(w))
    BY DEF LibTyped
  <2> QED BY <2>1, <2>2, FS_Surjection
<1>4. Dirty(w) # {} => D # {}
  OBVIOUS
<1> HIDE DEF D
<1>5. all \in Seq(D) /\ (D # {} => Len(all) > 0)
  BY <1>3, SeqOfSet DEF D
<1>6. all \in Seq(Node \X Value)
  BY <1>2, <1>5
<1> QED BY <1>4, <1>5, <1>6

LEMMA GuiReqTyped ==
  ASSUME KernelTyped, NEW w \in Window, NEW t, NEW n, NEW v, GuiReq(t, w, n, v),
         (t = "destroy" /\ n = "none" /\ v = 0) \/
           (t \in {"mount", "update", "unmount"} /\ n \in Node /\ v \in Value)
  PROVE  KernelTyped'
<1> DEFINE e == [type |-> t, wid |-> w, node |-> n, value |-> v]
<1>1. e \in SentEvent
  <2>1. CASE t = "destroy" /\ n = "none" /\ v = 0
    BY <2>1 DEF SentEvent
  <2>2. CASE t \in {"mount", "update", "unmount"} /\ n \in Node /\ v \in Value
    BY <2>2 DEF SentEvent
  <2> QED BY <2>1, <2>2
<1>2. toDome' = toDome \/ toDome' = Append(toDome, e)
  BY DEF GuiReq
<1> HIDE DEF e
<1>3. toDome' \in Seq(SentEvent)
  BY <1>1, <1>2 DEF KernelTyped
<1>4. registry' \subseteq Window /\ signalled' \subseteq Window
  BY DEF GuiReq, KernelTyped
<1> QED BY <1>3, <1>4 DEF KernelTyped

(* What a browser shows stays well formed. *)
LEMMA OnNodeTyped ==
  ASSUME NEW x \in Nodes \union {Absent}, NEW m, m.node \in Node, m.value \in Value
  PROVE  OnNode(x, m) \in Nodes \union {Absent}
<1>1. CASE x = Absent
  BY <1>1 DEF OnNode
<1>2. CASE x # Absent
  <2>1. Apply(x, m) \in Nodes
    BY <1>2, ApplyTyped
  <2> QED BY <1>2, <2>1 DEF OnNode
<1> QED BY <1>1, <1>2

LEMMA BroadcastTyped ==
  ASSUME BrowserTyped, NEW w \in Window, NEW m, Broadcast(w, m),
         m.type \in {"create", "destroy"} \/ (m.node \in Node /\ m.value \in Value)
  PROVE  shown' \in [Client -> [Window -> Nodes \union {Absent}]]
<1>1. ASSUME NEW c \in Client
      PROVE  Handled(shown[c][w], m) \in Nodes \union {Absent}
  <2>1. shown[c][w] \in Nodes \union {Absent}
    BY DEF BrowserTyped
  <2>2. CASE m.type = "create"
    BY <2>2, EmptyTyped DEF Handled
  <2>3. CASE m.type = "destroy"
    BY <2>3 DEF Handled
  <2>4. CASE m.type \notin {"create", "destroy"}
    <3>1. OnNode(shown[c][w], m) \in Nodes \union {Absent}
      BY <2>1, <2>4, OnNodeTyped
    <3> QED BY <2>4, <3>1 DEF Handled
  <2> QED BY <2>2, <2>3, <2>4
<1>2. ASSUME NEW c \in Client
      PROVE  (IF conn[c] = "up" THEN [shown[c] EXCEPT ![w] = Handled(@, m)] ELSE shown[c])
                \in [Window -> Nodes \union {Absent}]
  <2>1. shown[c] \in [Window -> Nodes \union {Absent}]
    BY DEF BrowserTyped
  <2> QED BY <1>1, <2>1
<1> QED BY <1>2 DEF Broadcast

LEMMA SendToTyped ==
  ASSUME BrowserTyped, NEW c \in Client, NEW w \in Window, NEW x \in Nodes \union {Absent},
         SendTo(c, w, x)
  PROVE  shown' \in [Client -> [Window -> Nodes \union {Absent}]]
BY DEF BrowserTyped, SendTo

(* The steps of an application. *)
LEMMA FlushNowTyped ==
  ASSUME WinTyped, NEW w \in Window, NEW why \in {"timer", "flush", "close"},
         FlushNow(w, why), Dirty(w) # {}
  PROVE  KernelTyped' /\ flushes' \in [Window -> Seq(Flush)]
<1> DEFINE all == SetToSeq({<<n, dirty[w][n]>> : n \in Dirty(w)})
<1>1. all[1] \in Node \X Value /\ Tail(all) \in Seq(Node \X Value)
  BY DirtyMessages DEF WinTyped
<1>2. /\ GuiReq("update", w, all[1][1], all[1][2])
      /\ flushes' = [flushes EXCEPT ![w] = Append(@, [rest |-> Tail(all), why |-> why])]
  BY DEF FlushNow
<1> HIDE DEF all
<1>3. KernelTyped'
  BY <1>1, <1>2, GuiReqTyped DEF WinTyped
<1>4. [rest |-> Tail(all), why |-> why] \in Flush
  BY <1>1 DEF Flush
<1>5. flushes' \in [Window -> Seq(Flush)]
  BY <1>2, <1>4 DEF WinTyped, LibTyped
<1> QED BY <1>3, <1>5

LEMMA CreateTyped ==
  ASSUME WinTyped, NEW w \in Window, CreateWindow(w)
  PROVE  WinTyped'
<1> DEFINE e == [type |-> "create", wid |-> w, node |-> "none", value |-> 0]
<1>1. e \in SentEvent
  BY DEF SentEvent
<1>2. /\ app' = [app EXCEPT ![w] = "up"] /\ registry' = registry \union {w}
      /\ toDome' = Append(toDome, e)
      /\ UNCHANGED <<ops, mounted, wanted, dirty, batched, timers, flushes, signalled,
                     windows, states, replay, raced, conn, shown, asked>>
  BY DEF CreateWindow, domeVars
<1> HIDE DEF e
<1>3. LibTyped'
  BY <1>2 DEF WinTyped, LibTyped, Dirty
<1>4. KernelTyped'
  BY <1>1, <1>2 DEF WinTyped, KernelTyped
<1> QED BY <1>2, <1>3, <1>4 DEF WinTyped, DomeTyped, BrowserTyped

(* What is dirty stays finite.                                                  *)
LEMMA DirtyKept ==
  ASSUME LibTyped, NEW w \in Window, NEW n \in Node, NEW v,
         dirty' = [dirty EXCEPT ![w][n] = v]
  PROVE  \A x \in Window : IsFiniteSet(Dirty(x)')
<1> SUFFICES ASSUME NEW x \in Window PROVE IsFiniteSet(Dirty(x)')
  OBVIOUS
<1>1. IsFiniteSet(Dirty(x)) /\ IsFiniteSet(Dirty(x) \union {n})
  BY FS_AddElement DEF LibTyped
<1>2. Dirty(x)' \subseteq Dirty(x) \union {n}
  <2> SUFFICES ASSUME NEW o \in Node, o # n, dirty'[x][o] # Unset PROVE dirty[x][o] # Unset
    BY DEF Dirty
  <2>1. dirty'[x][o] = dirty[x][o]
    BY DEF LibTyped
  <2> QED BY <2>1
<1> QED BY <1>1, <1>2, FS_Subset

LEMMA ChangeTyped ==
  ASSUME WinTyped, NEW w \in Window, NEW n \in Node,
         Mount(w, n) \/ Unmount(w, n) \/ UpdateProps(w, n)
  PROVE  WinTyped'
<1> USE WindowsAssumption
<1>1. ops' \in [Window -> 0..MaxOps] /\ ops'[w] \in Value /\ 0 \in Value
  <2>1. ops[w] < MaxOps /\ ops' = [ops EXCEPT ![w] = @ + 1]
    BY DEF Mount, Unmount, UpdateProps, Change
  <2>2. ops \in [Window -> 0..MaxOps]
    BY DEF WinTyped, LibTyped
  <2>3. ops[w] + 1 \in 0..MaxOps
    BY <2>1, <2>2
  <2>4. ops' \in [Window -> 0..MaxOps] /\ ops'[w] = ops[w] + 1
    BY <2>1, <2>2, <2>3
  <2> QED BY <2>3, <2>4 DEF Value
<1>2. UNCHANGED <<app, windows, states, replay, raced, conn, shown, asked>>
  BY DEF Mount, Unmount, UpdateProps, domeVars
<1>3. DomeTyped' /\ BrowserTyped'
  BY <1>2 DEF WinTyped, DomeTyped, BrowserTyped
<1>4. CASE Mount(w, n)
  <2>1. /\ mounted' = [mounted EXCEPT ![w] = @ \union {n}]
        /\ wanted' = [wanted EXCEPT ![w][n] = 0]
        /\ GuiReq("mount", w, n, 0) /\ UNCHANGED <<dirty, batched, timers, flushes>>
    BY <1>4 DEF Mount
  <2>2. KernelTyped'
    BY <1>1, <2>1, GuiReqTyped DEF WinTyped
  <2>3. LibTyped'
    BY <1>1, <1>2, <2>1 DEF WinTyped, LibTyped, Dirty
  <2> QED BY <1>3, <2>2, <2>3 DEF WinTyped
<1>5. CASE Unmount(w, n)
  <2>1. /\ mounted' = [mounted EXCEPT ![w] = @ \ {n}]
        /\ GuiReq("unmount", w, n, 0) /\ UNCHANGED <<wanted, dirty, batched, timers, flushes>>
    BY <1>5 DEF Unmount
  <2>2. KernelTyped'
    BY <1>1, <2>1, GuiReqTyped DEF WinTyped
  <2>3. LibTyped'
    BY <1>1, <1>2, <2>1 DEF WinTyped, LibTyped, Dirty
  <2> QED BY <1>3, <2>2, <2>3 DEF WinTyped
<1>6. CASE UpdateProps(w, n)
  <2>1. /\ wanted' = [wanted EXCEPT ![w][n] = ops'[w]]
        /\ dirty' = [dirty EXCEPT ![w][n] = ops'[w]]
        /\ batched' = [batched EXCEPT ![w] = TRUE]
        /\ timers' = IF batched[w] THEN timers ELSE [timers EXCEPT ![w] = @ + 1]
        /\ UNCHANGED <<mounted, flushes, registry, signalled, toDome>>
    BY <1>6 DEF UpdateProps
  <2>2. KernelTyped'
    BY <2>1 DEF WinTyped, KernelTyped
  <2>3. \A x \in Window : IsFiniteSet(Dirty(x)')
    BY <2>1, DirtyKept DEF WinTyped
  <2>4. timers' \in [Window -> Nat] /\ batched' \in [Window -> BOOLEAN]
    BY <2>1 DEF WinTyped, LibTyped
  <2>5. /\ wanted' \in [Window -> [Node -> Value]]
        /\ dirty' \in [Window -> [Node -> Value \union {Unset}]]
    BY <1>1, <2>1 DEF WinTyped, LibTyped
  <2>6. LibTyped'
    BY <1>1, <1>2, <2>1, <2>3, <2>4, <2>5 DEF WinTyped, LibTyped
  <2> QED BY <1>3, <2>2, <2>6 DEF WinTyped
<1> QED BY <1>4, <1>5, <1>6

LEMMA FlushTyped ==
  ASSUME WinTyped, NEW w \in Window,
         TimerFires(w) \/ FlushCalled(w) \/ CloseCalled(w) \/ FlushReply(w) \/ OwnerEnds(w)
  PROVE  WinTyped'
<1>1. UNCHANGED <<ops, mounted, wanted, windows, states, replay, raced, conn, shown, asked>>
  BY DEF TimerFires, FlushCalled, CloseCalled, FlushReply, OwnerEnds, domeVars
<1>2. DomeTyped' /\ BrowserTyped'
  BY <1>1 DEF WinTyped, DomeTyped, BrowserTyped
<1>3. ASSUME KernelTyped', flushes' \in [Window -> Seq(Flush)], timers' \in [Window -> Nat],
             app' \in [Window -> {"new", "up", "closing", "closed", "gone"}],
             UNCHANGED <<dirty, batched>>
      PROVE  WinTyped'
  BY <1>1, <1>2, <1>3 DEF WinTyped, LibTyped, Dirty
<1>4. /\ timers \in [Window -> Nat] /\ flushes \in [Window -> Seq(Flush)]
      /\ app \in [Window -> {"new", "up", "closing", "closed", "gone"}]
      /\ KernelTyped
  BY DEF WinTyped, LibTyped
<1>5. UNCHANGED <<toDome, registry, signalled>> => KernelTyped'
  BY <1>4 DEF KernelTyped
<1>6. CASE TimerFires(w)
  <2>1. timers' \in [Window -> Nat]
    BY <1>4, <1>6 DEF TimerFires
  <2>2. UNCHANGED <<app, dirty, batched>>
    BY <1>6 DEF TimerFires
  <2>3. CASE Dirty(w) = {}
    BY <1>3, <1>4, <1>5, <1>6, <2>1, <2>2, <2>3 DEF TimerFires
  <2>4. CASE Dirty(w) # {}
    <3>1. FlushNow(w, "timer")
      BY <1>6, <2>4 DEF TimerFires
    <3> QED BY <1>3, <1>4, <2>1, <2>2, <2>4, <3>1, FlushNowTyped
  <2> QED BY <2>3, <2>4
<1>7. CASE FlushCalled(w)
  <2>1. FlushNow(w, "flush") /\ Dirty(w) # {} /\ UNCHANGED <<app, dirty, batched, timers>>
    BY <1>7 DEF FlushCalled
  <2> QED BY <1>3, <1>4, <2>1, FlushNowTyped
<1>8. CASE CloseCalled(w)
  <2>1. UNCHANGED <<dirty, batched, timers>>
    BY <1>8 DEF CloseCalled
  <2>2. CASE Dirty(w) = {}
    <3>1. app' = [app EXCEPT ![w] = "closed"] /\ GuiReq("destroy", w, "none", 0) /\ UNCHANGED flushes
      BY <1>8, <2>2 DEF CloseCalled
    <3>2. KernelTyped'
      BY <1>4, <3>1, GuiReqTyped
    <3>3. app' \in [Window -> {"new", "up", "closing", "closed", "gone"}]
      BY <1>4, <3>1
    <3> QED BY <1>3, <1>4, <2>1, <3>1, <3>2, <3>3
  <2>3. CASE Dirty(w) # {}
    <3>1. app' = [app EXCEPT ![w] = "closing"] /\ FlushNow(w, "close")
      BY <1>8, <2>3 DEF CloseCalled
    <3>2. app' \in [Window -> {"new", "up", "closing", "closed", "gone"}]
      BY <1>4, <3>1
    <3> QED BY <1>3, <1>4, <2>1, <2>3, <3>1, <3>2, FlushNowTyped
  <2> QED BY <2>2, <2>3
<1>9. CASE FlushReply(w)
  <2> DEFINE f == Head(flushes[w])
  <2>1. flushes[w] # <<>> /\ flushes[w] \in Seq(Flush) /\ UNCHANGED timers
    BY <1>4, <1>9 DEF FlushReply
  <2>2. f \in Flush /\ Tail(flushes[w]) \in Seq(Flush)
    BY <2>1
  <2>3. f.rest \in Seq(Node \X Value) /\ f.why \in {"timer", "flush", "close"}
    BY <2>2 DEF Flush
  <2>4. CASE f.rest # <<>>
    <3> DEFINE next == [f EXCEPT !.rest = Tail(@)]
    <3>1. /\ GuiReq("update", w, f.rest[1][1], f.rest[1][2])
          /\ flushes' = [flushes EXCEPT ![w] = Append(Tail(@), next)]
          /\ UNCHANGED <<app, dirty, batched>>
      BY <1>9, <2>4 DEF FlushReply
    <3>2. f.rest[1] \in Node \X Value /\ Tail(f.rest) \in Seq(Node \X Value)
      BY <2>3, <2>4
    <3>3. next \in Flush
      BY <2>2, <3>2 DEF Flush
    <3> HIDE DEF next, f
    <3>4. KernelTyped'
      BY <1>4, <3>1, <3>2, GuiReqTyped
    <3>5. flushes' \in [Window -> Seq(Flush)]
      BY <1>4, <2>2, <3>1, <3>3
    <3> QED BY <1>3, <1>4, <2>1, <3>1, <3>4, <3>5
  <2>5. CASE f.rest = <<>>
    <3>1. /\ flushes' = [flushes EXCEPT ![w] = Tail(@)]
          /\ dirty' = [dirty EXCEPT ![w] = [n \in Node |-> Unset]]
          /\ batched' = [batched EXCEPT ![w] = FALSE]
          /\ \/ GuiReq("destroy", w, "none", 0) /\ app' = [app EXCEPT ![w] = "closed"]
             \/ UNCHANGED <<app, toDome, registry, signalled>>
      BY <1>9, <2>5 DEF FlushReply
    <3> HIDE DEF f
    <3>2. KernelTyped' /\ app' \in [Window -> {"new", "up", "closing", "closed", "gone"}]
      BY <1>4, <1>5, <3>1, GuiReqTyped
    <3>3. /\ flushes' \in [Window -> Seq(Flush)] /\ batched' \in [Window -> BOOLEAN]
          /\ dirty' \in [Window -> [Node -> Value \union {Unset}]]
      BY <1>4, <2>2, <3>1 DEF WinTyped, LibTyped
    <3>4. \A x \in Window : IsFiniteSet(Dirty(x)')
      <4> SUFFICES ASSUME NEW x \in Window PROVE IsFiniteSet(Dirty(x)')
        OBVIOUS
      <4>1. IsFiniteSet(Dirty(x)) /\ Dirty(x)' \subseteq Dirty(x)
        BY <3>1 DEF WinTyped, LibTyped, Dirty
      <4> QED BY <4>1, FS_Subset
    <3> QED BY <1>1, <1>2, <1>4, <2>1, <3>2, <3>3, <3>4 DEF WinTyped, LibTyped
  <2> QED BY <2>4, <2>5
<1>10. CASE OwnerEnds(w)
  <2> DEFINE e == [type |-> "destroy", wid |-> w, node |-> "none", value |-> 0]
  <2>1. /\ app' = [app EXCEPT ![w] = "gone"] /\ flushes' = [flushes EXCEPT ![w] = <<>>]
        /\ timers' = [timers EXCEPT ![w] = 0] /\ registry' = registry \ {w}
        /\ toDome' = Append(toDome, e) \/ toDome' = toDome
        /\ UNCHANGED <<dirty, batched, signalled>>
    BY <1>10 DEF OwnerEnds, DestroyAll
  <2>2. e \in SentEvent
    BY DEF SentEvent
  <2> HIDE DEF e
  <2>3. KernelTyped'
    <3>1. toDome \in Seq(SentEvent)
      BY <1>4 DEF KernelTyped
    <3>2. toDome' \in Seq(SentEvent)
      <4>1. Append(toDome, e) \in Seq(SentEvent)
        BY <2>2, <3>1, AppendProperties
      <4> QED BY <2>1, <3>1, <4>1
    <3> QED BY <1>4, <2>1, <3>2 DEF KernelTyped
  <2>4. /\ app' \in [Window -> {"new", "up", "closing", "closed", "gone"}]
        /\ flushes' \in [Window -> Seq(Flush)] /\ timers' \in [Window -> Nat]
    <3>1. <<>> \in Seq(Flush)
      OBVIOUS
    <3> QED BY <1>4, <2>1, <3>1
  <2> QED BY <1>3, <2>1, <2>3, <2>4
<1> QED BY <1>6, <1>7, <1>8, <1>9, <1>10

(* The steps of a browser, and the replay to it. *)
LEMMA BrowserTypedSteps ==
  ASSUME WinTyped, NEW c \in Client, Connect(c) \/ Disconnect(c)
  PROVE  WinTyped'
<1>1. CASE Connect(c)
  <2> DEFINE e == [type |-> "connect", client |-> c]
  <2>1. /\ conn' = [conn EXCEPT ![c] = "up"] /\ toDome' = Append(toDome, e)
        /\ UNCHANGED <<libVars, asked, registry, signalled, domeVars, shown>>
    BY <1>1 DEF Connect
  <2>2. e \in SentEvent
    BY DEF SentEvent
  <2> HIDE DEF e
  <2>3. toDome \in Seq(SentEvent)
    BY DEF WinTyped, KernelTyped
  <2>4. KernelTyped'
    BY <2>1, <2>2, <2>3 DEF WinTyped, KernelTyped
  <2>5. LibTyped'
    BY <2>1 DEF WinTyped, LibTyped, libVars, Dirty
  <2>6. DomeTyped'
    BY <2>1 DEF WinTyped, DomeTyped, domeVars
  <2>7. BrowserTyped'
    BY <2>1 DEF WinTyped, BrowserTyped
  <2> QED BY <2>4, <2>5, <2>6, <2>7 DEF WinTyped
<1>2. CASE Disconnect(c)
  <2>1. /\ conn' = [conn EXCEPT ![c] = "gone"]
        /\ shown' = [shown EXCEPT ![c] = [w \in Window |-> Absent]]
        /\ UNCHANGED <<libVars, asked, kernelVars, domeVars>>
    BY <1>2 DEF Disconnect
  <2>2. KernelTyped'
    BY <2>1 DEF WinTyped, KernelTyped, kernelVars
  <2>3. LibTyped'
    BY <2>1 DEF WinTyped, LibTyped, libVars, Dirty
  <2>4. DomeTyped'
    BY <2>1 DEF WinTyped, DomeTyped, domeVars
  <2>5. BrowserTyped'
    BY <2>1 DEF WinTyped, BrowserTyped
  <2> QED BY <2>2, <2>3, <2>4, <2>5 DEF WinTyped
<1> QED BY <1>1, <1>2

(* A replay at each of its steps.                                               *)
LEMMA OffTyped ==
  /\ Off \in Replay /\ [Off EXCEPT !.on = TRUE] \in Replay
  /\ \A s \in SUBSET Window : [Off EXCEPT !.on = TRUE, !.seen = s] \in Replay
  /\ \A s \in SUBSET Window, w \in Window :
        [Off EXCEPT !.on = TRUE, !.at = w, !.seen = s] \in Replay
<1>1. <<>> \in Seq(Kept)
  OBVIOUS
<1> QED BY <1>1 DEF Off, Replay

LEMMA ArrayTyped ==
  ASSUME DomeTyped, NEW c \in Client, replay[c].at # NoWindow
  PROVE  /\ replay[c] \in Replay /\ replay[c].at \in Window /\ replay[c].sent \in Nat
         /\ replay[c].seen \in SUBSET Window
         /\ Array(replay[c]) \in Seq(Kept)
<1>1. replay[c] \in Replay
  BY DEF DomeTyped
<1>2. /\ replay[c].at \in Window /\ replay[c].sent \in Nat /\ replay[c].old \in Seq(Kept)
      /\ replay[c].seen \in SUBSET Window
  BY <1>1 DEF Replay
<1> QED BY <1>1, <1>2 DEF Array, DomeTyped

LEMMA ReplayTyped ==
  ASSUME WinTyped, NEW c \in Client,
         ReplayState(c) \/ ReplayEnds(c) \/ \E w \in Window : ReplayWindow(c, w)
  PROVE  WinTyped'
<1>1. UNCHANGED <<libVars, asked, kernelVars, windows, states, conn, raced>>
  BY DEF ReplayState, ReplayEnds, ReplayWindow
<1>2. /\ LibTyped' /\ KernelTyped'
  BY <1>1 DEF WinTyped, LibTyped, KernelTyped, libVars, kernelVars, Dirty
<1>3. ASSUME replay' \in [Client -> Replay],
             shown' \in [Client -> [Window -> Nodes \union {Absent}]]
      PROVE  WinTyped'
  <2>1. DomeTyped'
    BY <1>1, <1>3 DEF WinTyped, DomeTyped
  <2>2. BrowserTyped'
    BY <1>1, <1>3 DEF WinTyped, BrowserTyped
  <2> QED BY <1>2, <2>1, <2>2 DEF WinTyped
<1>4. /\ replay \in [Client -> Replay] /\ replay[c] \in Replay
      /\ shown \in [Client -> [Window -> Nodes \union {Absent}]]
      /\ DomeTyped /\ BrowserTyped
  BY DEF WinTyped, DomeTyped, BrowserTyped
<1>5. CASE ReplayEnds(c)
  <2>1. replay' = [replay EXCEPT ![c] = Off] /\ shown' = shown
    BY <1>5 DEF ReplayEnds
  <2>2. replay' \in [Client -> Replay]
    BY <1>4, <2>1, OffTyped
  <2> QED BY <1>3, <1>4, <2>1, <2>2
<1>6. ASSUME NEW w \in Window, ReplayWindow(c, w) PROVE WinTyped'
  <2> DEFINE next == [Off EXCEPT !.on = TRUE, !.at = w, !.seen = replay[c].seen \union {w}]
  <2>1. replay' = [replay EXCEPT ![c] = next] /\ SendTo(c, w, Empty)
    BY <1>6 DEF ReplayWindow
  <2>2. next \in Replay
    <3>1. replay[c].seen \union {w} \in SUBSET Window
      BY <1>4 DEF Replay
    <3> QED BY <3>1, OffTyped
  <2> HIDE DEF next
  <2>3. replay' \in [Client -> Replay]
    BY <1>4, <2>1, <2>2
  <2>4. shown' \in [Client -> [Window -> Nodes \union {Absent}]]
    BY <1>4, <2>1, EmptyTyped, SendToTyped
  <2> QED BY <1>3, <2>3, <2>4
<1>7. CASE ReplayState(c)
  <2> DEFINE r == replay[c]
  <2>1. r.at # NoWindow
    BY <1>7 DEF ReplayState
  <2>2. /\ r \in Replay /\ r.at \in Window /\ r.sent \in Nat /\ Array(r) \in Seq(Kept)
        /\ r.seen \in SUBSET Window
    BY <1>4, <2>1, ArrayTyped
  <2>3. CASE r.sent < Len(Array(r))
    <3> DEFINE m == Array(r)[r.sent + 1]
               x == OnNode(shown[c][r.at], m)
               next == [r EXCEPT !.sent = r.sent + 1, !.old = Array(r)]
    <3>1. SendTo(c, r.at, x) /\ replay' = [replay EXCEPT ![c].sent = @ + 1, ![c].old = Array(r)]
      BY <1>7, <2>3 DEF ReplayState
    <3>2. m \in Kept
      BY <2>2, <2>3
    <3>3. m.node \in Node /\ m.value \in Value
      BY <3>2 DEF Kept
    <3>4. shown[c][r.at] \in Nodes \union {Absent}
      BY <1>4, <2>2
    <3>5. x \in Nodes \union {Absent}
      BY <3>3, <3>4, OnNodeTyped
    <3>6. next \in Replay
      <4> HIDE DEF r
      <4>1. r.sent + 1 \in Nat
        BY <2>2
      <4> DEFINE one == [r EXCEPT !.sent = r.sent + 1]
      <4>2. one \in Replay
        BY <2>2, <4>1 DEF Replay
      <4>3. next = [one EXCEPT !.old = Array(r)]
        OBVIOUS
      <4> HIDE DEF one, next
      <4> QED BY <2>2, <4>2, <4>3 DEF Replay
    <3>7. replay' = [replay EXCEPT ![c] = next]
      BY <1>4, <2>2, <3>1, Zenon DEF Replay
    <3> HIDE DEF x, m, next
    <3>8. replay' \in [Client -> Replay]
      BY <1>4, <3>6, <3>7
    <3>9. shown' \in [Client -> [Window -> Nodes \union {Absent}]]
      BY <1>4, <2>2, <3>1, <3>5, SendToTyped
    <3> QED BY <1>3, <3>8, <3>9
  <2>4. CASE ~(r.sent < Len(Array(r)))
    <3>1. /\ replay' = [replay EXCEPT ![c] = [Off EXCEPT !.on = TRUE, !.seen = r.seen]]
          /\ shown' = shown
      BY <1>7, <2>4 DEF ReplayState
    <3>2. [Off EXCEPT !.on = TRUE, !.seen = r.seen] \in Replay
      BY <2>2, OffTyped
    <3>3. replay' \in [Client -> Replay]
      BY <1>4, <3>1, <3>2
    <3> QED BY <1>3, <1>4, <3>1, <3>3
  <2> QED BY <2>3, <2>4
<1> QED BY <1>5, <1>6, <1>7

(* A browser closes a window; the display server handles an event.              *)
LEMMA BrowserClosesTyped ==
  ASSUME WinTyped, NEW w \in Window, BrowserCloses(w)
  PROVE  WinTyped'
<1>1. /\ asked' = asked \union {w} /\ Broadcast(w, [type |-> "destroy"])
      /\ UNCHANGED <<libVars, kernelVars, domeVars, conn>>
  BY DEF BrowserCloses
<1>2. shown' \in [Client -> [Window -> Nodes \union {Absent}]]
  BY <1>1, BroadcastTyped DEF WinTyped
<1>3. LibTyped' /\ KernelTyped' /\ DomeTyped'
  BY <1>1 DEF WinTyped, LibTyped, KernelTyped, DomeTyped, libVars, kernelVars, domeVars, Dirty
<1> QED BY <1>1, <1>2, <1>3 DEF WinTyped, BrowserTyped

LEMMA DetachTyped ==
  ASSUME DomeTyped, NEW w \in Window
  PROVE  Detach(w) \in [Client -> Replay]
<1>1. ASSUME NEW c \in Client
      PROVE  [replay[c] EXCEPT !.live = FALSE, !.old = states[w]] \in Replay
  <2>1. replay[c] \in Replay /\ states[w] \in Seq(Kept)
    BY DEF DomeTyped
  <2> QED BY <2>1 DEF Replay
<1>2. \A c \in Client : replay[c] \in Replay
  BY DEF DomeTyped
<1> QED BY <1>1, <1>2 DEF Detach

LEMMA HandleEventTyped ==
  ASSUME WinTyped, HandleEvent
  PROVE  WinTyped'
<1> SUFFICES ASSUME NEW e, e = Head(toDome) PROVE WinTyped'
  OBVIOUS
<1>1. toDome # <<>> /\ toDome' = Tail(toDome)
      /\ UNCHANGED <<libVars, asked, registry, signalled, conn>>
  BY DEF HandleEvent
<1>2. toDome \in Seq(SentEvent)
  BY DEF WinTyped, KernelTyped
<1>3. e \in SentEvent /\ toDome' \in Seq(SentEvent)
  BY <1>1, <1>2
<1>4. KernelTyped'
  BY <1>1, <1>3 DEF WinTyped, KernelTyped
<1>5. LibTyped'
  BY <1>1 DEF WinTyped, LibTyped, libVars, Dirty
<1>6. ASSUME windows' \subseteq Window, states' \in [Window -> Seq(Kept)],
             replay' \in [Client -> Replay], raced' \subseteq Client \X Window,
             shown' \in [Client -> [Window -> Nodes \union {Absent}]]
      PROVE  WinTyped'
  <2>1. DomeTyped'
    BY <1>6 DEF DomeTyped
  <2>2. BrowserTyped'
    BY <1>1, <1>6 DEF WinTyped, BrowserTyped
  <2> QED BY <1>4, <1>5, <2>1, <2>2 DEF WinTyped
<1>7. /\ windows \subseteq Window /\ states \in [Window -> Seq(Kept)]
      /\ replay \in [Client -> Replay] /\ raced \subseteq Client \X Window
      /\ shown \in [Client -> [Window -> Nodes \union {Absent}]]
      /\ DomeTyped /\ BrowserTyped
  BY DEF WinTyped, DomeTyped, BrowserTyped
<1>8. CASE e.type = "connect"
  <2>1. e.client \in Client
    BY <1>3, <1>8 DEF SentEvent
  <2>2. /\ replay' = [replay EXCEPT ![e.client] = [Off EXCEPT !.on = TRUE]]
        /\ UNCHANGED <<windows, states, shown, raced>>
    BY <1>8 DEF HandleEvent
  <2>3. replay' \in [Client -> Replay]
    BY <1>7, <2>2, OffTyped
  <2> QED BY <1>6, <1>7, <2>2, <2>3
<1>9. CASE e.type = "create"
  <2>1. e.wid \in Window
    BY <1>3, <1>9 DEF SentEvent
  <2>2. /\ windows' = windows \union {e.wid} /\ Broadcast(e.wid, e)
        /\ UNCHANGED <<states, replay, raced>>
    BY <1>9 DEF HandleEvent
  <2>3. shown' \in [Client -> [Window -> Nodes \union {Absent}]]
    BY <1>7, <1>9, <2>1, <2>2, BroadcastTyped
  <2> QED BY <1>6, <1>7, <2>1, <2>2, <2>3
<1>10. CASE e.type = "destroy"
  <2>1. e.wid \in Window
    BY <1>3, <1>10 DEF SentEvent
  <2>2. /\ windows' = windows \ {e.wid} /\ states' = [states EXCEPT ![e.wid] = <<>>]
        /\ replay' = Detach(e.wid) /\ Broadcast(e.wid, e) /\ raced' = raced
    BY <1>10 DEF HandleEvent
  <2>3. shown' \in [Client -> [Window -> Nodes \union {Absent}]]
    BY <1>7, <1>10, <2>1, <2>2, BroadcastTyped
  <2>4. replay' \in [Client -> Replay]
    BY <1>7, <2>1, <2>2, DetachTyped
  <2>5. states' \in [Window -> Seq(Kept)]
    <3>1. <<>> \in Seq(Kept)
      OBVIOUS
    <3> QED BY <1>7, <2>2, <3>1
  <2> QED BY <1>6, <1>7, <2>1, <2>2, <2>3, <2>4, <2>5
<1>11. CASE e.type \in {"mount", "update", "unmount"}
  <2>1. e.wid \in Window /\ e.node \in Node /\ e.value \in Value
    BY <1>3, <1>11 DEF SentEvent
  <2>2. /\ Broadcast(e.wid, e) /\ windows' = windows
        /\ raced' = raced \/ raced' = raced \union (At(e.wid) \X {e.wid})
    <3>1. CASE e.type \in {"mount", "update"}
      BY <3>1 DEF HandleEvent
    <3>2. CASE e.type = "unmount"
      BY <3>2 DEF HandleEvent
    <3> QED BY <1>11, <3>1, <3>2
  <2>3. shown' \in [Client -> [Window -> Nodes \union {Absent}]]
    BY <1>7, <2>1, <2>2, BroadcastTyped
  <2>4. raced' \subseteq Client \X Window
    BY <1>7, <2>1, <2>2 DEF At
  <2>5. CASE e.type \in {"mount", "update"}
    <3> DEFINE m == [type |-> e.type, node |-> e.node, value |-> e.value]
    <3>1. states' = [states EXCEPT ![e.wid] = Append(@, m)] /\ replay' = replay
      BY <2>5 DEF HandleEvent
    <3>2. m \in Kept
      BY <2>1, <2>5 DEF Kept
    <3> HIDE DEF m
    <3>3. states' \in [Window -> Seq(Kept)]
      BY <1>7, <2>1, <3>1, <3>2
    <3> QED BY <1>6, <1>7, <2>2, <2>3, <2>4, <3>1, <3>3
  <2>6. CASE e.type = "unmount"
    <3>1. states' = [states EXCEPT ![e.wid] = NotAbout(e.node, @)] /\ replay' = Detach(e.wid)
      BY <2>6 DEF HandleEvent, PruneWindowState
    <3>2. states[e.wid] \in Seq(Kept)
      BY <1>7, <2>1
    <3>3. NotAbout(e.node, states[e.wid]) \in Seq(Kept)
      BY <2>1, <3>2, ShowsPruned
    <3>4. states' \in [Window -> Seq(Kept)]
      BY <1>7, <3>1, <3>3
    <3>5. replay' \in [Client -> Replay]
      BY <1>7, <2>1, <3>1, DetachTyped
    <3> QED BY <1>6, <1>7, <2>2, <2>3, <2>4, <3>4, <3>5
  <2> QED BY <1>11, <2>5, <2>6
<1>12. e.type \in {"connect", "create", "destroy", "mount", "update", "unmount"}
  BY <1>3 DEF SentEvent
<1> QED BY <1>8, <1>9, <1>10, <1>11, <1>12

(* Every step keeps the types.                                                  *)
LEMMA WinTypedNext ==
  ASSUME WinTyped, [WinNext]_winVars
  PROVE  WinTyped'
<1>1. CASE UNCHANGED winVars
  BY <1>1 DEF winVars, WinTyped, LibTyped, KernelTyped, DomeTyped, BrowserTyped, libVars,
              kernelVars, domeVars, Dirty
<1>2. CASE WinNext
  BY <1>2, CreateTyped, ChangeTyped, FlushTyped, BrowserTypedSteps, ReplayTyped,
     BrowserClosesTyped, HandleEventTyped DEF WinNext
<1> QED BY <1>1, <1>2

LEMMA WinTypedInit == WinInit => WinTyped
<1> SUFFICES ASSUME WinInit PROVE WinTyped
  OBVIOUS
<1> USE WindowsAssumption
<1>1. 0 \in Value /\ 0 \in 0..MaxOps /\ <<>> \in Seq(Kept) /\ <<>> \in Seq(Flush)
      /\ <<>> \in Seq(SentEvent)
  BY DEF Value
<1>2. \A w \in Window : Dirty(w) = {}
  BY DEF WinInit, Dirty
<1>3. LibTyped
  BY <1>1, <1>2, FS_EmptySet DEF WinInit, LibTyped
<1>4. KernelTyped
  BY <1>1 DEF WinInit, KernelTyped
<1>5. DomeTyped
  BY <1>1, OffTyped DEF WinInit, DomeTyped
<1>6. BrowserTyped
  BY DEF WinInit, BrowserTyped
<1> QED BY <1>3, <1>4, <1>5, <1>6 DEF WinTyped

(* Every reachable state of the library, the kernel, the display server and the *)
(* browsers is well formed: what is dirty in an application, what is on its way, *)
(* what is kept of a window, what a replay is at and what a browser shows       *)
(* (emerald.ts:3764, GUIRegistry.ts:68, dome.ts:181, dome.ts:338).              *)
THEOREM WindowsTyped == WinSpec => []WinTypeOK
<1>1. WinTyped => WinTypeOK
  <2> SUFFICES ASSUME WinTyped PROVE WinTypeOK
    OBVIOUS
  <2>1. Seq(SentEvent) \subseteq Seq(GuiEvent)
    <3>1. 0 \in Value
      BY WindowsAssumption DEF Value
    <3>2. SentEvent \subseteq GuiEvent
      BY <3>1 DEF SentEvent, GuiEvent
    <3> QED BY <3>2
  <2>2. Seq(Kept) \subseteq Seq(Msg)
    <3>1. Kept \subseteq Msg
      BY DEF Kept, Msg
    <3> QED BY <3>1
  <2>3. ASSUME NEW c \in Client
        PROVE  /\ replay[c].seen \subseteq Window /\ replay[c].at \in Window \union {NoWindow}
               /\ replay[c].sent \in Nat /\ replay[c].old \in Seq(Msg)
               /\ \A w \in Window :
                    shown[c][w] \in [Node -> Seq(Value)] \union {Absent}
    <3>1. replay[c] \in Replay
      BY DEF WinTyped, DomeTyped
    <3>2. /\ replay[c].seen \subseteq Window /\ replay[c].at \in Window \union {NoWindow}
          /\ replay[c].sent \in Nat /\ replay[c].old \in Seq(Kept)
      BY <3>1 DEF Replay
    <3> QED BY <2>2, <3>2 DEF WinTyped, BrowserTyped, Nodes
  <2>4. states \in [Window -> Seq(Msg)]
    BY <2>2 DEF WinTyped, DomeTyped
  <2>5. toDome \in Seq(GuiEvent)
    BY <2>1 DEF WinTyped, KernelTyped
  <2> QED BY <2>3, <2>4, <2>5 DEF WinTyped, LibTyped, KernelTyped, DomeTyped, BrowserTyped, WinTypeOK
<1> QED BY <1>1, WinTypedInit, WinTypedNext, PTL DEF WinSpec

-----------------------------------------------------------------------------
(* What a browser has been told: the invariant, and the steps of applications   *)

Awaits(c) == {i \in DOMAIN toDome : toDome[i].type = "connect" /\ toDome[i].client = c}
Changes == {"mount", "update", "unmount"}

(* The changes of a window are on their way after its creation and before its   *)
(* end, and a window that is not there has nothing kept.                        *)
InOrder(w) ==
    /\ app[w] \in {"up", "closing"} => w \in registry
    /\ app[w] = "new" => mounted[w] = {}
    /\ \A t \in Changes : \A i \in Events(w, t) :
         /\ \A j \in Events(w, "create") : j < i
         /\ \A j \in Events(w, "destroy") : i < j
         /\ w \in windows \/ Coming(w)
    /\ Coming(w) => w \notin windows
    /\ \A i, j \in Events(w, "create") : i = j
    /\ w \notin windows => states[w] = <<>>

(* A browser connects once, and is told of windows that have been created. *)
ReplayOf(c) ==
    /\ replay[c].at # NoWindow => replay[c].on /\ replay[c].at \in replay[c].seen
    /\ replay[c].on => conn[c] # "no"
    /\ Awaits(c) # {} => conn[c] # "no" /\ ~replay[c].on
    /\ \A i, j \in Awaits(c) : i = j
    /\ \A w \in replay[c].seen : app[w] # "new" /\ ~Coming(w)

(* The nodes that what is kept of a window makes, and those it will make when   *)
(* each event on its way is handled, up to those the application has mounted.   *)
Present(t) == {n \in Node : Shows(t)[n] # <<>>}
Leads(s, e, w, r) ==
    IF e.type = "connect" \/ e.wid # w THEN r = s
    ELSE CASE e.type = "mount" -> e.node \notin s /\ r = s \union {e.node}
           [] e.type = "unmount" -> e.node \in s /\ r = s \ {e.node}
           [] e.type = "destroy" -> r = {}
           [] OTHER -> r = s
Foreseen(w, p) ==
    /\ p[0] = Present(states[w])
    /\ \A i \in 0..Len(toDome) - 1 : Leads(p[i], toDome[i + 1], w, p[i + 1])
    /\ app[w] \in {"new", "up", "closing"} => p[Len(toDome)] = mounted[w]
Foretold(w) == \E p : Foreseen(w, p)

(* No node is there twice in what is kept of a window.                          *)
OneCopy(w) == \A n \in Node : Len(Shows(states[w])[n]) <= 1

(* What a browser shows is what all that is kept of the window makes; while the *)
(* window is replayed, it is what makes that with the messages still to come.   *)
Told(c, w) ==
    /\ conn[c] = "up" /\ w \in windows /\ Awaits(c) = {}
    /\ replay[c].on => w \in replay[c].seen
    /\ <<c, w>> \notin raced /\ shown[c][w] # Absent
Faithful(c, w) ==
    Told(c, w) =>
      IF replay[c].at = w
      THEN /\ replay[c].live /\ replay[c].sent <= Len(states[w])
           /\ Makes(shown[c][w], states[w], replay[c].sent, Shows(states[w]))
      ELSE shown[c][w] = Shows(states[w])

(* The invariant: windows, and what each browser has been told of them.         *)
WindowKept(w) == InOrder(w) /\ Foretold(w) /\ OneCopy(w)
ReplayInv ==
    /\ WinInv /\ WinTyped
    /\ \A w \in Window : WindowKept(w)
    /\ \A c \in Client : ReplayOf(c) /\ \A w \in Window : Faithful(c, w)

(* A step that leaves what is kept of a window, and what is on its way, alone.  *)
LEMMA WindowKeptSame ==
  ASSUME NEW w \in Window, WindowKept(w),
         UNCHANGED <<toDome>>, states'[w] = states[w], w \in windows' <=> w \in windows,
         mounted'[w] = mounted[w],
         app'[w] \in {"up", "closing"} => app[w] \in {"up", "closing"} /\ w \in registry',
         app'[w] = "new" => app[w] = "new"
  PROVE  WindowKept(w)'
<1>1. \A t : Events(w, t)' = Events(w, t)
  BY DEF Events
<1>2. InOrder(w)'
  BY <1>1 DEF WindowKept, InOrder, Coming
<1>3. Foretold(w)'
  <2>1. PICK p : Foreseen(w, p)
    BY DEF WindowKept, Foretold
  <2>2. Foreseen(w, p)'
    BY <2>1 DEF Foreseen
  <2> QED BY <2>2 DEF Foretold
<1>4. OneCopy(w)'
  BY DEF WindowKept, OneCopy
<1> QED BY <1>2, <1>3, <1>4 DEF WindowKept

(* One more event. *)
LEMMA AwaitsQueued ==
  ASSUME WinTyped, NEW e, toDome' = Append(toDome, e)
  PROVE  \A c : Awaits(c)' = Awaits(c) \union
             {i \in {Len(toDome) + 1} : e.type = "connect" /\ e.client = c}
<1>1. toDome \in Seq(SentEvent \union {e}) /\ e \in SentEvent \union {e}
  BY DEF WinTyped, KernelTyped
<1>2. /\ DOMAIN toDome' = DOMAIN toDome \union {Len(toDome) + 1}
      /\ \A i \in DOMAIN toDome : toDome'[i] = toDome[i]
      /\ toDome'[Len(toDome) + 1] = e
  BY <1>1
<1> QED BY <1>2 DEF Awaits

LEMMA ForetoldQueued ==
  ASSUME WinTyped, NEW w \in Window, NEW p, Foreseen(w, p), NEW e, toDome' = Append(toDome, e),
         states'[w] = states[w], NEW r, Leads(p[Len(toDome)], e, w, r),
         app'[w] \in {"new", "up", "closing"} => r = mounted'[w]
  PROVE  Foretold(w)'
<1> DEFINE L == Len(toDome)
<1>0. PICK q : q = [i \in 0..L + 1 |-> IF i = L + 1 THEN r ELSE p[i]]
  OBVIOUS
<1>1. toDome \in Seq(SentEvent \union {e}) /\ e \in SentEvent \union {e}
  BY DEF WinTyped, KernelTyped
<1>2. /\ L \in Nat /\ Len(toDome') = L + 1 /\ toDome'[L + 1] = e
      /\ \A i \in 0..L - 1 : toDome'[i + 1] = toDome[i + 1]
  BY <1>1
<1>3. /\ q[0] = p[0] /\ q[L] = p[L] /\ q[L + 1] = r
      /\ \A i \in 0..L - 1 : q[i] = p[i] /\ q[i + 1] = p[i + 1]
  BY <1>0, <1>2
<1>4. ASSUME NEW i \in 0..L PROVE Leads(q[i], toDome'[i + 1], w, q[i + 1])
  <2>1. CASE i = L
    BY <1>2, <1>3, <2>1
  <2>2. CASE i # L
    <3>0. i \in 0..L - 1
      BY <1>2, <2>2
    <3>1. i \in 0..L - 1 /\ q[i] = p[i] /\ q[i + 1] = p[i + 1]
      BY <1>3, <3>0
    <3> QED BY <1>2, <3>1 DEF Foreseen
  <2> QED BY <2>1, <2>2
<1>5. Foreseen(w, q)'
  <2>1. Len(toDome') - 1 = L /\ Len(toDome') = L + 1
    BY <1>2
  <2>2. q[0] = Present(states'[w])
    BY <1>3 DEF Foreseen
  <2>3. \A i \in 0..Len(toDome') - 1 : Leads(q[i], toDome'[i + 1], w, q[i + 1])
    BY <1>4, <2>1
  <2>4. app'[w] \in {"new", "up", "closing"} => q[Len(toDome')] = mounted'[w]
    BY <1>3, <2>1
  <2> QED BY <2>2, <2>3, <2>4 DEF Foreseen
<1> QED BY <1>5 DEF Foretold

(* The first event is taken. *)
LEMMA ForetoldTaken ==
  ASSUME WinTyped, NEW w \in Window, NEW p, Foreseen(w, p), toDome # <<>>,
         toDome' = Tail(toDome), Present(states'[w]) = p[1], UNCHANGED <<app, mounted>>
  PROVE  Foretold(w)'
<1> DEFINE L == Len(toDome)
<1>0. PICK q : q = [i \in 0..L - 1 |-> p[i + 1]]
  OBVIOUS
<1>1. toDome \in Seq(SentEvent)
  BY DEF WinTyped, KernelTyped
<1>2. /\ L \in Nat \ {0} /\ Len(toDome') = L - 1
      /\ \A i \in 0..L - 2 : toDome'[i + 1] = toDome[i + 2]
  BY <1>1
<1>3. q[0] = p[1] /\ q[L - 1] = p[L]
  BY <1>0, <1>2
<1>4. ASSUME NEW i \in 0..L - 2 PROVE Leads(q[i], toDome'[i + 1], w, q[i + 1])
  <2>1. i + 1 \in 0..L - 1 /\ i \in 0..L - 1 /\ i + 1 + 1 = i + 2
    BY <1>2
  <2>2. q[i] = p[i + 1] /\ q[i + 1] = p[i + 1 + 1]
    BY <1>0, <2>1
  <2>3. Leads(p[i + 1], toDome[i + 1 + 1], w, p[i + 1 + 1])
    BY <2>1 DEF Foreseen
  <2> QED BY <1>2, <2>1, <2>2, <2>3
<1>5. Foreseen(w, q)'
  <2>1. Len(toDome') - 1 = L - 2 /\ Len(toDome') = L - 1
    BY <1>2
  <2>2. q[0] = Present(states'[w])
    BY <1>3
  <2>3. \A i \in 0..Len(toDome') - 1 : Leads(q[i], toDome'[i + 1], w, q[i + 1])
    BY <1>4, <2>1
  <2>4. app'[w] \in {"new", "up", "closing"} => q[Len(toDome')] = mounted'[w]
    BY <1>3, <2>1 DEF Foreseen
  <2> QED BY <2>2, <2>3, <2>4 DEF Foreseen
<1> QED BY <1>5 DEF Foretold

(* ... and who connects moves up.                                               *)
LEMMA AwaitsTaken ==
  ASSUME WinTyped, toDome # <<>>, toDome' = Tail(toDome), NEW e, e = Head(toDome)
  PROVE  /\ \A c : \A i \in Awaits(c)' : i \in Nat \ {0} /\ i + 1 \in Awaits(c)
         /\ \A c : \A i \in Awaits(c) : i \in Nat \ {0} /\ (i # 1 => i - 1 \in Awaits(c)')
         /\ \A c : 1 \in Awaits(c) <=> e.type = "connect" /\ e.client = c
<1>1. toDome \in Seq(SentEvent)
  BY DEF WinTyped, KernelTyped
<1>2. /\ DOMAIN toDome = 1 .. Len(toDome) /\ Len(toDome) \in Nat \ {0}
      /\ e = toDome[1]
  BY <1>1
<1>3. /\ DOMAIN toDome' = 1 .. Len(toDome) - 1
      /\ \A i \in 1 .. Len(toDome) - 1 : toDome'[i] = toDome[i + 1]
  BY <1>1, <1>2
<1>4. ASSUME NEW c, NEW i \in Awaits(c)' PROVE i \in Nat \ {0} /\ i + 1 \in Awaits(c)
  BY <1>2, <1>3 DEF Awaits
<1>5. ASSUME NEW c, NEW i \in Awaits(c) PROVE i \in Nat \ {0} /\ (i # 1 => i - 1 \in Awaits(c)')
  BY <1>2, <1>3 DEF Awaits
<1>6. ASSUME NEW c PROVE 1 \in Awaits(c) <=> e.type = "connect" /\ e.client = c
  BY <1>2 DEF Awaits
<1> QED BY <1>4, <1>5, <1>6

(* What an application or the kernel does is not seen by browsers at once. *)
LEMMA FaithfulSame ==
  ASSUME ReplayInv, UNCHANGED <<windows, states, replay, raced, conn, shown>>,
         \A c \in Client : Awaits(c)' = Awaits(c),
         \A w \in Window : app'[w] = "new" => app[w] = "new",
         \A w \in Window : Coming(w)' => Coming(w) \/ app[w] = "new"
  PROVE  \A c \in Client : ReplayOf(c)' /\ \A w \in Window : Faithful(c, w)'
<1> SUFFICES ASSUME NEW c \in Client PROVE ReplayOf(c)' /\ \A w \in Window : Faithful(c, w)'
  OBVIOUS
<1>1. ReplayOf(c) /\ Awaits(c)' = Awaits(c)
  BY DEF ReplayInv
<1>2. replay[c].seen \subseteq Window
  <2>1. replay[c] \in Replay
    BY DEF ReplayInv, WinTyped, DomeTyped
  <2> QED BY <2>1 DEF Replay
<1>3. ReplayOf(c)'
  BY <1>1, <1>2 DEF ReplayOf
<1>4. ASSUME NEW w \in Window PROVE Faithful(c, w)'
  <2>1. Faithful(c, w)
    BY DEF ReplayInv
  <2> QED BY <1>1, <2>1 DEF Faithful, Told
<1> QED BY <1>3, <1>4

(* A step of an application or the kernel that sends nothing.                   *)
LEMMA SilentFaithful ==
  ASSUME ReplayInv, WinInv', WinTyped', UNCHANGED <<domeVars, conn, shown, toDome, mounted>>,
         \A x \in Window : /\ app'[x] \in {"up", "closing"} =>
                                app[x] \in {"up", "closing"} /\ x \in registry'
                           /\ app'[x] = "new" => app[x] = "new"
  PROVE  ReplayInv'
<1>1. ASSUME NEW x \in Window PROVE WindowKept(x)'
  <2>1. WindowKept(x)
    BY DEF ReplayInv
  <2> QED BY <2>1, WindowKeptSame DEF domeVars
<1>2. (\A c \in Client : Awaits(c)' = Awaits(c)) /\ \A x \in Window : Coming(x)' <=> Coming(x)
  BY DEF Awaits, Coming, Events
<1> QED BY <1>1, <1>2, FaithfulSame DEF ReplayInv, domeVars

(* An application, or the kernel, sends an event about a window. *)
LEMMA SentKeeps ==
  ASSUME ReplayInv, WinInv', WinTyped', UNCHANGED <<domeVars, conn, shown>>,
         NEW w \in Window, NEW e, e.wid = w, e.type \in EventTypes, toDome' = Append(toDome, e),
         \A x \in Window \ {w} : /\ app'[x] = app[x] /\ mounted'[x] = mounted[x]
                                /\ (x \in registry => x \in registry'),
         \/ /\ e.type = "create" /\ app[w] = "new" /\ app'[w] = "up"
            /\ mounted'[w] = mounted[w] /\ w \in registry'
         \/ /\ e.type \in Changes /\ w \in registry /\ w \in registry'
            /\ app'[w] \in {"up", "closing"} /\ Leads(mounted[w], e, w, mounted'[w])
         \/ e.type = "destroy" /\ w \in registry /\ app'[w] \notin {"new", "up", "closing"}
  PROVE  ReplayInv'
<1>0. /\ WinInv /\ WinTyped /\ WinShape /\ IsEvent(e)
      /\ UNCHANGED <<windows, states, replay, raced, conn, shown>>
  BY DEF ReplayInv, WinInv, IsEvent, domeVars
<1>1. /\ \A x, t : Events(x, t)' = Events(x, t) \union
            {i \in {Len(toDome) + 1} : e.type = t /\ e.wid = x}
      /\ \A x, t : \A i \in Events(x, t) : i < Len(toDome) + 1
  BY <1>0, EventQueued
<1>2. \A c : Awaits(c)' = Awaits(c)
  <2>1. e.type # "connect"
    BY DEF EventTypes
  <2>2. \A c : Awaits(c)' = Awaits(c) \union
            {i \in {Len(toDome) + 1} : e.type = "connect" /\ e.client = c}
    BY <1>0, AwaitsQueued
  <2> QED BY <2>1, <2>2
<1>3. ASSUME NEW x \in Window, x # w PROVE WindowKept(x)'
  <2>0. /\ app'[x] = app[x] /\ mounted'[x] = mounted[x] /\ (x \in registry => x \in registry')
        /\ UNCHANGED <<windows, states>>
    BY <1>0, <1>3
  <2>1. \A t : Events(x, t)' = Events(x, t)
    BY <1>1, <1>3
  <2>2. InOrder(x) /\ OneCopy(x) /\ Foretold(x)
    BY DEF ReplayInv, WindowKept
  <2>3. InOrder(x)'
    BY <2>0, <2>1, <2>2 DEF InOrder, Coming
  <2>4. OneCopy(x)'
    BY <1>0, <2>2 DEF OneCopy
  <2>5. PICK p : Foreseen(x, p)
    BY <2>2 DEF Foretold
  <2>6. Leads(p[Len(toDome)], e, x, p[Len(toDome)])
    BY <1>3 DEF Leads
  <2>7. app'[x] \in {"new", "up", "closing"} => p[Len(toDome)] = mounted'[x]
    BY <2>0, <2>5 DEF Foreseen
  <2>8. Foretold(x)'
    BY <1>0, <2>5, <2>6, <2>7, ForetoldQueued
  <2> QED BY <2>3, <2>4, <2>8 DEF WindowKept
<1>4. KernelKnows(w) /\ InOrder(w) /\ OneCopy(w) /\ Foretold(w)
  BY <1>0 DEF WinInv, ReplayInv, WindowKept
<1>5. InOrder(w)'
  <2>1. CASE e.type = "create"
    <3>1. /\ Events(w, "create") = {} /\ Events(w, "destroy") = {} /\ w \notin windows
          /\ \A t \in Changes : Events(w, t) = {}
      BY <1>4, <2>1 DEF KernelKnows, Coming, Going, InOrder, Changes
    <3>2. /\ Events(w, "create")' = {Len(toDome) + 1} /\ Events(w, "destroy")' = {}
          /\ \A t \in Changes : Events(w, t)' = {}
      BY <1>1, <2>1, <3>1 DEF Changes
    <3> QED BY <1>0, <1>4, <2>1, <3>1, <3>2 DEF InOrder, Coming, Changes
  <2>2. CASE e.type \in Changes
    <3>1. Events(w, "destroy") = {} /\ (w \in windows \/ Coming(w))
      BY <1>4, <2>2 DEF KernelKnows, Going, Changes
    <3>2. /\ Events(w, "create")' = Events(w, "create") /\ Events(w, "destroy")' = {}
      BY <1>1, <2>2, <3>1 DEF Changes
    <3>3. ASSUME NEW t \in Changes, NEW i \in Events(w, t)'
          PROVE  \A j \in Events(w, "create") : j < i
      <4>1. i \in Events(w, t) \/ i = Len(toDome) + 1
        BY <1>1
      <4> QED BY <1>1, <1>4, <4>1 DEF InOrder
    <3> QED BY <1>0, <1>4, <2>2, <3>1, <3>2, <3>3 DEF InOrder, Coming, Changes
  <2>3. CASE e.type = "destroy"
    <3>1. /\ Events(w, "create")' = Events(w, "create")
          /\ \A t \in Changes : Events(w, t)' = Events(w, t)
          /\ Events(w, "destroy")' = Events(w, "destroy") \union {Len(toDome) + 1}
      BY <1>1, <2>3 DEF Changes
    <3>2. \A t \in Changes : \A i \in Events(w, t), j \in Events(w, "destroy")' : i < j
      BY <1>1, <1>4, <3>1 DEF InOrder
    <3> QED BY <1>0, <1>4, <2>3, <3>1, <3>2 DEF InOrder, Coming, Changes
  <2> QED BY <2>1, <2>2, <2>3
<1>6. Foretold(w)'
  <2>1. PICK p : Foreseen(w, p)
    BY <1>4 DEF Foretold
  <2>2. app[w] \in {"new", "up", "closing"} => p[Len(toDome)] = mounted[w]
    BY <2>1 DEF Foreseen
  <2>3. w \in registry => app[w] \in {"up", "closing"}
    BY <1>4 DEF KernelKnows
  <2>4. CASE e.type = "create"
    <3>1. Leads(p[Len(toDome)], e, w, p[Len(toDome)])
      BY <2>4 DEF Leads
    <3>2. p[Len(toDome)] = mounted'[w]
      BY <2>2, <2>4 DEF Changes
    <3>3. states'[w] = states[w]
      BY <1>0
    <3> QED BY <1>0, <2>1, <3>1, <3>2, <3>3, ForetoldQueued
  <2>5. CASE e.type \in Changes
    <3>1. Leads(p[Len(toDome)], e, w, mounted'[w])
      BY <2>2, <2>3, <2>5 DEF Changes
    <3> QED BY <1>0, <2>1, <3>1, ForetoldQueued
  <2>6. CASE e.type = "destroy"
    <3>1. Leads(p[Len(toDome)], e, w, {})
      BY <2>6 DEF Leads
    <3>2. app'[w] \notin {"new", "up", "closing"}
      BY <2>6 DEF Changes
    <3> QED BY <1>0, <2>1, <3>1, <3>2, ForetoldQueued
  <2> QED BY <2>4, <2>5, <2>6
<1>7. OneCopy(w)'
  BY <1>0, <1>4 DEF OneCopy
<1>8. \A x \in Window : Coming(x)' => Coming(x) \/ app[x] = "new"
  BY <1>1 DEF Coming, Changes
<1>9. \A x \in Window : app'[x] = "new" => app[x] = "new"
  <2>1. app'[w] # "new"
    BY DEF Changes
  <2>2. \A x \in Window \ {w} : app'[x] = app[x]
    OBVIOUS
  <2> QED BY <2>1, <2>2
<1>10. \A c \in Client : ReplayOf(c)' /\ \A x \in Window : Faithful(c, x)'
  BY <1>0, <1>2, <1>8, <1>9, FaithfulSame
<1> QED BY <1>3, <1>5, <1>6, <1>7, <1>10 DEF ReplayInv, WindowKept

(* CREATE_WINDOW, and the windows of a process that ends.                       *)
LEMMA CreateReplay ==
  ASSUME ReplayInv, WinInv', WinTyped', NEW w \in Window, CreateWindow(w)
  PROVE  ReplayInv'
<1> DEFINE e == [type |-> "create", wid |-> w, node |-> "none", value |-> 0]
<1>1. /\ app[w] = "new" /\ app' = [app EXCEPT ![w] = "up"] /\ registry' = registry \union {w}
      /\ toDome' = Append(toDome, e) /\ UNCHANGED <<mounted, domeVars, conn, shown>>
  BY DEF CreateWindow
<1>2. e.type = "create" /\ e.wid = w /\ e.type \in EventTypes
  BY DEF EventTypes
<1> HIDE DEF e
<1>3. app'[w] = "up" /\ \A x \in Window \ {w} : app'[x] = app[x]
  BY <1>1 DEF ReplayInv, WinTyped, LibTyped
<1> QED BY <1>1, <1>2, <1>3, SentKeeps

LEMMA OwnerEndsReplay ==
  ASSUME ReplayInv, WinInv', WinTyped', NEW w \in Window, OwnerEnds(w)
  PROVE  ReplayInv'
<1> DEFINE e == [type |-> "destroy", wid |-> w, node |-> "none", value |-> 0]
<1>1. /\ app' = [app EXCEPT ![w] = "gone"] /\ registry' = registry \ {w}
      /\ toDome' = IF w \in registry THEN Append(toDome, e) ELSE toDome
      /\ UNCHANGED <<mounted, domeVars, conn, shown>>
  BY DEF OwnerEnds, DestroyAll
<1>2. e.type = "destroy" /\ e.wid = w /\ e.type \in EventTypes
  BY DEF EventTypes
<1> HIDE DEF e
<1>3. app'[w] = "gone" /\ \A x \in Window \ {w} : app'[x] = app[x]
  BY <1>1 DEF ReplayInv, WinTyped, LibTyped
<1>4. CASE w \in registry
  BY <1>1, <1>2, <1>3, <1>4, SentKeeps
<1>5. CASE w \notin registry
  <2>1. \A x \in Window : InOrder(x)
    BY DEF ReplayInv, WindowKept
  <2>2. \A x \in Window : /\ app'[x] \in {"up", "closing"} =>
                                app[x] \in {"up", "closing"} /\ x \in registry'
                          /\ app'[x] = "new" => app[x] = "new"
    BY <1>1, <1>3, <2>1 DEF InOrder
  <2> QED BY <1>1, <1>5, <2>2, SilentFaithful
<1> QED BY <1>4, <1>5

(* A request of an application is forwarded, or it is signalled. *)
LEMMA GuiReqReplay ==
  ASSUME ReplayInv, WinInv', WinTyped', UNCHANGED <<domeVars, conn, shown>>, NEW w \in Window,
         NEW t, NEW n, NEW v, GuiReq(t, w, n, v),
         \A x \in Window \ {w} : app'[x] = app[x] /\ mounted'[x] = mounted[x],
         \/ /\ t = "destroy" /\ app'[w] = "closed" /\ mounted' = mounted
         \/ /\ t \in Changes
            /\ app'[w] = app[w] \/ (app[w] = "up" /\ app'[w] = "closing")
            /\ \/ mounted' = mounted /\ t = "update"
               \/ app[w] = "up" /\ t = "mount" /\ n \notin mounted[w] /\ mounted'[w] = mounted[w] \union {n}
               \/ app[w] = "up" /\ t = "unmount" /\ n \in mounted[w] /\ mounted'[w] = mounted[w] \ {n}
  PROVE  ReplayInv'
<1> DEFINE e == [type |-> t, wid |-> w, node |-> n, value |-> v]
<1>1. /\ e.type = t /\ e.wid = w /\ e.node = n
      /\ w \in registry => /\ toDome' = Append(toDome, e)
                           /\ registry' = IF t = "destroy" THEN registry \ {w} ELSE registry
      /\ w \notin registry => UNCHANGED <<toDome, registry>>
  BY DEF GuiReq
<1> HIDE DEF e
<1>2. /\ \A x \in Window : InOrder(x) /\ KernelKnows(x)
      /\ e.type \in EventTypes
  BY <1>1 DEF ReplayInv, WindowKept, WinInv, EventTypes, Changes
<1>3. CASE w \in registry
  <2>1. app[w] \in {"up", "closing"}
    BY <1>2, <1>3 DEF KernelKnows
  <2>2. CASE t = "destroy"
    <3>1. /\ e.type = "destroy" /\ app'[w] \notin {"new", "up", "closing"}
          /\ \A x \in Window \ {w} : x \in registry => x \in registry'
          /\ toDome' = Append(toDome, e) /\ e.wid = w
      BY <1>1, <1>3, <2>2 DEF Changes
    <3> QED BY <1>2, <1>3, <3>1, SentKeeps
  <2>3. CASE t \in Changes
    <3>1. /\ e.type \in Changes /\ app'[w] \in {"up", "closing"} /\ registry' = registry
          /\ toDome' = Append(toDome, e) /\ e.wid = w
      BY <1>1, <1>3, <2>1, <2>3 DEF Changes
    <3>2. Leads(mounted[w], e, w, mounted'[w])
      BY <1>1, <2>3 DEF Leads, Changes
    <3> QED BY <1>2, <1>3, <3>1, <3>2, SentKeeps
  <2> QED BY <2>2, <2>3
<1>4. CASE w \notin registry
  <2>1. app[w] \notin {"up", "closing"}
    BY <1>2, <1>4 DEF InOrder
  <2>2. /\ UNCHANGED <<toDome, registry>> /\ mounted' = mounted
    BY <1>1, <1>4, <2>1
  <2>3. \A x \in Window : /\ app'[x] \in {"up", "closing"} =>
                                app[x] \in {"up", "closing"} /\ x \in registry'
                          /\ app'[x] = "new" => app[x] = "new"
    BY <1>2, <2>1, <2>2 DEF InOrder, Changes
  <2> QED BY <2>2, <2>3, SilentFaithful
<1> QED BY <1>3, <1>4

(* Whatever the library does in between.                                        *)
LEMMA LibraryReplay ==
  ASSUME ReplayInv, WinInv', WinTyped', NEW w \in Window,
         \/ TimerFires(w) \/ FlushCalled(w) \/ FlushReply(w) \/ CloseCalled(w)
         \/ \E n \in Node : Mount(w, n) \/ Unmount(w, n) \/ UpdateProps(w, n)
  PROVE  ReplayInv'
<1>1. UNCHANGED <<domeVars, conn, shown>>
  BY DEF TimerFires, FlushCalled, FlushReply, CloseCalled, Mount, Unmount, UpdateProps
<1>2. /\ app \in [Window -> {"new", "up", "closing", "closed", "gone"}]
      /\ mounted \in [Window -> SUBSET Node]
      /\ \A x \in Window : InOrder(x)
  BY DEF ReplayInv, WinTyped, LibTyped, WindowKept
<1>3. ASSUME UNCHANGED <<app, mounted, toDome, registry>> PROVE ReplayInv'
  BY <1>1, <1>2, <1>3, SilentFaithful DEF InOrder
<1>4. ASSUME NEW n, NEW v, GuiReq("update", w, n, v), mounted' = mounted,
             app' = app \/ (app[w] = "up" /\ app' = [app EXCEPT ![w] = "closing"])
      PROVE  ReplayInv'
  <2>1. /\ \A x \in Window \ {w} : app'[x] = app[x] /\ mounted'[x] = mounted[x]
        /\ app'[w] = app[w] \/ (app[w] = "up" /\ app'[w] = "closing")
        /\ "update" \in Changes
    BY <1>2, <1>4 DEF Changes
  <2> QED BY <1>1, <1>4, <2>1, GuiReqReplay
<1>5. ASSUME NEW n, NEW v, GuiReq("destroy", w, n, v), mounted' = mounted,
             app' = [app EXCEPT ![w] = "closed"]
      PROVE  ReplayInv'
  <2>1. /\ \A x \in Window \ {w} : app'[x] = app[x] /\ mounted'[x] = mounted[x]
        /\ app'[w] = "closed"
    BY <1>2, <1>5
  <2> QED BY <1>1, <1>5, <2>1, GuiReqReplay
<1>6. ASSUME NEW why, FlushNow(w, why), mounted' = mounted,
             app' = app \/ (app[w] = "up" /\ app' = [app EXCEPT ![w] = "closing"])
      PROVE  ReplayInv'
  BY <1>4, <1>6 DEF FlushNow
<1>7. CASE TimerFires(w)
  BY <1>3, <1>6, <1>7 DEF TimerFires
<1>8. CASE FlushCalled(w)
  BY <1>6, <1>8 DEF FlushCalled
<1>9. CASE FlushReply(w)
  <2>1. CASE Head(flushes[w]).rest # <<>>
    BY <1>4, <1>9, <2>1 DEF FlushReply
  <2>2. CASE Head(flushes[w]).rest = <<>>
    BY <1>3, <1>5, <1>9, <2>2 DEF FlushReply
  <2> QED BY <2>1, <2>2
<1>10. CASE CloseCalled(w)
  BY <1>5, <1>6, <1>10 DEF CloseCalled
<1>11. ASSUME NEW n \in Node, Mount(w, n) PROVE ReplayInv'
  <2>1. /\ app[w] = "up" /\ n \notin mounted[w] /\ mounted' = [mounted EXCEPT ![w] = @ \union {n}]
        /\ GuiReq("mount", w, n, 0) /\ app' = app
    BY <1>11 DEF Mount, Change
  <2>2. /\ \A x \in Window \ {w} : app'[x] = app[x] /\ mounted'[x] = mounted[x]
        /\ mounted'[w] = mounted[w] \union {n} /\ app'[w] = app[w] /\ "mount" \in Changes
    BY <1>2, <2>1 DEF Changes
  <2> QED BY <1>1, <2>1, <2>2, GuiReqReplay
<1>12. ASSUME NEW n \in Node, Unmount(w, n) PROVE ReplayInv'
  <2>1. /\ app[w] = "up" /\ n \in mounted[w] /\ mounted' = [mounted EXCEPT ![w] = @ \ {n}]
        /\ GuiReq("unmount", w, n, 0) /\ app' = app
    BY <1>12 DEF Unmount, Change
  <2>2. /\ \A x \in Window \ {w} : app'[x] = app[x] /\ mounted'[x] = mounted[x]
        /\ mounted'[w] = mounted[w] \ {n} /\ app'[w] = app[w] /\ "unmount" \in Changes
    BY <1>2, <2>1 DEF Changes
  <2> QED BY <1>1, <2>1, <2>2, GuiReqReplay
<1>13. ASSUME NEW n \in Node, UpdateProps(w, n) PROVE ReplayInv'
  BY <1>3, <1>13 DEF UpdateProps
<1> QED BY <1>7, <1>8, <1>9, <1>10, <1>11, <1>12, <1>13

-----------------------------------------------------------------------------
(* The steps of browsers and of replays                                         *)

(* A step of a browser, or of a replay, that leaves what is kept of windows.    *)
LEMMA QuietKeeps ==
  ASSUME ReplayInv, UNCHANGED <<app, mounted, registry, toDome, windows, states>>
  PROVE  /\ \A x \in Window : WindowKept(x)'
         /\ \A c : Awaits(c)' = Awaits(c)
         /\ \A x : Coming(x)' <=> Coming(x)
<1>1. ASSUME NEW x \in Window PROVE WindowKept(x)'
  <2>1. WindowKept(x) /\ InOrder(x)
    BY DEF ReplayInv, WindowKept
  <2>2. app[x] \in {"up", "closing"} => x \in registry
    BY <2>1 DEF InOrder
  <2> QED BY <2>1, <2>2, WindowKeptSame
<1> QED BY <1>1 DEF Awaits, Coming, Events

(* A browser goes, or takes a window away, or comes.                            *)
LEMMA DisconnectReplay ==
  ASSUME ReplayInv, WinInv', WinTyped', NEW c \in Client, Disconnect(c)
  PROVE  ReplayInv'
<1>1. /\ conn' = [conn EXCEPT ![c] = "gone"]
      /\ shown' = [shown EXCEPT ![c] = [w \in Window |-> Absent]]
      /\ UNCHANGED <<app, mounted, registry, toDome, windows, states, replay, raced>>
  BY DEF Disconnect, libVars, kernelVars, domeVars
<1>2. /\ \A x \in Window : WindowKept(x)'
      /\ \A d : Awaits(d)' = Awaits(d)
      /\ \A x : Coming(x)' <=> Coming(x)
  BY <1>1, QuietKeeps
<1>3. /\ conn \in [Client -> {"no", "up", "gone"}]
      /\ shown \in [Client -> [Window -> Nodes \union {Absent}]]
  BY DEF ReplayInv, WinTyped, BrowserTyped
<1>4. ASSUME NEW d \in Client PROVE ReplayOf(d)' /\ \A x \in Window : Faithful(d, x)'
  <2>1. ReplayOf(d)'
    <3>1. ReplayOf(d) /\ (conn[d] # "no" => conn'[d] # "no")
      BY <1>1, <1>3 DEF ReplayInv
    <3> QED BY <1>1, <1>2, <3>1 DEF ReplayOf
  <2>2. CASE d = c
    <3>1. conn'[c] # "up"
      BY <1>1, <1>3
    <3> QED BY <2>1, <2>2, <3>1 DEF Faithful, Told
  <2>3. CASE d # c
    <3>1. conn'[d] = conn[d] /\ shown'[d] = shown[d] /\ \A x \in Window : Faithful(d, x)
      BY <1>1, <1>3, <2>3 DEF ReplayInv
    <3> QED BY <1>1, <1>2, <2>1, <3>1 DEF Faithful, Told
  <2> QED BY <2>2, <2>3
<1> QED BY <1>2, <1>4 DEF ReplayInv

LEMMA BrowserClosesReplay ==
  ASSUME ReplayInv, WinInv', WinTyped', NEW w \in Window, BrowserCloses(w)
  PROVE  ReplayInv'
<1>1. /\ Broadcast(w, [type |-> "destroy"])
      /\ UNCHANGED <<app, mounted, registry, toDome, windows, states, replay, raced, conn>>
  BY DEF BrowserCloses, libVars, kernelVars, domeVars
<1>2. /\ \A x \in Window : WindowKept(x)'
      /\ \A d : Awaits(d)' = Awaits(d)
      /\ \A x : Coming(x)' <=> Coming(x)
  BY <1>1, QuietKeeps
<1>3. /\ \A c \in Client, x \in Window : x # w \/ conn[c] # "up" => shown'[c][x] = shown[c][x]
      /\ \A c \in Client : conn[c] = "up" => shown'[c][w] = Absent
  BY <1>1, BroadcastShows DEF ReplayInv, WinInv
<1>4. ASSUME NEW d \in Client PROVE ReplayOf(d)' /\ \A x \in Window : Faithful(d, x)'
  <2>1. ReplayOf(d)'
    <3>1. ReplayOf(d)
      BY DEF ReplayInv
    <3> QED BY <1>1, <1>2, <3>1 DEF ReplayOf
  <2>2. ASSUME NEW x \in Window PROVE Faithful(d, x)'
    <3>1. Faithful(d, x)
      BY DEF ReplayInv
    <3>2. CASE x = w
      BY <1>1, <1>3, <3>2 DEF Faithful, Told
    <3>3. CASE x # w
      <4>1. shown'[d][x] = shown[d][x]
        BY <1>3, <3>3
      <4> QED BY <1>1, <1>2, <3>1, <4>1 DEF Faithful, Told
    <3> QED BY <3>2, <3>3
  <2> QED BY <2>1, <2>2
<1> QED BY <1>2, <1>4 DEF ReplayInv

LEMMA ConnectReplay ==
  ASSUME ReplayInv, WinInv', WinTyped', NEW c \in Client, Connect(c)
  PROVE  ReplayInv'
<1> DEFINE e == [type |-> "connect", client |-> c]
<1>1. /\ conn[c] = "no" /\ conn' = [conn EXCEPT ![c] = "up"] /\ toDome' = Append(toDome, e)
      /\ UNCHANGED <<app, mounted, registry, windows, states, replay, raced, shown>>
  BY DEF Connect, libVars, domeVars
<1>2. e.type = "connect" /\ e.client = c /\ IsEvent(e)
  BY DEF IsEvent
<1> HIDE DEF e
<1>3. /\ WinInv /\ WinTyped /\ WinShape /\ conn \in [Client -> {"no", "up", "gone"}]
  BY DEF ReplayInv, WinInv, WinShape
<1>4. \A d : Awaits(d)' = Awaits(d) \union
         {i \in {Len(toDome) + 1} : e.type = "connect" /\ e.client = d}
  BY <1>1, <1>3, AwaitsQueued
<1>5. \A x : \A t \in EventTypes : Events(x, t)' = Events(x, t)
  <2>1. \A x, t : Events(x, t)' = Events(x, t) \union
            {i \in {Len(toDome) + 1} : e.type = t /\ e.wid = x}
    BY <1>1, <1>2, <1>3, EventQueued
  <2> QED BY <1>2, <2>1 DEF EventTypes
<1>6. \A x : Coming(x)' <=> Coming(x)
  BY <1>5 DEF Coming, EventTypes
<1>7. ASSUME NEW x \in Window PROVE WindowKept(x)'
  <2>1. InOrder(x) /\ OneCopy(x) /\ Foretold(x)
    BY DEF ReplayInv, WindowKept
  <2>2. InOrder(x)'
    <3>1. /\ \A t \in Changes : Events(x, t)' = Events(x, t)
          /\ Events(x, "create")' = Events(x, "create")
          /\ Events(x, "destroy")' = Events(x, "destroy")
      BY <1>5 DEF Changes, EventTypes
    <3> QED BY <1>1, <1>6, <2>1, <3>1 DEF InOrder
  <2>3. OneCopy(x)'
    BY <1>1, <2>1 DEF OneCopy
  <2>4. PICK p : Foreseen(x, p)
    BY <2>1 DEF Foretold
  <2>5. Leads(p[Len(toDome)], e, x, p[Len(toDome)])
    BY <1>2 DEF Leads
  <2>6. app'[x] \in {"new", "up", "closing"} => p[Len(toDome)] = mounted'[x]
    BY <1>1, <2>4 DEF Foreseen
  <2>7. states'[x] = states[x]
    BY <1>1
  <2>8. Foretold(x)'
    BY <1>1, <1>3, <2>4, <2>5, <2>6, <2>7, ForetoldQueued
  <2> QED BY <2>2, <2>3, <2>8 DEF WindowKept
<1>8. ASSUME NEW d \in Client PROVE ReplayOf(d)' /\ \A x \in Window : Faithful(d, x)'
  <2>1. ReplayOf(d) /\ \A x \in Window : Faithful(d, x)
    BY DEF ReplayInv
  <2>2. CASE d = c
    <3>1. Awaits(c) = {} /\ ~replay[c].on /\ conn'[c] = "up"
      BY <1>1, <1>3, <2>1, <2>2 DEF ReplayOf
    <3>2. Awaits(c)' = {Len(toDome) + 1}
      BY <1>2, <1>4, <3>1
    <3>3. ReplayOf(c)'
      BY <1>1, <1>6, <2>1, <2>2, <3>1, <3>2 DEF ReplayOf
    <3> QED BY <2>2, <3>2, <3>3 DEF Faithful, Told
  <2>3. CASE d # c
    <3>1. Awaits(d)' = Awaits(d) /\ conn'[d] = conn[d]
      BY <1>1, <1>2, <1>3, <1>4, <2>3
    <3>2. ReplayOf(d)'
      BY <1>1, <1>6, <2>1, <3>1 DEF ReplayOf
    <3> QED BY <1>1, <2>1, <3>1, <3>2 DEF Faithful, Told
  <2> QED BY <2>2, <2>3
<1> QED BY <1>7, <1>8 DEF ReplayInv

(* A replay takes a step: only its own client, and only the window it is at or  *)
(* comes to, are concerned.                                                     *)
LEMMA ReplayStepReplay ==
  ASSUME ReplayInv, WinInv', WinTyped', NEW c \in Client,
         UNCHANGED <<app, mounted, registry, toDome, windows, states, raced, conn>>,
         \A d \in Client \ {c} : replay'[d] = replay[d] /\ shown'[d] = shown[d],
         replay[c].on,
         replay'[c].at # NoWindow => replay'[c].on /\ replay'[c].at \in replay'[c].seen,
         \A x \in replay'[c].seen : app[x] # "new" /\ ~Coming(x),
         \A x \in Window : Faithful(c, x)'
  PROVE  ReplayInv'
<1>1. /\ \A x \in Window : WindowKept(x)'
      /\ \A d : Awaits(d)' = Awaits(d)
      /\ \A x : Coming(x)' <=> Coming(x)
  BY QuietKeeps
<1>2. ASSUME NEW d \in Client PROVE ReplayOf(d)' /\ \A x \in Window : Faithful(d, x)'
  <2>1. ReplayOf(d) /\ \A x \in Window : Faithful(d, x)
    BY DEF ReplayInv
  <2>2. CASE d = c
    BY <1>1, <2>1, <2>2 DEF ReplayOf
  <2>3. CASE d # c
    <3>1. replay'[d] = replay[d] /\ shown'[d] = shown[d]
      BY <2>3
    <3> QED BY <1>1, <2>1, <3>1 DEF ReplayOf, Faithful, Told
  <2> QED BY <2>2, <2>3
<1> QED BY <1>1, <1>2 DEF ReplayInv

(* The next window, the next message of it, the end.                            *)
LEMMA ReplayWindowReplay ==
  ASSUME ReplayInv, WinInv', WinTyped', NEW c \in Client, NEW w \in Window, ReplayWindow(c, w)
  PROVE  ReplayInv'
<1> DEFINE next == [Off EXCEPT !.on = TRUE, !.at = w, !.seen = replay[c].seen \union {w}]
<1>1. /\ replay[c].on /\ replay[c].at = NoWindow /\ w \in windows
      /\ replay' = [replay EXCEPT ![c] = next] /\ SendTo(c, w, Empty)
      /\ UNCHANGED <<app, mounted, registry, toDome, windows, states, raced, conn>>
  BY DEF ReplayWindow, libVars, kernelVars
<1>2. /\ next.on /\ next.at = w /\ next.seen = replay[c].seen \union {w}
      /\ next.sent = 0 /\ next.live
  BY DEF Off
<1> HIDE DEF next
<1>3. /\ replay \in [Client -> Replay] /\ states \in [Window -> Seq(Kept)]
      /\ shown \in [Client -> [Window -> Nodes \union {Absent}]]
      /\ ReplayOf(c) /\ WindowKept(w) /\ KernelKnows(w)
  BY DEF ReplayInv, WinTyped, DomeTyped, BrowserTyped, WinInv
<1>4. /\ replay'[c] = next /\ \A d \in Client \ {c} : replay'[d] = replay[d]
      /\ \A d \in Client \ {c} : shown'[d] = shown[d]
      /\ \A x \in Window \ {w} : shown'[c][x] = shown[c][x]
      /\ conn[c] = "up" => shown'[c][w] = Empty
  BY <1>1, <1>3 DEF SendTo
<1>5. ASSUME NEW x \in replay'[c].seen PROVE app[x] # "new" /\ ~Coming(x)
  <2>1. CASE x = w
    BY <1>1, <1>3, <2>1 DEF WindowKept, InOrder, KernelKnows
  <2>2. CASE x # w
    BY <1>2, <1>3, <1>4, <1>5, <2>2 DEF ReplayOf
  <2> QED BY <2>1, <2>2
<1>6. ASSUME NEW x \in Window PROVE Faithful(c, x)'
  <2>1. CASE x = w
    <3>1. Makes(Empty, states[w], 0, Shows(states[w]))
      BY <1>3, MakesAll
    <3>2. Len(states[w]) \in Nat
      BY <1>3
    <3>3. ASSUME Told(c, w)'
          PROVE  /\ replay'[c].live /\ replay'[c].sent <= Len(states'[w]) /\ replay'[c].at = w
                 /\ Makes(shown'[c][w], states'[w], replay'[c].sent, Shows(states'[w]))
      <4>1. shown'[c][w] = Empty
        BY <1>1, <1>4, <3>3 DEF Told
      <4> QED BY <1>1, <1>2, <1>4, <3>1, <3>2, <4>1
    <3> QED BY <2>1, <3>3 DEF Faithful
  <2>2. CASE x # w
    <3>1. Faithful(c, x) /\ replay[c].at # x /\ replay'[c].at # x /\ shown'[c][x] = shown[c][x]
      BY <1>1, <1>2, <1>4, <2>2, WindowsAssumption DEF ReplayInv
    <3>2. Awaits(c)' = Awaits(c)
      BY <1>1 DEF Awaits
    <3>3. Told(c, x)' => Told(c, x)
      BY <1>1, <1>2, <1>4, <2>2, <3>1, <3>2 DEF Told
    <3> QED BY <1>1, <3>1, <3>3 DEF Faithful
  <2> QED BY <2>1, <2>2
<1>7. replay'[c].at # NoWindow => replay'[c].on /\ replay'[c].at \in replay'[c].seen
  BY <1>2, <1>4
<1> QED BY <1>1, <1>4, <1>5, <1>6, <1>7, ReplayStepReplay

LEMMA ReplayEndsReplay ==
  ASSUME ReplayInv, WinInv', WinTyped', NEW c \in Client, ReplayEnds(c)
  PROVE  ReplayInv'
<1>1. /\ replay[c].on /\ replay[c].at = NoWindow /\ windows \subseteq replay[c].seen
      /\ replay' = [replay EXCEPT ![c] = Off]
      /\ UNCHANGED <<app, mounted, registry, toDome, windows, states, raced, conn, shown>>
  BY DEF ReplayEnds, libVars, kernelVars
<1>2. Off.at = NoWindow /\ Off.seen = {} /\ ~Off.on
  BY DEF Off
<1>3. replay'[c] = Off /\ \A d \in Client \ {c} : replay'[d] = replay[d]
  BY <1>1 DEF ReplayInv, WinTyped, DomeTyped
<1>4. ASSUME NEW x \in Window PROVE Faithful(c, x)'
  <2>1. Faithful(c, x) /\ replay[c].at # x /\ replay'[c].at # x
    BY <1>1, <1>2, <1>3, WindowsAssumption DEF ReplayInv
  <2>2. Awaits(c)' = Awaits(c)
    BY <1>1 DEF Awaits
  <2>3. Told(c, x)' => Told(c, x)
    BY <1>1, <2>2 DEF Told
  <2> QED BY <1>1, <2>1, <2>3 DEF Faithful
<1> QED BY <1>1, <1>2, <1>3, <1>4, ReplayStepReplay

LEMMA ReplayStateReplay ==
  ASSUME ReplayInv, WinInv', WinTyped', NEW c \in Client, ReplayState(c)
  PROVE  ReplayInv'
<1> DEFINE r == replay[c]
<1>1. /\ r.at # NoWindow
      /\ UNCHANGED <<app, mounted, registry, toDome, windows, states, raced, conn>>
  BY DEF ReplayState, libVars, kernelVars
<1>2. /\ replay \in [Client -> Replay] /\ states \in [Window -> Seq(Kept)]
      /\ shown \in [Client -> [Window -> Nodes \union {Absent}]]
      /\ ReplayOf(c) /\ DomeTyped
  BY DEF ReplayInv, WinTyped, DomeTyped, BrowserTyped
<1>3. /\ r \in Replay /\ r.at \in Window /\ r.sent \in Nat /\ Array(r) \in Seq(Kept)
      /\ r.on /\ r.at \in r.seen
  BY <1>1, <1>2, ArrayTyped DEF ReplayOf
<1>0. PICK w : w = r.at
  OBVIOUS
<1>4. /\ Faithful(c, w) /\ Len(states[w]) \in Nat
  BY <1>0, <1>2, <1>3 DEF ReplayInv
<1>5. Awaits(c)' = Awaits(c)
  BY <1>1 DEF Awaits
<1>6. CASE r.sent < Len(Array(r))
  <2> DEFINE m == Array(r)[r.sent + 1]
             one == [r EXCEPT !.sent = r.sent + 1]
             next == [one EXCEPT !.old = Array(r)]
  <2>1. SendTo(c, w, OnNode(shown[c][w], m)) /\ replay' = [replay EXCEPT ![c].sent = @ + 1, ![c].old = Array(r)]
    BY <1>0, <1>6 DEF ReplayState
  <2>2. replay' = [replay EXCEPT ![c] = next]
    <3>1. DOMAIN replay = Client /\ DOMAIN replay[c] = {"seen", "at", "sent", "live", "old", "on"}
      BY <1>0, <1>2, <1>3, Zenon DEF Replay
    <3> QED BY <2>1, <3>1, Zenon
  <2>3. next.at = w /\ next.seen = r.seen /\ next.on /\ next.live = r.live /\ next.sent = r.sent + 1
    BY <1>0, <1>3 DEF Replay
  <2> HIDE DEF next, one
  <2>4. /\ replay'[c] = next /\ \A d \in Client \ {c} : replay'[d] = replay[d]
        /\ \A d \in Client \ {c} : shown'[d] = shown[d]
        /\ \A x \in Window \ {w} : shown'[c][x] = shown[c][x]
        /\ conn[c] = "up" => shown'[c][w] = OnNode(shown[c][w], m)
    BY <1>0, <1>2, <1>3, <2>1, <2>2 DEF SendTo
  <2>5. ASSUME Told(c, w)'
        PROVE  /\ replay'[c].live /\ replay'[c].sent <= Len(states'[w]) /\ replay'[c].at = w
               /\ Makes(shown'[c][w], states'[w], replay'[c].sent, Shows(states'[w]))
    <3>1. shown'[c][w] = OnNode(shown[c][w], m) /\ shown[c][w] # Absent
      BY <1>0, <1>1, <2>4, <2>5 DEF Told, OnNode
    <3>2. Told(c, w)
      BY <1>0, <1>1, <1>3, <1>5, <2>5, <3>1 DEF Told
    <3>3. /\ r.live /\ Makes(shown[c][w], states[w], r.sent, Shows(states[w]))
      BY <1>0, <1>4, <3>2 DEF Faithful
    <3>4. Array(r) = states[w]
      BY <1>0, <3>3 DEF Array
    <3>5. shown'[c][w] = Apply(shown[c][w], states[w][r.sent + 1])
      BY <3>1, <3>4 DEF OnNode
    <3>6. Makes(shown'[c][w], states[w], r.sent + 1, Shows(states[w]))
      BY <1>0, <1>3, <1>4, <1>6, <3>3, <3>4, <3>5, MakesStep
    <3>7. r.sent + 1 <= Len(states[w])
      BY <1>0, <1>3, <1>4, <1>6, <3>4
    <3> QED BY <1>0, <1>1, <2>3, <2>4, <3>3, <3>6, <3>7
  <2>6. ASSUME NEW x \in Window PROVE Faithful(c, x)'
    <3>1. CASE x = w
      BY <2>5, <3>1 DEF Faithful
    <3>2. CASE x # w
      <4>1. Faithful(c, x) /\ replay'[c].at # x /\ shown'[c][x] = shown[c][x]
        BY <1>0, <2>3, <2>4, <3>2 DEF ReplayInv
      <4>2. Told(c, x)' => Told(c, x)
        BY <1>0, <1>1, <1>3, <1>5, <2>3, <2>4, <4>1 DEF Told
      <4> QED BY <1>0, <1>1, <3>2, <4>1, <4>2 DEF Faithful
    <3> QED BY <3>1, <3>2
  <2>7. /\ replay'[c].at # NoWindow => replay'[c].on /\ replay'[c].at \in replay'[c].seen
        /\ \A x \in replay'[c].seen : app[x] # "new" /\ ~Coming(x)
    BY <1>0, <1>2, <1>3, <2>3, <2>4 DEF ReplayOf
  <2> QED BY <1>0, <1>1, <1>3, <2>4, <2>6, <2>7, ReplayStepReplay
<1>7. CASE ~(r.sent < Len(Array(r)))
  <2> DEFINE next == [Off EXCEPT !.on = TRUE, !.seen = r.seen]
  <2>1. replay' = [replay EXCEPT ![c] = next] /\ shown' = shown
    BY <1>7 DEF ReplayState
  <2>2. next.at = NoWindow /\ next.seen = r.seen /\ next.on
    BY DEF Off
  <2> HIDE DEF next
  <2>3. replay'[c] = next /\ \A d \in Client \ {c} : replay'[d] = replay[d]
    BY <1>2, <2>1
  <2>4. ASSUME NEW x \in Window PROVE Faithful(c, x)'
    <3>1. Faithful(c, x) /\ replay'[c].at # x
      BY <2>2, <2>3, WindowsAssumption DEF ReplayInv
    <3>2. Told(c, x)' => Told(c, x)
      BY <1>0, <1>1, <1>3, <1>5, <2>1, <2>2, <2>3 DEF Told
    <3>3. CASE x = w
      <4>1. ASSUME Told(c, w) PROVE shown[c][w] = Shows(states[w])
        <5>1. /\ r.live /\ r.sent <= Len(states[w])
              /\ Makes(shown[c][w], states[w], r.sent, Shows(states[w]))
          BY <1>0, <1>4, <4>1 DEF Faithful
        <5>2. r.sent = Len(states[w])
          BY <1>0, <1>3, <1>4, <1>7, <5>1 DEF Array
        <5> QED BY <5>1, <5>2, MakesNothing
      <4> QED BY <1>0, <1>1, <2>1, <3>1, <3>2, <3>3, <4>1 DEF Faithful
    <3>4. CASE x # w
      BY <1>0, <1>1, <2>1, <3>1, <3>2, <3>4 DEF Faithful
    <3> QED BY <3>3, <3>4
  <2>5. /\ replay'[c].at # NoWindow => replay'[c].on /\ replay'[c].at \in replay'[c].seen
        /\ \A x \in replay'[c].seen : app[x] # "new" /\ ~Coming(x)
    BY <1>0, <1>2, <1>3, <2>2, <2>3 DEF ReplayOf
  <2> QED BY <1>0, <1>1, <1>3, <2>1, <2>3, <2>4, <2>5, ReplayStepReplay
<1> QED BY <1>6, <1>7

-----------------------------------------------------------------------------
(* The events the display server handles                                        *)

(* The display server takes an event: what is on its way moves up.              *)
LEMMA AwaitsMove ==
  ASSUME ReplayInv, toDome # <<>>, toDome' = Tail(toDome), NEW e, e = Head(toDome), NEW c
  PROVE  /\ \A i \in Awaits(c)', j \in Awaits(c)' :
              (\A k, l \in Awaits(c) : k = l) => i = j
         /\ Awaits(c)' # {} => Awaits(c) # {}
         /\ ~(e.type = "connect" /\ e.client = c) /\ Awaits(c) # {} => Awaits(c)' # {}
         /\ e.type = "connect" /\ e.client = c /\ (\A k, l \in Awaits(c) : k = l) =>
              Awaits(c) # {} /\ Awaits(c)' = {}
<1>1. /\ \A i \in Awaits(c)' : i \in Nat \ {0} /\ i + 1 \in Awaits(c)
      /\ \A i \in Awaits(c) : i \in Nat \ {0} /\ (i # 1 => i - 1 \in Awaits(c)')
      /\ 1 \in Awaits(c) <=> e.type = "connect" /\ e.client = c
  BY AwaitsTaken DEF ReplayInv
<1>2. ASSUME NEW i \in Awaits(c)', NEW j \in Awaits(c)', \A k, l \in Awaits(c) : k = l
      PROVE  i = j
  <2>1. i + 1 \in Awaits(c) /\ j + 1 \in Awaits(c) /\ i \in Nat /\ j \in Nat
    BY <1>1
  <2>2. i + 1 = j + 1
    BY <1>2, <2>1
  <2> QED BY <2>1, <2>2
<1>3. Awaits(c)' # {} => Awaits(c) # {}
  BY <1>1
<1>4. ASSUME ~(e.type = "connect" /\ e.client = c), Awaits(c) # {} PROVE Awaits(c)' # {}
  <2>1. PICK i : i \in Awaits(c)
    BY <1>4
  <2> QED BY <1>1, <1>4, <2>1
<1>5. ASSUME e.type = "connect", e.client = c, \A k, l \in Awaits(c) : k = l
      PROVE  Awaits(c) # {} /\ Awaits(c)' = {}
  <2>1. 1 \in Awaits(c)
    BY <1>1, <1>5
  <2>2. ASSUME NEW i \in Awaits(c)' PROVE FALSE
    <3>1. i \in Nat \ {0} /\ i + 1 = 1
      BY <1>1, <1>5, <2>1, <2>2
    <3> QED BY <3>1
  <2> QED BY <2>1, <2>2
<1> QED BY <1>2, <1>3, <1>4, <1>5

(* The events of a window stay in order.                                        *)
LEMMA OrderTaken ==
  ASSUME ReplayInv, toDome # <<>>, toDome' = Tail(toDome), NEW e, e = Head(toDome),
         NEW x \in Window, UNCHANGED <<app, mounted, registry>>,
         \/ e.type = "create" /\ e.wid = x /\ x \in windows'
         \/ e.type = "destroy" /\ e.wid = x /\ x \notin windows'
         \/ /\ e.type \notin {"create", "destroy"} \/ e.wid # x
            /\ x \in windows' <=> x \in windows,
         x \notin windows' => states'[x] = <<>>
  PROVE  InOrder(x)' /\ (Coming(x)' => Coming(x))
<1>1. InOrder(x) /\ WinShape
  BY DEF ReplayInv, WindowKept, WinInv
<1>2. /\ \A t : 1 \in Events(x, t) <=> e.type = t /\ e.wid = x
      /\ \A t : \A i \in Events(x, t)' : i \in Nat \ {0} /\ i + 1 \in Events(x, t)
      /\ \A t : \A i \in Events(x, t) : i \in Nat \ {0} /\ (i # 1 => i - 1 \in Events(x, t)')
  BY <1>1, EventTaken
<1>3. Coming(x)' => Coming(x)
  BY <1>2 DEF Coming
<1>4. ASSUME NEW i \in Events(x, "create")', NEW j \in Events(x, "create")' PROVE i = j
  <2>1. i + 1 \in Events(x, "create") /\ j + 1 \in Events(x, "create") /\ i \in Nat /\ j \in Nat
    BY <1>2
  <2>2. i + 1 = j + 1
    BY <1>1, <2>1 DEF InOrder
  <2> QED BY <2>1, <2>2
<1>5. ASSUME Coming(x)' PROVE x \notin windows'
  <2>1. PICK j : j \in Events(x, "create")'
    BY <1>5 DEF Coming
  <2>2. j \in Nat \ {0} /\ j + 1 \in Events(x, "create")
    BY <1>2, <2>1
  <2>3. ~(e.type = "create" /\ e.wid = x)
    <3>1. SUFFICES ASSUME 1 \in Events(x, "create") PROVE FALSE
      BY <1>2
    <3>2. j + 1 = 1
      BY <1>1, <2>2, <3>1 DEF InOrder
    <3> QED BY <2>2, <3>2
  <2>4. x \notin windows
    BY <1>1, <1>3, <1>5 DEF InOrder
  <2> QED BY <2>3, <2>4
<1>6. ASSUME NEW t \in Changes, NEW i \in Events(x, t)'
      PROVE  /\ \A j \in Events(x, "create")' : j < i
             /\ \A j \in Events(x, "destroy")' : i < j
             /\ x \in windows' \/ Coming(x)'
  <2>1. i \in Nat \ {0} /\ i + 1 \in Events(x, t)
    BY <1>2
  <2>2. /\ \A j \in Events(x, "create") : j < i + 1
        /\ \A j \in Events(x, "destroy") : i + 1 < j
        /\ x \in windows \/ Coming(x)
    BY <1>1, <2>1 DEF InOrder
  <2>3. ASSUME NEW j \in Events(x, "create")' PROVE j < i
    <3>1. j \in Nat /\ j + 1 \in Events(x, "create")
      BY <1>2
    <3>2. j + 1 < i + 1
      BY <2>2, <3>1
    <3> QED BY <2>1, <3>1, <3>2
  <2>4. ASSUME NEW j \in Events(x, "destroy")' PROVE i < j
    <3>1. j \in Nat /\ j + 1 \in Events(x, "destroy")
      BY <1>2
    <3>2. i + 1 < j + 1
      BY <2>2, <3>1
    <3> QED BY <2>1, <3>1, <3>2
  <2>5. ~(e.type = "destroy" /\ e.wid = x)
    <3>1. SUFFICES ASSUME 1 \in Events(x, "destroy") PROVE FALSE
      BY <1>2
    <3>2. i + 1 < 1
      BY <2>2, <3>1
    <3> QED BY <2>1, <3>2
  <2>6. x \in windows' \/ Coming(x)'
    <3>1. CASE e.type = "create" /\ e.wid = x
      BY <3>1
    <3>2. CASE ~(e.type = "create" /\ e.wid = x)
      <4>1. x \in windows' <=> x \in windows
        BY <2>5, <3>2
      <4>2. ASSUME NEW j \in Events(x, "create") PROVE j - 1 \in Events(x, "create")'
        BY <1>2, <3>2
      <4> QED BY <2>2, <4>1, <4>2 DEF Coming
    <3> QED BY <3>1, <3>2
  <2> QED BY <2>3, <2>4, <2>6
<1>7. InOrder(x)'
  BY <1>1, <1>4, <1>5, <1>6 DEF InOrder
<1> QED BY <1>3, <1>7

(* The first event does to the nodes of a window what was foreseen.             *)
LEMMA ForetoldHead ==
  ASSUME WinTyped, toDome # <<>>, NEW e, e = Head(toDome), NEW x \in Window,
         NEW p, Foreseen(x, p)
  PROVE  Leads(Present(states[x]), e, x, p[1])
<1>1. toDome \in Seq(SentEvent)
  BY DEF WinTyped, KernelTyped
<1>2. 0 \in 0..Len(toDome) - 1 /\ e = toDome[0 + 1] /\ 0 + 1 = 1
  BY <1>1
<1> QED BY <1>2 DEF Foreseen

(* The event is not about the window. *)
LEMMA OtherWindowKept ==
  ASSUME ReplayInv, toDome # <<>>, toDome' = Tail(toDome), NEW e, e = Head(toDome),
         UNCHANGED <<app, mounted, registry>>, NEW x \in Window,
         e.type = "connect" \/ e.wid # x,
         states'[x] = states[x], x \in windows' <=> x \in windows
  PROVE  WindowKept(x)' /\ (Coming(x)' => Coming(x))
<1>1. WinTyped /\ InOrder(x) /\ OneCopy(x) /\ Foretold(x)
  BY DEF ReplayInv, WindowKept
<1>2. /\ e.type \notin {"create", "destroy"} \/ e.wid # x
      /\ x \notin windows' => states'[x] = <<>>
  BY <1>1 DEF InOrder
<1>3. InOrder(x)' /\ (Coming(x)' => Coming(x))
  BY <1>2, OrderTaken
<1>4. OneCopy(x)'
  BY <1>1 DEF OneCopy
<1>5. PICK p : Foreseen(x, p)
  BY <1>1 DEF Foretold
<1>6. Leads(Present(states[x]), e, x, p[1])
  BY <1>1, <1>5, ForetoldHead
<1>7. Present(states'[x]) = p[1]
  BY <1>6 DEF Leads
<1>8. Foretold(x)'
  BY <1>1, <1>5, <1>7, ForetoldTaken
<1> QED BY <1>3, <1>4, <1>8 DEF WindowKept

(* A browser that connected is to be told of all windows.                       *)
LEMMA ConnectEventReplay ==
  ASSUME ReplayInv, WinInv', WinTyped', NEW e, e = Head(toDome), e.type = "connect", HandleEvent
  PROVE  ReplayInv'
<1>1. /\ toDome # <<>> /\ toDome' = Tail(toDome)
      /\ replay' = [replay EXCEPT ![e.client] = [Off EXCEPT !.on = TRUE]]
      /\ UNCHANGED <<app, mounted, registry, conn, windows, states, shown, raced>>
  BY DEF HandleEvent, libVars
<1>2. \A x \in Window : WindowKept(x)' /\ (Coming(x)' => Coming(x))
  BY <1>1, OtherWindowKept
<1> DEFINE next == [Off EXCEPT !.on = TRUE]
<1>3. next.on /\ next.at = NoWindow /\ next.seen = {}
  BY DEF Off
<1> HIDE DEF next
<1>4. \A d \in Client : replay'[d] = IF d = e.client THEN next ELSE replay[d]
  BY <1>1 DEF ReplayInv, WinTyped, DomeTyped, next
<1>5. ASSUME NEW d \in Client PROVE ReplayOf(d)' /\ \A x \in Window : Faithful(d, x)'
  <2>1. ReplayOf(d) /\ \A x \in Window : Faithful(d, x)
    BY DEF ReplayInv
  <2>2. /\ \A i \in Awaits(d)', j \in Awaits(d)' :
              (\A k, l \in Awaits(d) : k = l) => i = j
        /\ Awaits(d)' # {} => Awaits(d) # {}
        /\ ~(e.type = "connect" /\ e.client = d) /\ Awaits(d) # {} => Awaits(d)' # {}
        /\ e.type = "connect" /\ e.client = d /\ (\A k, l \in Awaits(d) : k = l) =>
              Awaits(d) # {} /\ Awaits(d)' = {}
    BY <1>1, AwaitsMove
  <2>3. CASE d = e.client
    <3>1. Awaits(d) # {} /\ Awaits(d)' = {} /\ replay'[d] = next
      BY <1>4, <2>1, <2>2, <2>3 DEF ReplayOf
    <3>2. ReplayOf(d)'
      BY <1>1, <1>3, <2>1, <3>1 DEF ReplayOf
    <3> QED BY <1>3, <3>1, <3>2 DEF Faithful, Told
  <2>4. CASE d # e.client
    <3>1. replay'[d] = replay[d] /\ (Awaits(d)' # {} <=> Awaits(d) # {})
      BY <1>4, <2>2, <2>4
    <3>2. \A x \in replay[d].seen : x \in Window
      BY DEF ReplayInv, WinTyped, DomeTyped, Replay
    <3>3. ReplayOf(d)'
      BY <1>1, <1>2, <2>1, <2>2, <3>1, <3>2 DEF ReplayOf
    <3>4. ASSUME NEW x \in Window PROVE Faithful(d, x)'
      <4>1. Told(d, x)' => Told(d, x)
        BY <1>1, <3>1 DEF Told
      <4> QED BY <1>1, <2>1, <3>1, <4>1 DEF Faithful
    <3> QED BY <3>3, <3>4
  <2> QED BY <2>3, <2>4
<1> QED BY <1>2, <1>5 DEF ReplayInv

(* The event is about a window, and does what it has to do for the window. *)
LEMMA EventReplay ==
  ASSUME ReplayInv, WinInv', WinTyped', NEW e, e = Head(toDome), NEW w \in Window, e.wid = w,
         e.type # "connect", toDome # <<>>, toDome' = Tail(toDome),
         UNCHANGED <<app, mounted, registry, conn>>,
         \A x \in Window \ {w} : states'[x] = states[x] /\ (x \in windows' <=> x \in windows),
         \A c \in Client, x \in Window \ {w} :
            shown'[c][x] = shown[c][x] /\ (<<c, x>> \in raced => <<c, x>> \in raced'),
         \A c \in Client : /\ replay'[c].on = replay[c].on /\ replay'[c].seen = replay[c].seen
                           /\ replay'[c].at = replay[c].at
                           /\ replay[c].at # w => replay'[c] = replay[c],
         \/ e.type = "create" /\ w \in windows'
         \/ e.type = "destroy" /\ w \notin windows'
         \/ e.type \notin {"create", "destroy"} /\ (w \in windows' <=> w \in windows),
         w \notin windows' => states'[w] = <<>>,
         OneCopy(w)',
         \A r : Leads(Present(states[w]), e, w, r) => Present(states'[w]) = r,
         \A c \in Client : Faithful(c, w)'
  PROVE  ReplayInv'
<1>1. WinTyped /\ Foretold(w)
  BY DEF ReplayInv, WindowKept
<1>2. InOrder(w)' /\ (Coming(w)' => Coming(w))
  BY OrderTaken
<1>3. Foretold(w)'
  <2>1. PICK p : Foreseen(w, p)
    BY <1>1 DEF Foretold
  <2>2. Leads(Present(states[w]), e, w, p[1])
    BY <1>1, <2>1, ForetoldHead
  <2>3. Present(states'[w]) = p[1]
    BY <2>2
  <2> QED BY <1>1, <2>1, <2>3, ForetoldTaken
<1>4. \A x \in Window : WindowKept(x)' /\ (Coming(x)' => Coming(x))
  <2> SUFFICES ASSUME NEW x \in Window PROVE WindowKept(x)' /\ (Coming(x)' => Coming(x))
    OBVIOUS
  <2>1. CASE x = w
    BY <1>2, <1>3, <2>1 DEF WindowKept
  <2>2. CASE x # w
    BY <2>2, OtherWindowKept
  <2> QED BY <2>1, <2>2
<1>5. ASSUME NEW d \in Client PROVE ReplayOf(d)' /\ \A x \in Window : Faithful(d, x)'
  <2>1. ReplayOf(d) /\ \A x \in Window : Faithful(d, x)
    BY DEF ReplayInv
  <2>2. /\ \A i \in Awaits(d)', j \in Awaits(d)' :
              (\A k, l \in Awaits(d) : k = l) => i = j
        /\ Awaits(d)' # {} <=> Awaits(d) # {}
    BY AwaitsMove
  <2>3. \A x \in replay[d].seen : x \in Window
    BY <1>1 DEF WinTyped, DomeTyped, Replay
  <2>4. /\ replay'[d].on = replay[d].on /\ replay'[d].seen = replay[d].seen
        /\ replay'[d].at = replay[d].at
    OBVIOUS
  <2>5. ReplayOf(d)'
    BY <1>4, <2>1, <2>2, <2>3, <2>4 DEF ReplayOf
  <2>6. ASSUME NEW x \in Window, x # w PROVE Faithful(d, x)'
    <3>1. Told(d, x)' => Told(d, x)
      BY <2>2, <2>4, <2>6 DEF Told
    <3>2. CASE replay[d].at = x
      <4>1. replay'[d] = replay[d]
        <5>1. replay[d].at # w => replay'[d] = replay[d]
          OBVIOUS
        <5> QED BY <2>6, <3>2, <5>1
      <4>2. /\ states'[x] = states[x] /\ shown'[d][x] = shown[d][x]
            /\ <<d, x>> \in raced => <<d, x>> \in raced'
        BY <2>6
      <4> QED BY <2>1, <3>1, <4>1, <4>2 DEF Faithful
    <3>3. CASE replay[d].at # x
      BY <2>1, <2>4, <2>6, <3>1, <3>3 DEF Faithful
    <3> QED BY <3>2, <3>3
  <2> QED BY <2>5, <2>6
<1> QED BY <1>4, <1>5 DEF ReplayInv

(* An iteration over an array that is replaced keeps the array. *)
LEMMA DetachedReplay ==
  ASSUME WinShape, NEW w \in Window, replay' = Detach(w)
  PROVE  \A c \in Client : /\ replay'[c].on = replay[c].on /\ replay'[c].seen = replay[c].seen
                           /\ replay'[c].at = replay[c].at
                           /\ replay[c].at # w => replay'[c] = replay[c]
<1> SUFFICES ASSUME NEW c \in Client
             PROVE  /\ replay'[c].on = replay[c].on /\ replay'[c].seen = replay[c].seen
                    /\ replay'[c].at = replay[c].at
                    /\ replay[c].at # w => replay'[c] = replay[c]
  OBVIOUS
<1>1. replay'[c] = IF replay[c].at = w /\ replay[c].sent > 0 /\ replay[c].live
                   THEN [replay[c] EXCEPT !.live = FALSE, !.old = states[w]] ELSE replay[c]
  BY DEF Detach
<1>2. replay'[c].at = replay[c].at /\ (replay[c].at # w => replay'[c] = replay[c])
  BY <1>1
<1> QED BY <1>2, DetachKeeps

(* What an event about a window does to what browsers show. *)
LEMMA EventShown ==
  ASSUME ReplayInv, HandleEvent, NEW e, e = Head(toDome), e.type # "connect"
  PROVE  /\ toDome # <<>> /\ toDome' = Tail(toDome) /\ e \in SentEvent
         /\ e.type \in {"create", "destroy", "mount", "update", "unmount"} /\ e.wid \in Window
         /\ e.type \in Changes => e.node \in Node /\ e.value \in Value
         /\ UNCHANGED <<app, mounted, registry, conn>>
         /\ \A c \in Client, x \in Window : x # e.wid \/ conn[c] # "up" => shown'[c][x] = shown[c][x]
         /\ \A c \in Client : conn[c] = "up" =>
              /\ e.type = "create" => shown'[c][e.wid] = Empty
              /\ e.type = "destroy" => shown'[c][e.wid] = Absent
              /\ e.type \in Changes => shown'[c][e.wid] = OnNode(shown[c][e.wid], e)
<1>1. /\ toDome # <<>> /\ toDome' = Tail(toDome)
      /\ UNCHANGED <<app, mounted, registry, conn>>
  BY DEF HandleEvent, libVars
<1>2. e \in SentEvent
  <2>1. toDome \in Seq(SentEvent)
    BY DEF ReplayInv, WinTyped, KernelTyped
  <2> QED BY <1>1, <2>1
<1>3. /\ e.type \in {"create", "destroy", "mount", "update", "unmount"} /\ e.wid \in Window
      /\ e.type \in Changes => e.node \in Node /\ e.value \in Value
  BY <1>2 DEF SentEvent, Changes
<1>4. Broadcast(e.wid, e)
  <2>1. CASE e.type = "create"
    BY <2>1 DEF HandleEvent
  <2>2. CASE e.type = "destroy"
    BY <2>2 DEF HandleEvent
  <2>3. CASE e.type \in {"mount", "update"}
    BY <2>3 DEF HandleEvent
  <2>4. CASE e.type = "unmount"
    BY <2>4 DEF HandleEvent
  <2> QED BY <1>3, <2>1, <2>2, <2>3, <2>4
<1>5. /\ \A c \in Client, x \in Window : x # e.wid \/ conn[c] # "up" => shown'[c][x] = shown[c][x]
      /\ \A c \in Client : conn[c] = "up" =>
            shown'[c][e.wid] = CASE e.type = "create" -> Empty
                                 [] e.type = "destroy" -> Absent
                                 [] OTHER -> OnNode(shown[c][e.wid], e)
  BY <1>3, <1>4, BroadcastShows DEF ReplayInv, WinInv
<1>6. ASSUME NEW c \in Client, conn[c] = "up"
      PROVE  /\ e.type = "create" => shown'[c][e.wid] = Empty
             /\ e.type = "destroy" => shown'[c][e.wid] = Absent
             /\ e.type \in Changes => shown'[c][e.wid] = OnNode(shown[c][e.wid], e)
  BY <1>5, <1>6 DEF Changes
<1> QED BY <1>1, <1>2, <1>3, <1>5, <1>6

(* Nothing was kept of a window that is new, and nothing is of one that is gone. *)
LEMMA CreateEventReplay ==
  ASSUME ReplayInv, WinInv', WinTyped', NEW e, e = Head(toDome), e.type = "create", HandleEvent
  PROVE  ReplayInv'
<1>1. PICK w \in Window : w = e.wid
  BY EventShown
<1>2. /\ toDome # <<>> /\ toDome' = Tail(toDome)
      /\ UNCHANGED <<app, mounted, registry, conn>>
      /\ \A c \in Client, x \in Window : x # w \/ conn[c] # "up" => shown'[c][x] = shown[c][x]
      /\ \A c \in Client : conn[c] = "up" => shown'[c][w] = Empty
  BY <1>1, EventShown
<1>3. windows' = windows \union {w} /\ UNCHANGED <<states, replay, raced>>
  BY <1>1 DEF HandleEvent
<1>4. Coming(w) /\ w \notin windows /\ states[w] = <<>>
  <2>1. 1 \in Events(w, "create")
    BY <1>1, <1>2, EventTaken DEF ReplayInv, WinInv
  <2>2. InOrder(w)
    BY DEF ReplayInv, WindowKept
  <2> QED BY <2>1, <2>2 DEF Coming, InOrder
<1>5. OneCopy(w)'
  BY <1>3 DEF ReplayInv, WindowKept, OneCopy
<1>6. \A r : Leads(Present(states[w]), e, w, r) => Present(states'[w]) = r
  BY <1>1, <1>3 DEF Leads
<1>7. ASSUME NEW c \in Client PROVE Faithful(c, w)'
  <2>1. ReplayOf(c)
    BY DEF ReplayInv
  <2>2. w \notin replay[c].seen
    BY <1>4, <2>1 DEF ReplayOf
  <2>3. ASSUME Told(c, w)' PROVE replay'[c].at # w /\ shown'[c][w] = Shows(states'[w])
    <3>1. ~replay[c].on /\ conn[c] = "up"
      BY <1>2, <1>3, <2>2, <2>3 DEF Told
    <3>2. replay[c].at # w
      BY <2>1, <3>1, WindowsAssumption DEF ReplayOf
    <3> QED BY <1>2, <1>3, <1>4, <3>1, <3>2, ShowsNothing
  <2> QED BY <2>3 DEF Faithful
<1> QED BY <1>1, <1>2, <1>3, <1>5, <1>6, <1>7, EventReplay

LEMMA DestroyEventReplay ==
  ASSUME ReplayInv, WinInv', WinTyped', NEW e, e = Head(toDome), e.type = "destroy", HandleEvent
  PROVE  ReplayInv'
<1>1. PICK w \in Window : w = e.wid
  BY EventShown
<1>2. /\ toDome # <<>> /\ toDome' = Tail(toDome)
      /\ UNCHANGED <<app, mounted, registry, conn>>
      /\ \A c \in Client, x \in Window : x # w \/ conn[c] # "up" => shown'[c][x] = shown[c][x]
  BY <1>1, EventShown
<1>3. /\ windows' = windows \ {w} /\ states' = [states EXCEPT ![w] = <<>>]
      /\ replay' = Detach(w) /\ raced' = raced
  BY <1>1 DEF HandleEvent
<1>4. states'[w] = <<>> /\ \A x \in Window \ {w} : states'[x] = states[x]
  BY <1>3 DEF ReplayInv, WinTyped, DomeTyped
<1>5. Shows(states'[w]) = Empty
  BY <1>4, ShowsNothing
<1>6. OneCopy(w)'
  BY <1>5 DEF OneCopy, Empty
<1>7. \A r : Leads(Present(states[w]), e, w, r) => Present(states'[w]) = r
  BY <1>1, <1>5 DEF Leads, Present, Empty
<1>8. \A c \in Client : Faithful(c, w)'
  BY <1>3 DEF Faithful, Told
<1>9. \A c \in Client : /\ replay'[c].on = replay[c].on /\ replay'[c].seen = replay[c].seen
                        /\ replay'[c].at = replay[c].at
                        /\ replay[c].at # w => replay'[c] = replay[c]
  BY <1>3, DetachedReplay DEF ReplayInv, WinInv
<1> QED BY <1>1, <1>2, <1>3, <1>4, <1>6, <1>7, <1>8, <1>9, EventReplay

(* A change that is kept: one message more for the window. *)
LEMMA KeptShows ==
  ASSUME NEW t \in Seq(Kept), NEW m \in Kept
  PROVE  /\ Shows(t) \in Nodes /\ Shows(Append(t, m)) = Apply(Shows(t), m)
         /\ Append(t, m) \in Seq(Kept) /\ Append(t, m) # <<>>
         /\ \A n \in Node \ {m.node} : Shows(Append(t, m))[n] = Shows(t)[n]
         /\ m.type = "mount" /\ Shows(t)[m.node] = <<>> =>
              Len(Shows(Append(t, m))[m.node]) = 1
         /\ m.type = "update" =>
              Len(Shows(Append(t, m))[m.node]) = Len(Shows(t)[m.node])
<1>1. Shows(t) \in Nodes /\ Shows(Append(t, m)) = Apply(Shows(t), m)
  BY ShowsTyped, ShowsAppend
<1>2. m.node \in Node /\ m.value \in Value
  BY DEF Kept
<1>3. Shows(t)[m.node] \in Seq(Value)
  BY <1>1, <1>2 DEF Nodes
<1>4. /\ \A n \in Node \ {m.node} : Shows(Append(t, m))[n] = Shows(t)[n]
      /\ m.type = "mount" => Shows(Append(t, m))[m.node] = Append(Shows(t)[m.node], m.value)
      /\ m.type = "update" =>
           /\ Shows(t)[m.node] = <<>> => Shows(Append(t, m))[m.node] = <<>>
           /\ Shows(t)[m.node] # <<>> =>
                Shows(Append(t, m))[m.node] = [Shows(t)[m.node] EXCEPT ![1] = m.value]
  BY <1>1, <1>2, ApplyTyped
<1>5. m.type = "mount" /\ Shows(t)[m.node] = <<>> => Len(Shows(Append(t, m))[m.node]) = 1
  <2>1. Len(Append(<<>>, m.value)) = 1
    OBVIOUS
  <2> QED BY <1>4, <2>1
<1>6. m.type = "update" => Len(Shows(Append(t, m))[m.node]) = Len(Shows(t)[m.node])
  <2>1. ASSUME NEW s \in Seq(Value), NEW v \in Value PROVE Len([s EXCEPT ![1] = v]) = Len(s)
    BY ExceptSeq
  <2> QED BY <1>2, <1>3, <1>4, <2>1
<1>7. Append(t, m) \in Seq(Kept) /\ Append(t, m) # <<>>
  <2>1. Append(t, m) \in Seq(Kept) /\ Len(Append(t, m)) = Len(t) + 1 /\ Len(t) \in Nat
    OBVIOUS
  <2>2. \A s \in Seq(Kept) : Len(s) # 0 => s # <<>>
    OBVIOUS
  <2>3. Len(Append(t, m)) # 0
    BY <2>1
  <2> QED BY <2>1, <2>2, <2>3
<1> QED BY <1>1, <1>4, <1>5, <1>6, <1>7

(* A mount or an update: a browser whose replay is at the window gets the       *)
(* update first, and again when the replay comes to it.                         *)
LEMMA KeptEventReplay ==
  ASSUME ReplayInv, WinInv', WinTyped', NEW e, e = Head(toDome), e.type \in {"mount", "update"},
         HandleEvent
  PROVE  ReplayInv'
<1>1. PICK w \in Window : w = e.wid
  BY EventShown
<1>2. /\ toDome # <<>> /\ toDome' = Tail(toDome)
      /\ e.node \in Node /\ e.value \in Value
      /\ UNCHANGED <<app, mounted, registry, conn>>
      /\ \A c \in Client, x \in Window : x # w \/ conn[c] # "up" => shown'[c][x] = shown[c][x]
      /\ \A c \in Client : conn[c] = "up" => shown'[c][w] = OnNode(shown[c][w], e)
  <2>1. e.type \in Changes
    BY DEF Changes
  <2> QED BY <1>1, <2>1, EventShown
<1> DEFINE msg == [type |-> e.type, node |-> e.node, value |-> e.value]
<1>3. PICK m : m = msg
  OBVIOUS
<1>4. m \in Kept /\ m.type = e.type /\ m.node = e.node /\ m.value = e.value
  BY <1>2, <1>3 DEF Kept
<1>5. /\ states' = [states EXCEPT ![w] = Append(@, m)]
      /\ raced' = IF e.type = "mount" THEN raced \union (At(w) \X {w}) ELSE raced
      /\ UNCHANGED <<windows, replay>>
  BY <1>1, <1>3 DEF HandleEvent
<1>6. PICK t \in Seq(Kept) : t = states[w]
  BY DEF ReplayInv, WinTyped, DomeTyped
<1>7. states'[w] = Append(t, m) /\ \A x \in Window \ {w} : states'[x] = states[x]
  BY <1>5, <1>6 DEF ReplayInv, WinTyped, DomeTyped
<1>8. /\ Shows(t) \in Nodes /\ Shows(Append(t, m)) = Apply(Shows(t), m)
      /\ Append(t, m) \in Seq(Kept) /\ Append(t, m) # <<>>
      /\ \A n \in Node \ {m.node} : Shows(Append(t, m))[n] = Shows(t)[n]
      /\ m.type = "mount" /\ Shows(t)[m.node] = <<>> =>
           Len(Shows(Append(t, m))[m.node]) = 1
      /\ m.type = "update" =>
           Len(Shows(Append(t, m))[m.node]) = Len(Shows(t)[m.node])
  BY <1>4, KeptShows
<1>9. InOrder(w) /\ OneCopy(w) /\ Foretold(w) /\ WinTyped
  BY DEF ReplayInv, WindowKept
<1>10. w \in windows
  <2>1. 1 \in Events(w, e.type) /\ \A i \in Events(w, "create") : i \in Nat \ {0}
    BY <1>1, <1>2, EventTaken DEF ReplayInv, WinInv
  <2>2. e.type \in Changes
    BY DEF Changes
  <2>3. \A j \in Events(w, "create") : j < 1
    BY <1>9, <2>1, <2>2 DEF InOrder
  <2>4. ~Coming(w)
    BY <2>1, <2>3 DEF Coming
  <2> QED BY <1>9, <2>1, <2>2, <2>4 DEF InOrder
<1>11. e.type = "mount" => Shows(t)[m.node] = <<>>
  <2>1. PICK p : Foreseen(w, p)
    BY <1>9 DEF Foretold
  <2>2. Leads(Present(states[w]), e, w, p[1])
    BY <1>2, <1>9, <2>1, ForetoldHead
  <2>3. e.type = "mount" => e.node \notin Present(t)
    BY <1>1, <1>6, <2>2 DEF Leads
  <2> QED BY <1>2, <1>4, <2>3 DEF Present
<1>12. OneCopy(w)'
  <2>1. \A n \in Node : Len(Shows(t)[n]) <= 1
    BY <1>6, <1>9 DEF OneCopy
  <2>2. ASSUME NEW n \in Node PROVE Len(Shows(Append(t, m))[n]) <= 1
    <3>1. CASE n = m.node
      <4>1. m.type = "mount" => Len(Shows(Append(t, m))[m.node]) = 1
        BY <1>4, <1>8, <1>11
      <4>2. m.type = "update" => Len(Shows(Append(t, m))[m.node]) = Len(Shows(t)[m.node])
        BY <1>8
      <4>3. m.type = "mount" \/ m.type = "update"
        BY <1>4
      <4>4. Len(Shows(t)[m.node]) <= 1
        BY <2>1, <3>1
      <4>5. CASE m.type = "mount"
        <5>1. Len(Shows(Append(t, m))[n]) = 1
          BY <3>1, <4>1, <4>5
        <5> QED BY <5>1
      <4>6. CASE m.type = "update"
        BY <3>1, <4>2, <4>4, <4>6
      <4> QED BY <4>3, <4>5, <4>6
    <3>2. CASE n # m.node
      BY <1>8, <2>1, <3>2
    <3> QED BY <3>1, <3>2
  <2> QED BY <1>7, <2>2 DEF OneCopy
<1>13. ASSUME NEW r, Leads(Present(states[w]), e, w, r) PROVE Present(states'[w]) = r
  <2>1. \A n \in Node : Shows(t)[n] \in Seq(Value) /\ Shows(Append(t, m))[n] \in Seq(Value)
    <3>1. Shows(Append(t, m)) \in Nodes
      BY <1>8, ShowsTyped
    <3> QED BY <1>8, <3>1 DEF Nodes
  <2>2. CASE e.type = "mount"
    <3>1. r = Present(t) \union {m.node}
      BY <1>1, <1>4, <1>6, <1>13, <2>2 DEF Leads
    <3>2. Shows(Append(t, m))[m.node] # <<>> /\ m.node \in Node
      <4>1. Len(Shows(Append(t, m))[m.node]) = 1
        BY <1>4, <1>8, <1>11, <2>2
      <4>2. m.node \in Node /\ Shows(Append(t, m))[m.node] \in Seq(Value)
        BY <1>2, <1>4, <2>1
      <4>3. Len(Shows(Append(t, m))[m.node]) # 0
        BY <4>1
      <4> QED BY <4>2, <4>3, EmptySeq
    <3>3. \A n \in Node : n \in Present(Append(t, m)) <=> n \in Present(t) \/ n = m.node
      BY <1>8, <3>2 DEF Present
    <3> QED BY <1>7, <3>1, <3>2, <3>3 DEF Present
  <2>3. CASE e.type = "update"
    <3>1. r = Present(t)
      BY <1>1, <1>6, <1>13, <2>3 DEF Leads
    <3>2. Shows(Append(t, m))[m.node] = <<>> <=> Shows(t)[m.node] = <<>>
      <4>1. Len(Shows(Append(t, m))[m.node]) = Len(Shows(t)[m.node])
        BY <1>4, <1>8, <2>3
      <4>2. \A s \in Seq(Value) : s = <<>> <=> Len(s) = 0
        OBVIOUS
      <4>3. Shows(t)[m.node] \in Seq(Value) /\ Shows(Append(t, m))[m.node] \in Seq(Value)
        BY <1>2, <1>4, <2>1
      <4> QED BY <4>1, <4>2, <4>3
    <3>3. \A n \in Node : n \in Present(Append(t, m)) <=> n \in Present(t)
      BY <1>8, <3>2 DEF Present
    <3> QED BY <1>7, <3>1, <3>3 DEF Present
  <2> QED BY <2>2, <2>3
<1>14. ASSUME NEW c \in Client PROVE Faithful(c, w)'
  <2>1. Faithful(c, w) /\ shown[c][w] \in Nodes \union {Absent} /\ replay[c] \in Replay
    BY <1>9 DEF ReplayInv, WinTyped, BrowserTyped, DomeTyped
  <2>2. \A z : Apply(z, e) = Apply(z, m)
    BY <1>4 DEF Apply
  <2>3. ASSUME Told(c, w)'
        PROVE  /\ Told(c, w) /\ shown'[c][w] = Apply(shown[c][w], m)
               /\ shown[c][w] \in Nodes
    <3>1. conn[c] = "up" /\ shown'[c][w] = OnNode(shown[c][w], e) /\ shown'[c][w] # Absent
      BY <1>2, <2>3 DEF Told
    <3>2. shown[c][w] # Absent /\ shown'[c][w] = Apply(shown[c][w], m)
      BY <2>2, <3>1 DEF OnNode
    <3>3. Awaits(c) = {}
      <4>1. Awaits(c) # {} => Awaits(c)' # {}
        BY <1>2, AwaitsMove
      <4> QED BY <2>3, <4>1 DEF Told
    <3>4. <<c, w>> \notin raced
      BY <1>5, <2>3 DEF Told
    <3> QED BY <1>5, <1>10, <2>1, <2>3, <3>1, <3>2, <3>3, <3>4 DEF Told
  <2>4. CASE replay[c].at = w
    <3>1. ASSUME e.type = "mount" PROVE <<c, w>> \in raced'
      BY <1>5, <2>4, <3>1 DEF At
    <3>2. ASSUME Told(c, w)'
          PROVE  /\ replay'[c].live /\ replay'[c].sent <= Len(states'[w])
                 /\ Makes(shown'[c][w], states'[w], replay'[c].sent, Shows(states'[w]))
      <4>1. e.type = "update"
        BY <3>1, <3>2 DEF Told
      <4>2. /\ replay[c].live /\ replay[c].sent <= Len(t)
            /\ Makes(shown[c][w], t, replay[c].sent, Shows(t))
        BY <1>6, <2>1, <2>3, <2>4, <3>2 DEF Faithful
      <4>3. replay[c].sent \in 0..Len(t) /\ Len(Append(t, m)) = Len(t) + 1 /\ Len(t) \in Nat
        <5>1. replay[c].sent \in Nat
          BY <2>1 DEF Replay
        <5>2. Len(Append(t, m)) = Len(t) + 1 /\ Len(t) \in Nat
          BY <1>6
        <5> QED BY <4>2, <5>1, <5>2
      <4>4. m.type = "update" /\ shown[c][w] \in Nodes
        BY <1>4, <2>3, <3>2, <4>1
      <4>5. Makes(Apply(shown[c][w], m), Append(t, m), replay[c].sent, Apply(Shows(t), m))
        BY <1>4, <4>2, <4>3, <4>4, MakesUpdate
      <4>6. replay'[c] = replay[c] /\ shown'[c][w] = Apply(shown[c][w], m)
        BY <1>5, <2>3, <3>2
      <4>7. Makes(shown'[c][w], states'[w], replay'[c].sent, Shows(states'[w]))
        BY <1>7, <1>8, <4>5, <4>6
      <4>8. replay[c].sent <= Len(Append(t, m))
        BY <4>3
      <4> QED BY <1>7, <4>2, <4>6, <4>7, <4>8
    <3> QED BY <1>5, <2>4, <3>2 DEF Faithful
  <2>5. CASE replay[c].at # w
    <3>1. ASSUME Told(c, w)' PROVE shown'[c][w] = Shows(states'[w])
      BY <1>6, <1>7, <1>8, <2>1, <2>3, <2>5, <3>1 DEF Faithful
    <3> QED BY <1>5, <2>5, <3>1 DEF Faithful
  <2> QED BY <2>4, <2>5
<1>15. \A r : Leads(Present(states[w]), e, w, r) => Present(states'[w]) = r
  BY <1>13
<1>16. /\ \A x \in Window \ {w} : states'[x] = states[x] /\ (x \in windows' <=> x \in windows)
       /\ \A c \in Client, x \in Window \ {w} :
             shown'[c][x] = shown[c][x] /\ (<<c, x>> \in raced => <<c, x>> \in raced')
  BY <1>2, <1>5, <1>7
<1> QED BY <1>1, <1>2, <1>5, <1>10, <1>12, <1>14, <1>15, <1>16, EventReplay

(* An unmount: what was kept of the node is pruned, and the browsers, which have *)
(* it once, take it away.                                                       *)
LEMMA UnmountEventReplay ==
  ASSUME ReplayInv, WinInv', WinTyped', NEW e, e = Head(toDome), e.type = "unmount", HandleEvent
  PROVE  ReplayInv'
<1>1. PICK w \in Window : w = e.wid
  BY EventShown
<1>2. /\ toDome # <<>> /\ toDome' = Tail(toDome)
      /\ e.node \in Node /\ e.value \in Value
      /\ UNCHANGED <<app, mounted, registry, conn>>
      /\ \A c \in Client, x \in Window : x # w \/ conn[c] # "up" => shown'[c][x] = shown[c][x]
      /\ \A c \in Client : conn[c] = "up" => shown'[c][w] = OnNode(shown[c][w], e)
  <2>1. e.type \in Changes
    BY DEF Changes
  <2> QED BY <1>1, <2>1, EventShown
<1>3. /\ states' = [states EXCEPT ![w] = NotAbout(e.node, @)]
      /\ raced' = raced \union (At(w) \X {w}) /\ replay' = Detach(w) /\ windows' = windows
  BY <1>1 DEF HandleEvent, PruneWindowState
<1>4. PICK t \in Seq(Kept) : t = states[w]
  BY DEF ReplayInv, WinTyped, DomeTyped
<1>5. states'[w] = NotAbout(e.node, t) /\ \A x \in Window \ {w} : states'[x] = states[x]
  BY <1>3, <1>4 DEF ReplayInv, WinTyped, DomeTyped
<1>6. /\ NotAbout(e.node, t) \in Seq(Kept) /\ Shows(t) \in Nodes
      /\ Shows(states'[w]) = [Shows(t) EXCEPT ![e.node] = <<>>]
  BY <1>2, <1>5, ShowsPruned, ShowsTyped
<1>7. InOrder(w) /\ OneCopy(w) /\ Foretold(w) /\ WinTyped /\ WinShape
  BY DEF ReplayInv, WindowKept, WinInv
<1>8. w \in windows
  <2>1. 1 \in Events(w, "unmount") /\ \A i \in Events(w, "create") : i \in Nat \ {0}
    BY <1>1, <1>2, <1>7, EventTaken
  <2>2. \A j \in Events(w, "create") : j < 1
    BY <1>7, <2>1 DEF InOrder, Changes
  <2>3. ~Coming(w)
    BY <2>1, <2>2 DEF Coming
  <2> QED BY <1>7, <2>1, <2>3 DEF InOrder, Changes
<1>9. Shows(t)[e.node] # <<>> /\ Len(Shows(t)[e.node]) <= 1
  <2>1. PICK p : Foreseen(w, p)
    BY <1>7 DEF Foretold
  <2>2. Leads(Present(states[w]), e, w, p[1])
    BY <1>2, <1>7, <2>1, ForetoldHead
  <2>3. e.node \in Present(t)
    BY <1>1, <1>4, <2>2 DEF Leads
  <2> QED BY <1>2, <1>4, <1>7, <2>3 DEF Present, OneCopy
<1>10. Apply(Shows(t), e) = Shows(states'[w])
  <2>1. Tail(Shows(t)[e.node]) = <<>>
    <3>1. Shows(t)[e.node] \in Seq(Value)
      BY <1>2, <1>6 DEF Nodes
    <3>2. ASSUME NEW s \in Seq(Value), s # <<>>, Len(s) <= 1 PROVE Tail(s) = <<>>
      <4>1. Len(s) # 0 /\ Len(s) \in Nat
        BY <3>2, EmptySeq
      <4>2. Len(s) = 1
        <5>1. \A k \in Nat : k # 0 /\ k <= 1 => k = 1
          OBVIOUS
        <5> QED BY <3>2, <4>1, <5>1
      <4>3. Tail(s) \in Seq(Value) /\ Len(Tail(s)) = Len(s) - 1
        BY <3>2
      <4>4. Len(Tail(s)) = 0
        BY <4>2, <4>3
      <4> QED BY <4>3, <4>4, EmptySeq
    <3> QED BY <1>9, <3>1, <3>2
  <2>2. Apply(Shows(t), e) = [Shows(t) EXCEPT ![e.node] = Tail(@)]
    BY <1>9 DEF Apply
  <2> QED BY <1>6, <2>1, <2>2
<1>11. OneCopy(w)'
  <2>1. \A n \in Node : Len(Shows(t)[n]) <= 1
    BY <1>4, <1>7 DEF OneCopy
  <2>2. Len(<<>>) = 0
    OBVIOUS
  <2>3. ASSUME NEW n \in Node PROVE Len(Shows(states'[w])[n]) <= 1
    <3>1. Shows(states'[w])[n] = IF n = e.node THEN <<>> ELSE Shows(t)[n]
      BY <1>6 DEF Nodes
    <3> QED BY <2>1, <2>2, <3>1
  <2> QED BY <2>3 DEF OneCopy
<1>12. ASSUME NEW r, Leads(Present(states[w]), e, w, r) PROVE Present(states'[w]) = r
  <2>1. r = Present(t) \ {e.node}
    BY <1>1, <1>4, <1>12 DEF Leads
  <2>2. \A n \in Node : Shows(states'[w])[n] = IF n = e.node THEN <<>> ELSE Shows(t)[n]
    BY <1>6 DEF Nodes
  <2>3. \A n \in Node : n \in Present(states'[w]) <=> n \in Present(t) \ {e.node}
    BY <2>2 DEF Present
  <2> QED BY <2>1, <2>3 DEF Present
<1>13. \A c \in Client : /\ replay'[c].on = replay[c].on /\ replay'[c].seen = replay[c].seen
                         /\ replay'[c].at = replay[c].at
                         /\ replay[c].at # w => replay'[c] = replay[c]
  BY <1>3, <1>7, DetachedReplay
<1>14. ASSUME NEW c \in Client PROVE Faithful(c, w)'
  <2>1. Faithful(c, w)
    BY DEF ReplayInv
  <2>2. CASE replay[c].at = w
    <3>1. <<c, w>> \in raced'
      BY <1>3, <2>2 DEF At
    <3> QED BY <3>1 DEF Faithful, Told
  <2>3. CASE replay[c].at # w
    <3>1. ASSUME Told(c, w)' PROVE shown'[c][w] = Shows(states'[w])
      <4>1. conn[c] = "up" /\ shown'[c][w] = OnNode(shown[c][w], e) /\ shown'[c][w] # Absent
        BY <1>2, <3>1 DEF Told
      <4>2. shown[c][w] # Absent /\ shown'[c][w] = Apply(shown[c][w], e)
        BY <4>1 DEF OnNode
      <4>3. Awaits(c) = {}
        <5>1. Awaits(c) # {} => Awaits(c)' # {}
          BY <1>2, AwaitsMove
        <5> QED BY <3>1, <5>1 DEF Told
      <4>4. Told(c, w)
        BY <1>3, <1>8, <1>13, <3>1, <4>1, <4>2, <4>3 DEF Told
      <4>5. shown[c][w] = Shows(t)
        BY <1>4, <2>1, <2>3, <4>4 DEF Faithful
      <4> QED BY <1>10, <4>2, <4>5
    <3>2. replay'[c].at # w
      BY <1>13, <2>3
    <3> QED BY <3>1, <3>2 DEF Faithful
  <2> QED BY <2>2, <2>3
<1>15. \A r : Leads(Present(states[w]), e, w, r) => Present(states'[w]) = r
  BY <1>12
<1>16. /\ \A x \in Window \ {w} : states'[x] = states[x] /\ (x \in windows' <=> x \in windows)
       /\ \A c \in Client, x \in Window \ {w} :
             shown'[c][x] = shown[c][x] /\ (<<c, x>> \in raced => <<c, x>> \in raced')
  BY <1>2, <1>3, <1>5
<1>17. /\ e.wid = w /\ e.type # "connect"
       /\ e.type \notin {"create", "destroy"} /\ (w \in windows' <=> w \in windows)
       /\ w \notin windows' => states'[w] = <<>>
  BY <1>1, <1>3, <1>8
<1> QED BY <1>2, <1>11, <1>13, <1>14, <1>15, <1>16, <1>17, EventReplay

(* Every step keeps the invariant.                                              *)
LEMMA ReplayInvNext ==
  ASSUME ReplayInv, [WinNext]_winVars
  PROVE  ReplayInv'
<1>1. WinInv' /\ WinTyped'
  BY WinInvNext, WinTypedNext DEF ReplayInv
<1>2. CASE UNCHANGED winVars
  <2>1. UNCHANGED <<app, mounted, registry, toDome, windows, states, replay, raced, conn, shown>>
    BY <1>2 DEF winVars, libVars, kernelVars, domeVars
  <2>2. /\ \A x \in Window : WindowKept(x)'
        /\ \A c : Awaits(c)' = Awaits(c)
        /\ \A x : Coming(x)' <=> Coming(x)
    BY <2>1, QuietKeeps
  <2>3. \A c \in Client : ReplayOf(c)' /\ \A x \in Window : Faithful(c, x)'
    BY <2>1, <2>2, FaithfulSame
  <2> QED BY <1>1, <2>2, <2>3 DEF ReplayInv
<1>3. CASE HandleEvent
  <2>0. PICK e : e = Head(toDome)
    OBVIOUS
  <2>1. e.type = "connect" \/ e.type \in {"create", "destroy", "mount", "update", "unmount"}
    BY <1>3, <2>0, EventShown
  <2> QED BY <1>1, <1>3, <2>0, <2>1, ConnectEventReplay, CreateEventReplay, DestroyEventReplay,
             KeptEventReplay, UnmountEventReplay
<1>4. ASSUME NEW c \in Client,
             \/ Connect(c) \/ Disconnect(c) \/ ReplayState(c) \/ ReplayEnds(c)
             \/ \E w \in Window : ReplayWindow(c, w)
      PROVE  ReplayInv'
  BY <1>1, <1>4, ConnectReplay, DisconnectReplay, ReplayStateReplay, ReplayEndsReplay,
     ReplayWindowReplay
<1>5. ASSUME NEW w \in Window, CreateWindow(w) \/ OwnerEnds(w) \/ BrowserCloses(w)
      PROVE  ReplayInv'
  BY <1>1, <1>5, CreateReplay, OwnerEndsReplay, BrowserClosesReplay
<1>6. ASSUME NEW w \in Window,
             \/ TimerFires(w) \/ FlushCalled(w) \/ FlushReply(w) \/ CloseCalled(w)
             \/ \E n \in Node : Mount(w, n) \/ Unmount(w, n) \/ UpdateProps(w, n)
      PROVE  ReplayInv'
  BY <1>1, <1>6, LibraryReplay
<1> QED BY <1>2, <1>3, <1>4, <1>5, <1>6 DEF WinNext

LEMMA ReplayInvInit == WinInit => ReplayInv
<1> SUFFICES ASSUME WinInit PROVE ReplayInv
  OBVIOUS
<1>1. WinInv /\ WinTyped
  BY WinInvInit, WinTypedInit
<1>2. /\ toDome = <<>> /\ DOMAIN toDome = {} /\ Len(toDome) = 0
      /\ \A x, t : Events(x, t) = {} /\ \A c : Awaits(c) = {}
  BY DEF WinInit, Events, Awaits
<1>3. ASSUME NEW w \in Window PROVE WindowKept(w)
  <2>1. /\ app[w] = "new" /\ mounted[w] = {} /\ w \notin windows /\ states[w] = <<>>
    BY DEF WinInit
  <2>2. InOrder(w)
    BY <1>2, <2>1 DEF InOrder, Coming
  <2>3. Shows(states[w]) = Empty
    BY <2>1, ShowsNothing
  <2>4. OneCopy(w)
    BY <2>3 DEF OneCopy, Empty
  <2>5. Present(states[w]) = {}
    BY <2>3 DEF Present, Empty
  <2>6. PICK p : p = [i \in {0} |-> {}]
    OBVIOUS
  <2>7. Foreseen(w, p)
    BY <1>2, <2>1, <2>5, <2>6 DEF Foreseen
  <2> QED BY <2>2, <2>4, <2>7 DEF WindowKept, Foretold
<1>4. ASSUME NEW c \in Client PROVE ReplayOf(c) /\ \A w \in Window : Faithful(c, w)
  <2>1. /\ conn[c] = "no" /\ replay[c].at = NoWindow /\ ~replay[c].on /\ replay[c].seen = {}
    BY DEF WinInit, Off
  <2> QED BY <1>2, <2>1 DEF ReplayOf, Faithful, Told
<1> QED BY <1>1, <1>3, <1>4 DEF ReplayInv

(* When it is quiet, a browser shows in a window what all its messages make, in *)
(* their order, whenever it connected and whatever applications updated meanwhile *)
(* (dome.ts:338, dome.ts:360): for any number of windows, nodes, browsers and   *)
(* changes.  The exception is a window replayed while a node came or went in it. *)
THEOREM ReplayIsFaithful == WinSpec => []ReplayFaithful
<1>1. ReplayInv => ReplayFaithful
  <2> SUFFICES ASSUME ReplayInv, Quiet, NEW c \in Client, NEW w \in windows,
                      conn[c] = "up", <<c, w>> \notin raced
               PROVE  shown[c][w] = FoldLeft(Apply, Empty, states[w])
    BY DEF ReplayFaithful
  <2>1. w \in Window /\ WindowsAgree
    BY WindowsAgreed DEF ReplayInv, WinTyped, DomeTyped
  <2>2. shown[c][w] # Absent
    BY <2>1 DEF WindowsAgree
  <2>3. Awaits(c) = {} /\ ~replay[c].on
    BY DEF Quiet, Awaits
  <2>4. replay[c].at # w
    BY <2>1, <2>3, WindowsAssumption DEF ReplayInv, ReplayOf
  <2>5. Told(c, w) /\ Faithful(c, w)
    BY <2>1, <2>2, <2>3 DEF ReplayInv, Told
  <2> QED BY <2>4, <2>5 DEF Faithful, Shows
<1> QED BY <1>1, ReplayInvInit, ReplayInvNext, PTL DEF WinSpec
=================================================================================
