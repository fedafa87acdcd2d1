-------------------------- MODULE DescriptorsProofs --------------------------
(* Theorems about Descriptors, for any number of processes, pipes, sockets    *)
(* and ports.                                                                 *)
EXTENDS Descriptors, FiniteSetTheorems, SequenceTheorems, TLAPS

Slot == Entry \union {NoEntry}

(* Tables keep their bound, and a PID that was never handed out has none. *)
TablesOK ==
    \A p \in Proc : Len(fds[p]) <= MaxFds /\ (proc[p] = "unborn" => fds[p] = <<>>)

(* The end of file of a pipe was told when nobody could write, and nobody can. *)
EofKept == \A k \in eof \ blanks : writeRefs[k] = 0

LEMMA PipeTakes ==
    ASSUME TypeOK, NEW k \in Pipe, Put(k) \/ Take(k)
    PROVE  /\ buffer' \in [Pipe -> Seq(Text)]
           /\ \A j \in Pipe : Len(buffer'[j]) <= MaxData
           /\ eof' \subseteq Pipe /\ blanks' \subseteq eof'
           /\ \A j \in eof' \ blanks' : j \in eof \ blanks \/ (j = k /\ writeRefs[k] = 0)
<1>1. buffer \in [Pipe -> Seq(Text)] /\ buffer[k] \in Seq(Text)
      /\ \A j \in Pipe : Len(buffer[j]) <= MaxData
  BY DEF TypeOK
<1>2. CASE Put(k)
  <2>1. PICK text \in Text : buffer' = [buffer EXCEPT ![k] = Append(@, text)]
    BY <1>2 DEF Put
  <2>2. Append(buffer[k], text) \in Seq(Text)
        /\ Len(Append(buffer[k], text)) = Len(buffer[k]) + 1
    BY <1>1, AppendProperties
  <2>3. Len(buffer[k]) + 1 <= MaxData
    BY <1>1, <1>2, LenProperties, DescriptorsAssumption DEF Put
  <2>4. eof' = eof /\ blanks' = blanks
    BY <1>2 DEF Put
  <2> QED BY <1>1, <2>1, <2>2, <2>3, <2>4 DEF TypeOK
<1>3. CASE buffer[k] # <<>> /\ buffer' = [buffer EXCEPT ![k] = Tail(@)]
           /\ (\/ UNCHANGED <<eof, blanks>>
               \/ eof' = eof \union {k} /\ blanks' = blanks \union {k})
  <2>1. Tail(buffer[k]) \in Seq(Text) /\ Len(Tail(buffer[k])) <= MaxData
    <3>1. Tail(buffer[k]) \in Seq(Text) /\ Len(Tail(buffer[k])) = Len(buffer[k]) - 1
      BY <1>1, <1>3, HeadTailProperties
    <3> QED BY <1>1, <3>1, LenProperties, DescriptorsAssumption
  <2> QED BY <1>1, <1>3, <2>1 DEF TypeOK
<1>4. CASE writeRefs[k] = 0 /\ eof' = eof \union {k} /\ UNCHANGED <<buffer, blanks>>
  BY <1>1, <1>4 DEF TypeOK
<1> QED BY <1>2, <1>3, <1>4 DEF Take

-----------------------------------------------------------------------------
(* Values *)

LEMMA NotAnEntry ==
    /\ NoEntry \notin Entry
    /\ Tty \notin Pipe \union Socket
    /\ \A k \in Pipe \union Socket : \A e : [dev |-> k, end |-> e] # NoEntry
  BY DescriptorsAssumption DEF Entry, NoEntry

LEMMA TerminalIs ==
    /\ Terminal \in Seq(Slot)
    /\ Len(Terminal) = 3
    /\ \A i \in 1 .. 3 : Terminal[i] \in Entry /\ Terminal[i].dev = Tty
<1> DEFINE r == [dev |-> Tty, end |-> "r"]
           w == [dev |-> Tty, end |-> "w"]
<1>1. r \in Entry /\ w \in Entry /\ r.dev = Tty /\ w.dev = Tty
  BY DEF Entry
<1>2. Terminal = <<r, w, w>>
  BY DEF Terminal
<1> HIDE DEF r, w
<1> QED BY <1>1, <1>2 DEF Slot

LEMMA TableTypes ==
    ASSUME TypeOK, TablesOK, NEW p \in Proc
    PROVE  /\ fds[p] \in Seq(Slot) /\ Len(fds[p]) \in 0 .. MaxFds
           /\ DOMAIN fds[p] = 1 .. Len(fds[p])
           /\ OpenFds(p) \subseteq 1 .. Len(fds[p])
           /\ \A i \in OpenFds(p) : fds[p][i] \in Entry
<1>1. fds[p] \in Seq(Slot)
  BY DEF TypeOK, Slot
<1>2. Len(fds[p]) \in Nat /\ DOMAIN fds[p] = 1 .. Len(fds[p])
  BY <1>1, LenProperties
<1>3. \A i \in 1 .. Len(fds[p]) : fds[p][i] \in Slot
  BY <1>1, ElementOfSeq
<1> QED BY <1>1, <1>2, <1>3, DescriptorsAssumption DEF TablesOK, OpenFds, Slot

LEMMA TableOf ==
    ASSUME TypeOK, NEW p \in Proc, NEW s \in Seq(Slot)
    PROVE  [fds EXCEPT ![p] = s] \in [Proc -> Seq(Slot)]
  BY DEF TypeOK, Slot

(* What CLOSE leaves of the tables. *)
LEMMA Closing ==
    ASSUME TypeOK, TablesOK, NEW p \in Proc, NEW S \in SUBSET OpenFds(p),
           CloseFds(p, S)
    PROVE  /\ fds' \in [Proc -> Seq(Slot)]
           /\ \A q \in Proc : Len(fds'[q]) = Len(fds[q])
           /\ \A q \in Proc : \A i \in 1 .. Len(fds[q]) :
                 fds'[q][i] = IF q = p /\ i \in S THEN NoEntry ELSE fds[q][i]
<1> DEFINE n == Len(fds[p])
           e(i) == IF i \in S THEN NoEntry ELSE fds[p][i]
<1>1. fds' = [fds EXCEPT ![p] = [i \in 1 .. n |-> e(i)]]
  BY TableTypes DEF CloseFds
<1>2. n \in Nat /\ \A i \in 1 .. n : e(i) \in Slot
  BY TableTypes, ElementOfSeq DEF Slot
<1>3. [i \in 1 .. n |-> e(i)] \in Seq(Slot)
  <2> HIDE DEF e, n
  <2> QED BY <1>2, IsASeq
<1>4. Len([i \in 1 .. n |-> e(i)]) = n
  BY <1>2
<1>5. fds'[p] = [i \in 1 .. n |-> e(i)] /\ \A q \in Proc \ {p} : fds'[q] = fds[q]
  BY <1>1 DEF TypeOK
<1>6. fds' \in [Proc -> Seq(Slot)]
  BY <1>1, <1>3, TableOf
<1> QED BY <1>4, <1>5, <1>6

(* What DETACH leaves of them. *)
LEMMA Detaching ==
    ASSUME TypeOK, TablesOK, NEW p \in Proc,
           fds' = [fds EXCEPT ![p] = Terminal \o SubSeq(@, 4, Len(@))]
    PROVE  /\ fds' \in [Proc -> Seq(Slot)]
           /\ \A q \in Proc \ {p} : fds'[q] = fds[q]
           /\ Len(fds'[p]) = IF Len(fds[p]) < 3 THEN 3 ELSE Len(fds[p])
           /\ \A i \in 1 .. 3 : fds'[p][i] \in Entry /\ fds'[p][i].dev = Tty
           /\ \A i \in 4 .. Len(fds[p]) : fds'[p][i] = fds[p][i]
<1> DEFINE n == Len(fds[p])
           rest == SubSeq(fds[p], 4, n)
<1>1. n \in Nat /\ \A i \in 4 .. n : fds[p][i] \in Slot
  BY TableTypes, ElementOfSeq
<1>2. /\ rest \in Seq(Slot)
      /\ Len(rest) = IF 4 <= n THEN n - 3 ELSE 0
      /\ \A i \in 1 .. n - 3 : rest[i] = fds[p][i + 3]
  <2>1. /\ rest \in Seq(Slot)
        /\ Len(rest) = IF 4 <= n THEN n - 4 + 1 ELSE 0
        /\ \A i \in 1 .. n - 4 + 1 : rest[i] = fds[p][4 + i - 1]
    <3> HIDE DEF n
    <3> QED BY <1>1, SubSeqProperties
  <2> QED BY <2>1, <1>1
<1>3. /\ Terminal \o rest \in Seq(Slot)
      /\ Len(Terminal \o rest) = 3 + Len(rest)
      /\ \A i \in 1 .. 3 + Len(rest) :
            (Terminal \o rest)[i] = IF i <= 3 THEN Terminal[i] ELSE rest[i - 3]
  <2> HIDE DEF rest
  <2>1. rest \in Seq(Slot) /\ Terminal \in Seq(Slot) /\ Len(Terminal) = 3
    BY <1>2, TerminalIs
  <2>2. /\ Terminal \o rest \in Seq(Slot)
        /\ Len(Terminal \o rest) = Len(Terminal) + Len(rest)
        /\ \A i \in 1 .. Len(Terminal) + Len(rest) : (Terminal \o rest)[i] =
              IF i <= Len(Terminal) THEN Terminal[i] ELSE rest[i - Len(Terminal)]
    BY ONLY <2>1, ConcatProperties
  <2> QED BY <2>1, <2>2
<1>4. fds' = [fds EXCEPT ![p] = Terminal \o rest]
  BY DEF TypeOK
<1>5. fds'[p] = Terminal \o rest /\ \A q \in Proc \ {p} : fds'[q] = fds[q]
  BY <1>4 DEF TypeOK
<1>6. fds' \in [Proc -> Seq(Slot)]
  BY <1>3, <1>4, TableOf
<1>7. \A i \in 1 .. 3 : fds'[p][i] = Terminal[i]
  BY <1>1, <1>2, <1>3, <1>5
<1>8. ASSUME NEW i \in 4 .. n PROVE fds'[p][i] = fds[p][i]
  <2>1. i - 3 \in 1 .. n - 3 /\ (i - 3) + 3 = i /\ Len(rest) = n - 3
    BY <1>1, <1>2
  <2>2. fds'[p][i] = rest[i - 3]
    BY <1>1, <1>3, <1>5, <2>1
  <2>3. rest[i - 3] = fds[p][(i - 3) + 3]
    BY <1>2, <2>1
  <2> QED BY <2>1, <2>2, <2>3
<1> HIDE DEF rest
<1> QED BY <1>1, <1>2, <1>3, <1>5, <1>6, <1>7, <1>8, TerminalIs

-----------------------------------------------------------------------------
(* Counting the ends of pipes *)

(* Ends, as a function of the tables. *)
EndsIn(f, k, end) ==
    {d \in Proc \X (1 .. MaxFds) :
        d[2] \in 1 .. Len(f[d[1]]) /\ f[d[1]][d[2]] = [dev |-> k, end |-> end]}

LEMMA EndsAre ==
    ASSUME fds \in [Proc -> Seq(Slot)], NEW k \in Pipe, NEW end
    PROVE  Ends(k, end) = EndsIn(fds, k, end)
<1>1. \A q \in Proc : DOMAIN fds[q] = 1 .. Len(fds[q])
  BY LenProperties
<1> QED BY <1>1, NotAnEntry DEF Ends, EndsIn, Descriptor, OpenFds

LEMMA EndsAreNext ==
    ASSUME fds' \in [Proc -> Seq(Slot)], NEW k \in Pipe, NEW end
    PROVE  Ends(k, end)' = EndsIn(fds', k, end)
<1>1. \A q \in Proc : DOMAIN fds'[q] = 1 .. Len(fds'[q])
  BY LenProperties
<1> QED BY <1>1, NotAnEntry DEF Ends, EndsIn, Descriptor, OpenFds

LEMMA EndsFinite ==
    ASSUME NEW k, NEW end
    PROVE  IsFiniteSet(Ends(k, end)) /\ Cardinality(Ends(k, end)) \in Nat
<1>1. IsFiniteSet(Proc) /\ IsFiniteSet(1 .. MaxFds)
  BY DescriptorsAssumption, FS_Interval
<1>2. IsFiniteSet(Proc \X (1 .. MaxFds))
  BY <1>1, FS_Product
<1>3. Ends(k, end) \in SUBSET (Proc \X (1 .. MaxFds))
  BY DEF Ends, Descriptor
<1> QED BY <1>2, <1>3, FS_Subset, FS_CardinalityType

(* The ends that p gives up with the descriptors in S. *)
GivenEnds(p, S, k, end) == {p} \X {i \in S : fds[p][i] = [dev |-> k, end |-> end]}

LEMMA GivenIsCounted ==
    ASSUME TypeOK, TablesOK, NEW p \in Proc, NEW S \in SUBSET OpenFds(p),
           NEW k \in Pipe, NEW end
    PROVE  /\ Given(p, S, k, end) \in Nat
           /\ Given(p, S, k, end) <= Cardinality(Ends(k, end))
           /\ Cardinality(Ends(k, end) \ GivenEnds(p, S, k, end)) =
                Cardinality(Ends(k, end)) - Given(p, S, k, end)
<1> DEFINE G == {i \in S : fds[p][i] = [dev |-> k, end |-> end]}
<1>1. S \subseteq 1 .. MaxFds
  BY TableTypes, DescriptorsAssumption
<1>2. IsFiniteSet(1 .. MaxFds)
  BY DescriptorsAssumption, FS_Interval
<1>3. IsFiniteSet(G)
  BY <1>1, <1>2, FS_Subset
<1>4. Cardinality(G) \in Nat
  BY <1>3, FS_CardinalityType
<1>5. Cardinality({p} \X G) = Cardinality(G)
  <2> HIDE DEF G
  <2>1. IsFiniteSet({p}) /\ Cardinality({p}) = 1
    BY FS_Singleton
  <2>2. Cardinality({p} \X G) = 1 * Cardinality(G)
    BY <1>3, <2>1, FS_Product
  <2> QED BY <1>4, <2>2
<1>6. {p} \X G \subseteq Ends(k, end)
  BY <1>1 DEF Ends, Descriptor
<1>7. Ends(k, end) \intersect ({p} \X G) = {p} \X G
  BY <1>6
<1>8. Cardinality({p} \X G) <= Cardinality(Ends(k, end))
  BY <1>6, EndsFinite, FS_Subset
<1>9. Cardinality(Ends(k, end) \ ({p} \X G)) =
         Cardinality(Ends(k, end)) - Cardinality(Ends(k, end) \intersect ({p} \X G))
  BY EndsFinite, FS_Difference
<1>10. Given(p, S, k, end) = Cardinality(G)
  BY DEF Given
<1> QED BY <1>4, <1>5, <1>7, <1>8, <1>9, <1>10 DEF GivenEnds

LEMMA Dropping ==
    ASSUME TypeOK, TablesOK, RefsExact, NEW p \in Proc, NEW S \in SUBSET OpenFds(p),
           DropRefs(p, S),
           \A k \in Pipe : \A end \in {"r", "w"} :
              Ends(k, end)' = Ends(k, end) \ GivenEnds(p, S, k, end)
    PROVE  /\ RefsExact'
           /\ readRefs' \in [Pipe -> Nat] /\ writeRefs' \in [Pipe -> Nat]
           /\ \A k \in Pipe : writeRefs[k] = 0 => writeRefs'[k] = 0
<1>1. ASSUME NEW k \in Pipe
      PROVE  /\ readRefs'[k] = Cardinality(Ends(k, "r")') /\ readRefs'[k] \in Nat
             /\ writeRefs'[k] = Cardinality(Ends(k, "w")') /\ writeRefs'[k] \in Nat
             /\ writeRefs[k] = 0 => writeRefs'[k] = 0
  <2>1. /\ readRefs[k] = Cardinality(Ends(k, "r")) /\ readRefs[k] \in Nat
        /\ writeRefs[k] = Cardinality(Ends(k, "w")) /\ writeRefs[k] \in Nat
    BY DEF RefsExact, TypeOK
  <2>2. /\ Given(p, S, k, "r") \in Nat /\ Given(p, S, k, "w") \in Nat
        /\ Given(p, S, k, "r") <= readRefs[k] /\ Given(p, S, k, "w") <= writeRefs[k]
        /\ Cardinality(Ends(k, "r")') = readRefs[k] - Given(p, S, k, "r")
        /\ Cardinality(Ends(k, "w")') = writeRefs[k] - Given(p, S, k, "w")
    BY <2>1, GivenIsCounted
  <2>3. /\ readRefs'[k] = readRefs[k] - Given(p, S, k, "r")
        /\ writeRefs'[k] = writeRefs[k] - Given(p, S, k, "w")
    BY <2>1, <2>2 DEF DropRefs
  <2> QED BY <2>1, <2>2, <2>3
<1>2. /\ readRefs' = [k \in Pipe |-> readRefs'[k]]
      /\ writeRefs' = [k \in Pipe |-> writeRefs'[k]]
  BY DEF DropRefs
<1> QED BY <1>1, <1>2 DEF RefsExact

LEMMA CloseFdsCounts ==
    ASSUME TypeOK, TablesOK, RefsExact, NEW p \in Proc, NEW S \in SUBSET OpenFds(p),
           CloseFds(p, S)
    PROVE  /\ RefsExact' /\ fds' \in [Proc -> Seq(Slot)]
           /\ readRefs' \in [Pipe -> Nat] /\ writeRefs' \in [Pipe -> Nat]
           /\ \A k \in Pipe : writeRefs[k] = 0 => writeRefs'[k] = 0
<1>1. DropRefs(p, S)
  BY DEF CloseFds
<1>2. /\ fds' \in [Proc -> Seq(Slot)]
      /\ \A q \in Proc : Len(fds'[q]) = Len(fds[q])
      /\ \A q \in Proc : \A i \in 1 .. Len(fds[q]) :
            fds'[q][i] = IF q = p /\ i \in S THEN NoEntry ELSE fds[q][i]
  BY Closing
<1>3. ASSUME NEW k \in Pipe, NEW end \in {"r", "w"}
      PROVE  Ends(k, end)' = Ends(k, end) \ GivenEnds(p, S, k, end)
  <2>1. EndsIn(fds', k, end) = EndsIn(fds, k, end) \ GivenEnds(p, S, k, end)
    <3> DEFINE X == [dev |-> k, end |-> end]
    <3>1. X # NoEntry
      BY NotAnEntry
    <3>2. ASSUME NEW q \in Proc, NEW i \in 1 .. MaxFds
          PROVE  /\ i \in 1 .. Len(fds'[q]) <=> i \in 1 .. Len(fds[q])
                 /\ i \in 1 .. Len(fds[q]) => (fds'[q][i] = X <=>
                       fds[q][i] = X /\ ~(q = p /\ i \in S))
      BY <1>2, <3>1
    <3>3. \A d \in Proc \X (1 .. MaxFds) :
             d \in GivenEnds(p, S, k, end) <=> d[1] = p /\ d[2] \in S /\ fds[p][d[2]] = X
      BY DEF GivenEnds
    <3> HIDE DEF X
    <3> QED BY <3>2, <3>3 DEF EndsIn, X
  <2> QED BY <1>2, <2>1, EndsAre, EndsAreNext DEF TypeOK, Slot
<1> QED BY <1>1, <1>2, <1>3, Dropping

LEMMA DetachCounts ==
    ASSUME TypeOK, TablesOK, RefsExact, NEW p \in Proc, Detach(p)
    PROVE  /\ RefsExact' /\ fds' \in [Proc -> Seq(Slot)]
           /\ readRefs' \in [Pipe -> Nat] /\ writeRefs' \in [Pipe -> Nat]
           /\ \A k \in Pipe : writeRefs[k] = 0 => writeRefs'[k] = 0
<1> DEFINE S == OpenFds(p) \intersect 1 .. 3
<1>1. DropRefs(p, S) /\ fds' = [fds EXCEPT ![p] = Terminal \o SubSeq(@, 4, Len(@))]
  BY DEF Detach
<1>2. /\ fds' \in [Proc -> Seq(Slot)]
      /\ \A q \in Proc \ {p} : fds'[q] = fds[q]
      /\ Len(fds'[p]) = IF Len(fds[p]) < 3 THEN 3 ELSE Len(fds[p])
      /\ \A i \in 1 .. 3 : fds'[p][i] \in Entry /\ fds'[p][i].dev = Tty
      /\ \A i \in 4 .. Len(fds[p]) : fds'[p][i] = fds[p][i]
  BY <1>1, Detaching
<1>3. ASSUME NEW k \in Pipe, NEW end \in {"r", "w"}
      PROVE  Ends(k, end)' = Ends(k, end) \ GivenEnds(p, S, k, end)
  <2> DEFINE X == [dev |-> k, end |-> end]
  <2>1. X # NoEntry /\ X.dev # Tty
    BY NotAnEntry
  <2>2. Len(fds[p]) \in Nat /\ OpenFds(p) = {i \in 1 .. Len(fds[p]) : fds[p][i] # NoEntry}
    BY TableTypes DEF OpenFds
  <2>3. ASSUME NEW i \in 1 .. MaxFds
        PROVE  (i \in 1 .. Len(fds'[p]) /\ fds'[p][i] = X) <=>
               (i \in 1 .. Len(fds[p]) /\ fds[p][i] = X /\ i \notin S)
    <3>1. CASE i <= 3
      <4>1. fds'[p][i] # X
        BY <1>2, <2>1, <3>1, DescriptorsAssumption
      <4>2. i \in 1 .. Len(fds[p]) /\ fds[p][i] = X => i \in S
        BY <2>1, <2>2, <3>1, DescriptorsAssumption
      <4> QED BY <4>1, <4>2
    <3>2. CASE i > 3
      <4>1. i \notin S /\ (i \in 1 .. Len(fds'[p]) <=> i \in 1 .. Len(fds[p]))
        BY <1>2, <2>2, <3>2, DescriptorsAssumption
      <4>2. i \in 1 .. Len(fds[p]) => i \in 4 .. Len(fds[p])
        BY <3>2, <2>2, DescriptorsAssumption
      <4> QED BY <1>2, <4>1, <4>2
    <3> QED BY <3>1, <3>2, DescriptorsAssumption
  <2>4. \A d \in Proc \X (1 .. MaxFds) :
           d \in GivenEnds(p, S, k, end) <=> d[1] = p /\ d[2] \in S /\ fds[p][d[2]] = X
    BY DEF GivenEnds
  <2>5. EndsIn(fds', k, end) = EndsIn(fds, k, end) \ GivenEnds(p, S, k, end)
    <3> HIDE DEF S
    <3>1. \A d \in Proc \X (1 .. MaxFds) :
             (d[2] \in 1 .. Len(fds'[d[1]]) /\ fds'[d[1]][d[2]] = X) <=>
             (d[2] \in 1 .. Len(fds[d[1]]) /\ fds[d[1]][d[2]] = X
              /\ d \notin GivenEnds(p, S, k, end))
      <4> HIDE DEF X
      <4> QED BY <1>2, <2>3, <2>4
    <3> QED BY <3>1 DEF EndsIn
  <2> QED BY <1>2, <2>5, EndsAre, EndsAreNext DEF TypeOK, Slot
<1> HIDE DEF S
<1>4. S \in SUBSET OpenFds(p)
  BY DEF S
<1> QED BY <1>1, <1>2, <1>3, <1>4, Dropping

LEMMA MakePipeCounts ==
    ASSUME TypeOK, TablesOK, RefsExact, NEW p \in Proc, NEW k \in Pipe \ made,
           Len(fds[p]) + 2 <= MaxFds,
           fds' = [fds EXCEPT ![p] = @ \o <<[dev |-> k, end |-> "r"], [dev |-> k, end |-> "w"]>>],
           readRefs' = [readRefs EXCEPT ![k] = 1],
           writeRefs' = [writeRefs EXCEPT ![k] = 1]
    PROVE  RefsExact' /\ fds' \in [Proc -> Seq(Slot)] /\ Len(fds'[p]) = Len(fds[p]) + 2
<1> DEFINE n == Len(fds[p])
           r == [dev |-> k, end |-> "r"]
           w == [dev |-> k, end |-> "w"]
           t == <<r, w>>
<1>1. n \in Nat /\ fds[p] \in Seq(Slot)
  BY TableTypes
<1>2. r \in Slot /\ w \in Slot /\ r # w
  BY DEF Slot, Entry
<1>3. t \in Seq(Slot) /\ Len(t) = 2 /\ t[1] = r /\ t[2] = w
  <2> HIDE DEF r, w
  <2> QED BY <1>2
<1>4. /\ fds[p] \o t \in Seq(Slot)
      /\ Len(fds[p] \o t) = n + 2
      /\ \A i \in 1 .. n + 2 :
            (fds[p] \o t)[i] = IF i <= n THEN fds[p][i] ELSE t[i - n]
  <2> HIDE DEF t
  <2>1. /\ fds[p] \o t \in Seq(Slot)
        /\ Len(fds[p] \o t) = Len(fds[p]) + Len(t)
        /\ \A i \in 1 .. Len(fds[p]) + Len(t) : (fds[p] \o t)[i] =
              IF i <= Len(fds[p]) THEN fds[p][i] ELSE t[i - Len(fds[p])]
    BY ONLY <1>1, <1>3, ConcatProperties
  <2> QED BY <1>3, <2>1
<1>5. fds' \in [Proc -> Seq(Slot)] /\ fds'[p] = fds[p] \o t
      /\ \A q \in Proc \ {p} : fds'[q] = fds[q]
  <2>1. fds' = [fds EXCEPT ![p] = fds[p] \o t]
    BY DEF TypeOK
  <2> HIDE DEF t
  <2> QED BY <1>4, <2>1, TableOf DEF TypeOK
<1>6. ASSUME NEW j \in Pipe \ {k}, NEW end \in {"r", "w"}
      PROVE  Ends(j, end)' = Ends(j, end)
  <2> DEFINE X == [dev |-> j, end |-> end]
  <2>1. X # r /\ X # w
    OBVIOUS
  <2>2. ASSUME NEW i \in 1 .. MaxFds
        PROVE  (i \in 1 .. Len(fds'[p]) /\ fds'[p][i] = X) <=>
               (i \in 1 .. n /\ fds[p][i] = X)
    <3> HIDE DEF X, r, w, t
    <3>1. CASE i <= n
      BY <1>1, <1>4, <1>5, <3>1, DescriptorsAssumption
    <3>2. CASE i = n + 1 \/ i = n + 2
      BY <1>1, <1>3, <1>4, <1>5, <2>1, <3>2, DescriptorsAssumption
    <3>3. CASE i > n + 2
      BY <1>1, <1>4, <1>5, <3>3, DescriptorsAssumption
    <3> QED BY <3>1, <3>2, <3>3, <1>1, DescriptorsAssumption
  <2>3. EndsIn(fds', j, end) = EndsIn(fds, j, end)
    <3> HIDE DEF X, r, w, t
    <3> QED BY <1>5, <2>2 DEF EndsIn, X
  <2> QED BY <1>5, <2>3, EndsAre, EndsAreNext DEF TypeOK, Slot
<1>7. Ends(k, "r")' = {<<p, n + 1>>} /\ Ends(k, "w")' = {<<p, n + 2>>}
  <2>1. \A q \in Proc : \A i \in 1 .. Len(fds[q]) : fds[q][i] # r /\ fds[q][i] # w
    <3>1. \A q \in Proc : DOMAIN fds[q] = 1 .. Len(fds[q])
      BY TableTypes
    <3> QED BY <3>1 DEF made
  <2>2. ASSUME NEW q \in Proc, NEW i \in 1 .. MaxFds
        PROVE  /\ (i \in 1 .. Len(fds'[q]) /\ fds'[q][i] = r) <=> (q = p /\ i = n + 1)
               /\ (i \in 1 .. Len(fds'[q]) /\ fds'[q][i] = w) <=> (q = p /\ i = n + 2)
    <3> HIDE DEF r, w, t
    <3>1. CASE q # p
      BY <1>5, <2>1, <3>1
    <3>2. CASE q = p /\ i <= n
      BY <1>1, <1>4, <1>5, <2>1, <3>2, DescriptorsAssumption
    <3>3. CASE q = p /\ (i = n + 1 \/ i = n + 2)
      BY <1>1, <1>2, <1>3, <1>4, <1>5, <3>3, DescriptorsAssumption
    <3>4. CASE q = p /\ i > n + 2
      BY <1>1, <1>4, <1>5, <3>4, DescriptorsAssumption
    <3> QED BY <3>1, <3>2, <3>3, <3>4, <1>1, DescriptorsAssumption
  <2>3. n + 1 \in 1 .. MaxFds /\ n + 2 \in 1 .. MaxFds
    BY <1>1, DescriptorsAssumption
  <2>4. EndsIn(fds', k, "r") = {<<p, n + 1>>} /\ EndsIn(fds', k, "w") = {<<p, n + 2>>}
    <3>1. /\ EndsIn(fds', k, "r") = {d \in Proc \X (1 .. MaxFds) : d[1] = p /\ d[2] = n + 1}
          /\ EndsIn(fds', k, "w") = {d \in Proc \X (1 .. MaxFds) : d[1] = p /\ d[2] = n + 2}
      <4> HIDE DEF n, t
      <4>1. \A d \in Proc \X (1 .. MaxFds) :
               /\ (d[2] \in 1 .. Len(fds'[d[1]]) /\ fds'[d[1]][d[2]] = r)
                  <=> (d[1] = p /\ d[2] = n + 1)
               /\ (d[2] \in 1 .. Len(fds'[d[1]]) /\ fds'[d[1]][d[2]] = w)
                  <=> (d[1] = p /\ d[2] = n + 2)
        <5> HIDE DEF r, w
        <5> QED BY <2>2
      <4> QED BY <4>1 DEF EndsIn
    <3>2. ASSUME NEW a \in 1 .. MaxFds
          PROVE  {d \in Proc \X (1 .. MaxFds) : d[1] = p /\ d[2] = a} = {<<p, a>>}
      OBVIOUS
    <3> HIDE DEF n
    <3> QED BY <2>3, <3>1, <3>2
  <2> QED BY <1>5, <2>4, EndsAreNext
<1>8. Cardinality(Ends(k, "r")') = 1 /\ Cardinality(Ends(k, "w")') = 1
  BY <1>7, FS_Singleton
<1>9. RefsExact'
  BY <1>6, <1>8 DEF RefsExact, TypeOK
<1> QED BY <1>4, <1>5, <1>9

LEMMA ExecCounts ==
    ASSUME TypeOK, TablesOK, RefsExact, NEW p \in Proc, NEW c \in Proc,
           NEW in \in {Tty} \union Pipe, NEW out \in {Tty} \union Pipe, Exec(p, c, in, out)
    PROVE  /\ RefsExact' /\ fds' \in [Proc -> Seq(Slot)] /\ Len(fds'[c]) = 3
           /\ readRefs' \in [Pipe -> Nat] /\ writeRefs' \in [Pipe -> Nat]
           /\ \A k \in Pipe : writeRefs[k] = 0 => writeRefs'[k] = 0
<1> DEFINE e1 == [dev |-> in, end |-> "r"]
           e2 == [dev |-> out, end |-> "w"]
           e3 == [dev |-> Tty, end |-> "w"]
           t == <<e1, e2, e3>>
<1>1. e1 \in Slot /\ e2 \in Slot /\ e3 \in Slot
  BY DEF Slot, Entry
<1>2. t \in Seq(Slot) /\ Len(t) = 3 /\ t[1] = e1 /\ t[2] = e2 /\ t[3] = e3
  <2> HIDE DEF e1, e2, e3
  <2> QED BY <1>1
<1>3. fds' = [fds EXCEPT ![c] = t] /\ fds[c] = <<>>
  BY DEF Exec, TablesOK
<1>4. /\ fds' \in [Proc -> Seq(Slot)] /\ fds'[c] = t
      /\ \A q \in Proc \ {c} : fds'[q] = fds[q]
  <2> HIDE DEF t
  <2> QED BY <1>2, <1>3, TableOf DEF TypeOK
<1>5. ASSUME NEW k \in Pipe
      PROVE  /\ Ends(k, "r")' = IF k = in THEN Ends(k, "r") \union {<<c, 1>>} ELSE Ends(k, "r")
             /\ Ends(k, "w")' = IF k = out THEN Ends(k, "w") \union {<<c, 2>>} ELSE Ends(k, "w")
             /\ <<c, 1>> \notin Ends(k, "r") /\ <<c, 2>> \notin Ends(k, "w")
  <2> DEFINE r == [dev |-> k, end |-> "r"]
             w == [dev |-> k, end |-> "w"]
  <2>1. /\ e1 = r <=> k = in
        /\ e2 = w <=> k = out
        /\ e1 # w /\ e2 # r /\ e3 # r /\ e3 # w
    <3>1. k # Tty
      BY NotAnEntry
    <3>2. /\ e1.dev = in /\ e1.end = "r" /\ e2.dev = out /\ e2.end = "w"
          /\ e3.dev = Tty /\ r.dev = k /\ r.end = "r" /\ w.dev = k /\ w.end = "w"
      OBVIOUS
    <3> HIDE DEF e3
    <3> QED BY <3>1, <3>2
  <2>2. Len(fds[c]) = 0
    BY <1>3, EmptySeq
  <2>3. \A q \in Proc : Len(fds[q]) \in Nat
    BY TableTypes
  <2>4. \A d \in Proc \X (1 .. MaxFds) :
           /\ (d[2] \in 1 .. Len(fds'[d[1]]) /\ fds'[d[1]][d[2]] = r) <=>
              \/ d[2] \in 1 .. Len(fds[d[1]]) /\ fds[d[1]][d[2]] = r
              \/ k = in /\ d[1] = c /\ d[2] = 1
           /\ (d[2] \in 1 .. Len(fds'[d[1]]) /\ fds'[d[1]][d[2]] = w) <=>
              \/ d[2] \in 1 .. Len(fds[d[1]]) /\ fds[d[1]][d[2]] = w
              \/ k = out /\ d[1] = c /\ d[2] = 2
    <3> HIDE DEF e1, e2, e3, t, r, w
    <3>1. \A q \in Proc \ {c} : fds'[q] = fds[q]
      BY <1>4
    <3>2. ASSUME NEW i \in 1 .. MaxFds
          PROVE  /\ i \notin 1 .. Len(fds[c])
                 /\ (i \in 1 .. Len(fds'[c]) /\ fds'[c][i] = r) <=> (k = in /\ i = 1)
                 /\ (i \in 1 .. Len(fds'[c]) /\ fds'[c][i] = w) <=> (k = out /\ i = 2)
      <4>1. i \in 1 .. 3 => i = 1 \/ i = 2 \/ i = 3
        BY DescriptorsAssumption
      <4>2. Len(fds'[c]) = 3 /\ fds'[c][1] = e1 /\ fds'[c][2] = e2 /\ fds'[c][3] = e3
        BY <1>2, <1>4
      <4>3. i \notin 1 .. Len(fds[c])
        BY <2>2, DescriptorsAssumption
      <4>4. CASE i = 1
        BY <2>1, <4>2, <4>3, <4>4
      <4>5. CASE i = 2
        BY <2>1, <4>2, <4>3, <4>5
      <4>6. CASE i = 3
        BY <2>1, <4>2, <4>3, <4>6
      <4>7. CASE i \notin 1 .. 3
        BY <4>2, <4>3, <4>7
      <4> QED BY <4>1, <4>4, <4>5, <4>6, <4>7
    <3> SUFFICES ASSUME NEW q \in Proc, NEW i \in 1 .. MaxFds
                 PROVE  /\ (i \in 1 .. Len(fds'[q]) /\ fds'[q][i] = r) <=>
                           \/ i \in 1 .. Len(fds[q]) /\ fds[q][i] = r
                           \/ k = in /\ q = c /\ i = 1
                        /\ (i \in 1 .. Len(fds'[q]) /\ fds'[q][i] = w) <=>
                           \/ i \in 1 .. Len(fds[q]) /\ fds[q][i] = w
                           \/ k = out /\ q = c /\ i = 2
      OBVIOUS
    <3>3. CASE q = c
      BY <3>2, <3>3
    <3>4. CASE q # c
      BY <3>1, <3>4
    <3> QED BY <3>3, <3>4
  <2>5. 1 \in 1 .. MaxFds /\ 2 \in 1 .. MaxFds
    BY DescriptorsAssumption
  <2>6. \A d \in Proc \X (1 .. MaxFds) : \A a \in {1, 2} :
           d[1] = c /\ d[2] = a <=> d = <<c, a>>
    OBVIOUS
  <2>7. /\ EndsIn(fds', k, "r") = IF k = in THEN EndsIn(fds, k, "r") \union {<<c, 1>>}
                                           ELSE EndsIn(fds, k, "r")
        /\ EndsIn(fds', k, "w") = IF k = out THEN EndsIn(fds, k, "w") \union {<<c, 2>>}
                                            ELSE EndsIn(fds, k, "w")
    <3> <<c, 1>> \in Proc \X (1 .. MaxFds) /\ <<c, 2>> \in Proc \X (1 .. MaxFds)
      BY <2>5
    <3> QED BY <2>4, <2>6 DEF EndsIn
  <2>8. <<c, 1>> \notin EndsIn(fds, k, "r") /\ <<c, 2>> \notin EndsIn(fds, k, "w")
    BY <2>2 DEF EndsIn
  <2> QED BY <1>4, <2>7, <2>8, EndsAre, EndsAreNext DEF TypeOK, Slot
<1>6. ASSUME NEW k \in Pipe
      PROVE  /\ readRefs'[k] = Cardinality(Ends(k, "r")') /\ readRefs'[k] \in Nat
             /\ writeRefs'[k] = Cardinality(Ends(k, "w")') /\ writeRefs'[k] \in Nat
  <2>1. /\ Cardinality(Ends(k, "r")') = IF k = in THEN readRefs[k] + 1 ELSE readRefs[k]
        /\ Cardinality(Ends(k, "w")') = IF k = out THEN writeRefs[k] + 1 ELSE writeRefs[k]
    <3>1. /\ Cardinality(Ends(k, "r") \union {<<c, 1>>}) = readRefs[k] + 1
          /\ Cardinality(Ends(k, "w") \union {<<c, 2>>}) = writeRefs[k] + 1
      <4>1. /\ Cardinality(Ends(k, "r") \union {<<c, 1>>}) = Cardinality(Ends(k, "r")) + 1
            /\ Cardinality(Ends(k, "w") \union {<<c, 2>>}) = Cardinality(Ends(k, "w")) + 1
        <5>1. <<c, 1>> \notin Ends(k, "r") /\ <<c, 2>> \notin Ends(k, "w")
          BY <1>5
        <5>2. IsFiniteSet(Ends(k, "r")) /\ IsFiniteSet(Ends(k, "w"))
          BY EndsFinite
        <5> QED BY ONLY <5>1, <5>2, FS_AddElement
      <4> QED BY <4>1 DEF RefsExact
    <3> QED BY <1>5, <3>1 DEF RefsExact
  <2>2. readRefs[k] \in Nat /\ writeRefs[k] \in Nat
    BY DEF TypeOK
  <2>3. /\ readRefs'[k] = IF k = in THEN readRefs[k] + 1 ELSE readRefs[k]
        /\ writeRefs'[k] = IF k = out THEN writeRefs[k] + 1 ELSE writeRefs[k]
    BY DEF Exec
  <2> QED BY <2>1, <2>2, <2>3
<1>7. ASSUME NEW k \in Pipe, writeRefs[k] = 0 PROVE writeRefs'[k] = 0
  <2>1. Cardinality(Ends(k, "w")) = 0
    BY <1>7 DEF RefsExact
  <2>2. Ends(k, "w") = {}
    BY <2>1, EndsFinite, FS_EmptySet
  <2>3. ~Holds(p, k, "w")
    <3>1. OpenFds(p) \subseteq 1 .. MaxFds
      BY TableTypes, DescriptorsAssumption
    <3>2. ASSUME NEW i \in OpenFds(p), fds[p][i] = [dev |-> k, end |-> "w"]
          PROVE  FALSE
      <4>1. <<p, i>> \in Ends(k, "w")
        BY <3>1, <3>2 DEF Ends, Descriptor
      <4> QED BY <2>2, <4>1
    <3> QED BY <3>2 DEF Holds
  <2>4. k # out
    BY <2>3, NotAnEntry DEF Exec
  <2> QED BY <1>7, <2>4 DEF Exec, TypeOK
<1>8. readRefs' \in [Pipe -> Nat] /\ writeRefs' \in [Pipe -> Nat]
  BY <1>6 DEF Exec
<1> QED BY <1>2, <1>4, <1>6, <1>7, <1>8 DEF RefsExact

(* SOCKET appends one entry, which is no pipe's. *)
LEMMA SocketAdds ==
    ASSUME TypeOK, TablesOK, NEW p \in Proc, NEW s \in Socket,
           fds' = [fds EXCEPT ![p] = Append(@, [dev |-> s, end |-> "r"])]
    PROVE  /\ fds' \in [Proc -> Seq(Slot)]
           /\ \A q \in Proc \ {p} : fds'[q] = fds[q]
           /\ Len(fds'[p]) = Len(fds[p]) + 1
           /\ \A i \in 1 .. Len(fds[p]) : fds'[p][i] = fds[p][i]
           /\ fds'[p][Len(fds[p]) + 1] = [dev |-> s, end |-> "r"]
<1> DEFINE e == [dev |-> s, end |-> "r"]
<1>1. e \in Slot /\ fds[p] \in Seq(Slot)
  BY TableTypes DEF Slot, Entry
<1> HIDE DEF e
<1>2. /\ Append(fds[p], e) \in Seq(Slot)
      /\ Len(Append(fds[p], e)) = Len(fds[p]) + 1
      /\ \A i \in 1 .. Len(fds[p]) : Append(fds[p], e)[i] = fds[p][i]
      /\ Append(fds[p], e)[Len(fds[p]) + 1] = e
  BY <1>1
<1>3. fds' = [fds EXCEPT ![p] = Append(fds[p], e)]
  BY DEF e
<1>4. fds' \in [Proc -> Seq(Slot)]
  BY <1>2, <1>3, TableOf
<1>5. fds'[p] = Append(fds[p], e) /\ \A q \in Proc \ {p} : fds'[q] = fds[q]
  BY <1>3 DEF TypeOK
<1> QED BY <1>2, <1>4, <1>5 DEF e

LEMMA MakeSocketCounts ==
    ASSUME TypeOK, TablesOK, RefsExact, NEW p \in Proc, NEW s \in Socket,
           fds' = [fds EXCEPT ![p] = Append(@, [dev |-> s, end |-> "r"])],
           UNCHANGED <<readRefs, writeRefs>>
    PROVE  RefsExact'
<1>1. /\ fds' \in [Proc -> Seq(Slot)]
      /\ \A q \in Proc \ {p} : fds'[q] = fds[q]
      /\ Len(fds'[p]) = Len(fds[p]) + 1
      /\ \A i \in 1 .. Len(fds[p]) : fds'[p][i] = fds[p][i]
      /\ fds'[p][Len(fds[p]) + 1] = [dev |-> s, end |-> "r"]
  BY SocketAdds
<1>2. ASSUME NEW k \in Pipe, NEW end \in {"r", "w"}
      PROVE  Ends(k, end)' = Ends(k, end)
  <2> DEFINE X == [dev |-> k, end |-> end]
  <2>1. X # [dev |-> s, end |-> "r"]
    BY DescriptorsAssumption
  <2>2. ASSUME NEW q \in Proc, NEW i \in 1 .. MaxFds
        PROVE  (i \in 1 .. Len(fds'[q]) /\ fds'[q][i] = X) <=>
               (i \in 1 .. Len(fds[q]) /\ fds[q][i] = X)
    <3> HIDE DEF X
    <3>1. CASE q # p
      BY <1>1, <3>1
    <3>2. CASE q = p /\ i = Len(fds[p]) + 1
      BY <1>1, <2>1, <3>2, TableTypes
    <3>3. CASE q = p /\ i # Len(fds[p]) + 1
      BY <1>1, <3>3, TableTypes, DescriptorsAssumption
    <3> QED BY <3>1, <3>2, <3>3
  <2>3. \A d \in Proc \X (1 .. MaxFds) :
           (d[2] \in 1 .. Len(fds'[d[1]]) /\ fds'[d[1]][d[2]] = X) <=>
           (d[2] \in 1 .. Len(fds[d[1]]) /\ fds[d[1]][d[2]] = X)
    <3> HIDE DEF X
    <3> QED BY <2>2
  <2>4. EndsIn(fds', k, end) = EndsIn(fds, k, end)
    BY <2>3 DEF EndsIn
  <2> QED BY <1>1, <2>4, EndsAre, EndsAreNext DEF TypeOK, Slot
<1> QED BY <1>2 DEF RefsExact

-----------------------------------------------------------------------------
(* The steps *)

DescInv == TypeOK /\ TablesOK /\ RefsExact /\ EofKept

LEMMA DescInit == Init => DescInv
<1> SUFFICES ASSUME Init PROVE DescInv
  OBVIOUS
<1>1. fds \in [Proc -> Seq(Slot)]
  BY TerminalIs, EmptySeq DEF Init
<1>2. TypeOK
  BY <1>1, DescriptorsAssumption DEF Init, TypeOK, Slot, ProcStates, NoPort
<1>3. TablesOK
  <2>1. Len(<<>>) = 0 /\ Root \in Proc
    BY DescriptorsAssumption
  <2>2. \A p \in Proc : IF p = Root THEN fds[p] = Terminal /\ proc[p] = "live"
                                    ELSE fds[p] = <<>>
    BY DEF Init
  <2> SUFFICES ASSUME NEW p \in Proc
               PROVE  Len(fds[p]) <= MaxFds /\ (proc[p] = "unborn" => fds[p] = <<>>)
    BY DEF TablesOK
  <2>3. CASE p = Root
    BY <2>2, <2>3, TerminalIs, DescriptorsAssumption
  <2>4. CASE p # Root
    BY <2>1, <2>2, <2>4, DescriptorsAssumption
  <2> QED BY <2>3, <2>4
<1>4. ASSUME NEW k \in Pipe, NEW end PROVE Ends(k, end) = {}
  <2>1. \A q \in Proc : \A i \in 1 .. Len(fds[q]) : fds[q][i] # [dev |-> k, end |-> end]
    <3> DEFINE X == [dev |-> k, end |-> end]
    <3>1. X.dev # Tty
      BY NotAnEntry
    <3> HIDE DEF X
    <3>2. \A i \in 1 .. 3 : Terminal[i] # X
      BY <3>1, TerminalIs
    <3>3. \A q \in Proc : fds[q] = Terminal \/ Len(fds[q]) = 0
      BY EmptySeq DEF Init
    <3> QED BY <3>2, <3>3, TerminalIs DEF X
  <2> QED BY <1>1, <2>1, EndsAre DEF EndsIn
<1>5. RefsExact
  BY <1>4, FS_EmptySet DEF Init, RefsExact
<1>6. EofKept
  BY DEF Init, EofKept
<1> QED BY <1>2, <1>3, <1>5, <1>6 DEF DescInv

(* Steps that leave tables and counts alone. *)
LEMMA CountsKept ==
    ASSUME RefsExact, UNCHANGED <<fds, readRefs, writeRefs>>
    PROVE  RefsExact'
  BY DEF RefsExact, Ends, Descriptor, OpenFds

(* A close, and what goes with it: the types of the rest. *)
LEMMA CloseKeeps ==
    ASSUME DescInv, NEW p \in Proc, NEW S \in SUBSET OpenFds(p), CloseFds(p, S),
           NEW N, ReleasePorts(N), NEW M, Unregister(M),
           proc' \in [Proc -> ProcStates], proc[p] # "unborn",
           \A q \in Proc : proc'[q] = "unborn" => proc[q] = "unborn",
           waited' \subseteq Proc, UNCHANGED <<buffer, eof, blanks, sockPort>>
    PROVE  DescInv'
<1>1. /\ RefsExact' /\ fds' \in [Proc -> Seq(Slot)]
      /\ readRefs' \in [Pipe -> Nat] /\ writeRefs' \in [Pipe -> Nat]
      /\ \A k \in Pipe : writeRefs[k] = 0 => writeRefs'[k] = 0
  BY CloseFdsCounts DEF DescInv
<1>2. TypeOK'
  BY <1>1 DEF DescInv, TypeOK, Slot, ReleasePorts, Unregister
<1>3. TablesOK'
  <2>1. \A q \in Proc : Len(fds'[q]) = Len(fds[q])
    BY Closing DEF DescInv
  <2>2. \A q \in Proc \ {p} : fds'[q] = fds[q]
    BY DEF CloseFds, DescInv, TypeOK
  <2> QED BY <2>1, <2>2 DEF DescInv, TablesOK, TypeOK
<1>4. EofKept'
  BY <1>1 DEF DescInv, EofKept, TypeOK
<1> QED BY <1>1, <1>2, <1>3, <1>4 DEF DescInv

LEMMA DescNext == DescInv /\ [Next]_vars => DescInv'
<1> SUFFICES ASSUME DescInv, [Next]_vars PROVE DescInv'
  OBVIOUS
<1> USE DEF DescInv
<1>1. ASSUME NEW p \in Proc, MakePipe(p) PROVE DescInv'
  <2>1. PICK k \in Pipe \ made :
          /\ fds' = [fds EXCEPT ![p] = @ \o <<[dev |-> k, end |-> "r"],
                                              [dev |-> k, end |-> "w"]>>]
          /\ readRefs' = [readRefs EXCEPT ![k] = 1]
          /\ writeRefs' = [writeRefs EXCEPT ![k] = 1]
          /\ buffer' = [buffer EXCEPT ![k] = <<>>]
          /\ eof' = eof \ {k} /\ blanks' = blanks \ {k}
    BY <1>1 DEF MakePipe
  <2>2. RefsExact' /\ fds' \in [Proc -> Seq(Slot)] /\ Len(fds'[p]) = Len(fds[p]) + 2
    BY <1>1, <2>1, MakePipeCounts DEF MakePipe
  <2>3. TypeOK'
    <3>1. <<>> \in Seq(Text) /\ Len(<<>>) <= MaxData
      BY DescriptorsAssumption
    <3>2. /\ buffer' \in [Pipe -> Seq(Text)] /\ \A j \in Pipe : Len(buffer'[j]) <= MaxData
          /\ eof' \subseteq Pipe /\ blanks' \subseteq eof'
      BY <2>1, <3>1 DEF TypeOK
    <3> HIDE DEF DescInv
    <3>3. TypeOK BY DEF DescInv
    <3> QED BY <1>1, <2>1, <2>2, <3>2, <3>3 DEF MakePipe, TypeOK, Slot, portVars
  <2>4. TablesOK'
    BY <1>1, <2>1, <2>2 DEF MakePipe, TablesOK, TypeOK, Calls
  <2>5. EofKept'
    BY <2>1 DEF EofKept, TypeOK
  <2> QED BY <2>2, <2>3, <2>4, <2>5
<1>2. ASSUME NEW p \in Proc, MakeSocket(p) PROVE DescInv'
  <2>1. PICK s \in Socket \ made :
          /\ fds' = [fds EXCEPT ![p] = Append(@, [dev |-> s, end |-> "r"])]
          /\ sockPort' = [sockPort EXCEPT ![s] = NoPort]
    BY <1>2 DEF MakeSocket
  <2>2. UNCHANGED <<readRefs, writeRefs, buffer, eof, blanks>>
    BY <1>2 DEF MakeSocket, pipeVars
  <2>3. RefsExact'
    BY <2>1, <2>2, MakeSocketCounts
  <2>4. fds' \in [Proc -> Seq(Slot)] /\ Len(fds'[p]) = Len(fds[p]) + 1
    BY <2>1, SocketAdds
  <2>5. TypeOK'
    BY <1>2, <2>1, <2>2, <2>4 DEF MakeSocket, TypeOK, Slot
  <2>6. TablesOK'
    BY <1>2, <2>1, <2>4 DEF MakeSocket, TablesOK, TypeOK, Calls
  <2>7. EofKept'
    BY <2>2 DEF EofKept
  <2> QED BY <2>3, <2>5, <2>6, <2>7
<1>3. ASSUME NEW p \in Proc, Exit(p) PROVE DescInv'
  <2>1. CloseFds(p, OpenFds(p)) /\ ReleasePorts(BoundPorts(p, OpenFds(p)))
        /\ Unregister(BoundPorts(p, OpenFds(p)))
    BY <1>3 DEF Exit
  <2>2. proc' = [proc EXCEPT ![p] = "dying"] /\ UNCHANGED <<waited, buffer, eof, blanks, sockPort>>
    BY <1>3 DEF Exit
  <2>3. /\ proc' \in [Proc -> ProcStates] /\ proc[p] # "unborn"
        /\ \A q \in Proc : proc'[q] = "unborn" => proc[q] = "unborn"
        /\ waited' \subseteq Proc
    BY <1>3, <2>2 DEF Exit, Calls, TypeOK, ProcStates
  <2> QED BY <2>1, <2>2, <2>3, CloseKeeps
<1>4. ASSUME NEW p \in Proc, NEW i \in DOMAIN fds[p], Close(p, i) PROVE DescInv'
  <2>1. {i} \in SUBSET OpenFds(p) /\ CloseFds(p, {i}) /\ ReleasePorts(BoundPorts(p, {i}))
        /\ Unregister(BoundPorts(p, {i}))
    BY <1>4 DEF Close
  <2>2. UNCHANGED <<proc, waited, buffer, eof, blanks, sockPort>>
    BY <1>4 DEF Close
  <2>3. /\ proc' \in [Proc -> ProcStates] /\ proc[p] # "unborn"
        /\ \A q \in Proc : proc'[q] = "unborn" => proc[q] = "unborn"
        /\ waited' \subseteq Proc
    BY <1>4, <2>2 DEF Close, Calls, TypeOK
  <2> QED BY <2>1, <2>2, <2>3, CloseKeeps
<1>5. ASSUME NEW p \in Proc, WorkerExit(p) PROVE DescInv'
  <2>1. CloseFds(p, HookFds(p)) /\ ReleasePorts(BoundPorts(p, HookFds(p)) \union OwnedPorts(p))
        /\ Unregister(BoundPorts(p, HookFds(p)))
    BY <1>5 DEF WorkerExit
  <2>2. HookFds(p) \in SUBSET OpenFds(p)
    BY DEF HookFds
  <2>3. /\ proc' = [proc EXCEPT ![p] = IF p \in waited THEN "reaped" ELSE "zombie"]
        /\ waited' = waited \ {p} /\ UNCHANGED <<buffer, eof, blanks, sockPort>>
    BY <1>5 DEF WorkerExit
  <2>4. /\ proc' \in [Proc -> ProcStates] /\ proc[p] # "unborn"
        /\ \A q \in Proc : proc'[q] = "unborn" => proc[q] = "unborn"
        /\ waited' \subseteq Proc
    BY <1>5, <2>3 DEF WorkerExit, TypeOK, ProcStates
  <2> QED BY <2>1, <2>2, <2>3, <2>4, CloseKeeps
<1>6. ASSUME NEW p \in Proc, Detach(p) PROVE DescInv'
  <2>1. /\ RefsExact' /\ fds' \in [Proc -> Seq(Slot)]
        /\ readRefs' \in [Pipe -> Nat] /\ writeRefs' \in [Pipe -> Nat]
        /\ \A k \in Pipe : writeRefs[k] = 0 => writeRefs'[k] = 0
    BY <1>6, DetachCounts
  <2>2. UNCHANGED <<proc, buffer, eof, blanks, portVars>> /\ waited' = waited \ {p}
    BY <1>6 DEF Detach
  <2>3. TypeOK'
    BY <2>1, <2>2 DEF TypeOK, Slot, portVars
  <2>4. TablesOK'
    <3>1. fds' = [fds EXCEPT ![p] = Terminal \o SubSeq(@, 4, Len(@))]
      BY <1>6 DEF Detach
    <3>2. /\ \A q \in Proc \ {p} : fds'[q] = fds[q]
          /\ Len(fds'[p]) = IF Len(fds[p]) < 3 THEN 3 ELSE Len(fds[p])
      BY <3>1, Detaching
    <3> QED BY <1>6, <2>2, <3>2, DescriptorsAssumption DEF TablesOK, Detach, Calls
  <2>5. EofKept'
    BY <2>1, <2>2 DEF EofKept, TypeOK
  <2> QED BY <2>1, <2>3, <2>4, <2>5
<1>7. ASSUME NEW p \in Proc, NEW c \in Proc, NEW in \in {Tty} \union Pipe,
             NEW out \in {Tty} \union Pipe, Exec(p, c, in, out)
      PROVE  DescInv'
  <2>1. /\ RefsExact' /\ fds' \in [Proc -> Seq(Slot)] /\ Len(fds'[c]) = 3
        /\ readRefs' \in [Pipe -> Nat] /\ writeRefs' \in [Pipe -> Nat]
        /\ \A k \in Pipe : writeRefs[k] = 0 => writeRefs'[k] = 0
    BY <1>7, ExecCounts
  <2>2. UNCHANGED <<waited, buffer, eof, blanks, portVars>> /\ proc' = [proc EXCEPT ![c] = "live"]
    BY <1>7 DEF Exec
  <2>3. TypeOK'
    BY <2>1, <2>2 DEF TypeOK, Slot, portVars, ProcStates
  <2>4. \A q \in Proc \ {c} : fds'[q] = fds[q]
    BY <1>7 DEF Exec, TypeOK
  <2>5. TablesOK'
    BY <2>1, <2>2, <2>4, DescriptorsAssumption DEF TablesOK, TypeOK
  <2>6. EofKept'
    BY <2>1, <2>2 DEF EofKept, TypeOK
  <2> QED BY <2>1, <2>3, <2>5, <2>6
<1>8. ASSUME NEW k \in Pipe, Put(k) \/ Take(k), NEW p \in Proc,
             UNCHANGED <<proc, waited, fds, readRefs, writeRefs, portVars>>
      PROVE  DescInv'
  <2>1. RefsExact'
    BY <1>8, CountsKept
  <2>2. TypeOK'
    <3>2. /\ buffer' \in [Pipe -> Seq(Text)] /\ \A j \in Pipe : Len(buffer'[j]) <= MaxData
          /\ eof' \subseteq Pipe /\ blanks' \subseteq eof'
      BY <1>8, PipeTakes
    <3>3. UNCHANGED <<proc, waited, fds, readRefs, writeRefs, sockPort, usedPorts,
                      portOwner, handler>>
      BY <1>8 DEF portVars
    <3> QED BY <3>2, <3>3 DEF TypeOK
  <2>3. TablesOK' /\ EofKept'
    BY <1>8, PipeTakes DEF TablesOK, EofKept
  <2> QED BY <2>1, <2>2, <2>3
<1>9. ASSUME NEW p \in Proc, NEW s \in Socket, NEW n \in Port, Bind(p, s, n) PROVE DescInv'
  <2>1. UNCHANGED <<proc, waited, fds, pipeVars>>
    BY <1>9 DEF Bind
  <2>2. RefsExact'
    BY <2>1, CountsKept DEF pipeVars
  <2>3. TypeOK'
    BY <1>9 DEF TypeOK, Bind, pipeVars
  <2> QED BY <2>1, <2>2, <2>3 DEF TablesOK, EofKept, pipeVars
<1>10. ASSUME NEW p \in Proc, Stop(p) \/ WorkerError(p) \/ WaitLive(p) \/ WaitEnded(p)
       PROVE  DescInv'
  <2>1. UNCHANGED <<fds, pipeVars, portVars>>
    BY <1>10 DEF Stop, WorkerError, WaitLive, WaitEnded
  <2>2. /\ proc' \in [Proc -> ProcStates] /\ waited' \subseteq Proc
        /\ \A q \in Proc : proc'[q] = "unborn" => proc[q] = "unborn"
    BY <1>10 DEF Stop, WorkerError, WaitLive, WaitEnded, TypeOK, ProcStates
  <2>3. RefsExact'
    BY <2>1, CountsKept DEF pipeVars
  <2> QED BY <2>1, <2>2, <2>3 DEF TypeOK, TablesOK, EofKept, pipeVars, portVars
<1>11. CASE UNCHANGED vars
  <2>1. RefsExact'
    BY <1>11, CountsKept DEF vars
  <2> QED BY <1>11, <2>1 DEF vars, TypeOK, TablesOK, EofKept
<1>12. ASSUME NEW p \in Proc, NEW q \in Proc, NEW k \in Pipe,
              Write(p, k) \/ Read(p, k) \/ WriteTo(p, q, k) \/ ReadFrom(p, q, k)
       PROVE  DescInv'
  <2>1. Put(k) \/ Take(k)
    BY <1>12 DEF Write, Read, WriteTo, ReadFrom
  <2>2. UNCHANGED <<proc, waited, fds, readRefs, writeRefs, portVars>>
    BY <1>12 DEF Write, Read, WriteTo, ReadFrom
  <2> QED BY <1>8, <2>1, <2>2
<1> HIDE DEF DescInv
<1> QED BY <1>1, <1>2, <1>3, <1>4, <1>5, <1>6, <1>7, <1>9, <1>10, <1>11, <1>12 DEF Next

-----------------------------------------------------------------------------
(* Theorems *)

(* Every reachable state has the declared types, with no more strings in a     *)
(* pipe than there may be.                                                     *)
THEOREM DescriptorsTypeCorrect == Spec => []TypeOK
<1>1. DescInv => TypeOK
  BY DEF DescInv
<1> QED BY <1>1, DescInit, DescNext, PTL DEF Spec

(* PipeDevice's counts are exactly the open descriptors (PIPE, EXEC, CLOSE,    *)
(* DETACH, EXIT and the exit hook of Syscalls.ts).                             *)
THEOREM CountsAreDescriptors == Spec => []RefsExact
<1>1. DescInv => RefsExact
  BY DEF DescInv
<1> QED BY <1>1, DescInit, DescNext, PTL DEF Spec

(* The end of file is final (PipeDevice.ts:21): whoever is told it, nobody has *)
(* the write end, since the counts are exact and only a holder passes it on.   *)
THEOREM EndOfFileIsFinal == Spec => []EofMeansNoWriter
<1>1. DescInv => EofMeansNoWriter
  <2> SUFFICES ASSUME DescInv, NEW k \in eof \ blanks, NEW p \in Proc, Holds(p, k, "w")
               PROVE  FALSE
    BY DEF EofMeansNoWriter
  <2> USE DEF DescInv
  <2>1. k \in Pipe /\ Cardinality(Ends(k, "w")) = 0
    BY DEF TypeOK, EofKept, RefsExact
  <2>2. Ends(k, "w") = {}
    BY <2>1, EndsFinite, FS_EmptySet
  <2>3. PICK i \in OpenFds(p) : fds[p][i] = [dev |-> k, end |-> "w"]
    BY DEF Holds
  <2>4. i \in 1 .. MaxFds
    BY TableTypes, DescriptorsAssumption
  <2>5. <<p, i>> \in Ends(k, "w")
    BY <2>3, <2>4 DEF Ends, Descriptor
  <2> QED BY <2>2, <2>5
<1> QED BY <1>1, DescInit, DescNext, PTL DEF Spec

-----------------------------------------------------------------------------
(* Sockets, ports and zombies *)

SocketAt(p, i, s) == i \in OpenFds(p) /\ fds[p][i].dev = s

(* A socket has one descriptor: no syscall passes it on. *)
OneDescriptor ==
    \A p, q \in Proc, s \in Socket : \A i, j \in 1 .. MaxFds :
        SocketAt(p, i, s) /\ SocketAt(q, j, s) => p = q /\ i = j

(* Until the exit hook has run, a bound socket has its port and its packets,   *)
(* and no other process is the owner of the port.                              *)
BoundOK ==
    \A p \in Proc, s \in Socket : \A i \in 1 .. MaxFds :
        proc[p] \in {"live", "dying", "errored"} /\ SocketAt(p, i, s) /\ sockPort[s] # NoPort =>
            /\ sockPort[s] \in usedPorts
            /\ handler[sockPort[s]] = s
            /\ portOwner[sockPort[s]] \in {p, NoPid}

(* A port that is free has no owner. *)
OwnersUse == \A n \in Port : portOwner[n] # NoPid => n \in usedPorts

SocketInv == OneDescriptor /\ BoundOK /\ ZombieHoldsNothing

LEMMA OpenNext ==
    ASSUME DescInv, DescInv', NEW q \in Proc
    PROVE  /\ OpenFds(q) = {i \in 1 .. Len(fds[q]) : fds[q][i] # NoEntry}
           /\ OpenFds(q)' = {i \in 1 .. Len(fds'[q]) : fds'[q][i] # NoEntry}
           /\ OpenFds(q) \subseteq 1 .. MaxFds /\ OpenFds(q)' \subseteq 1 .. MaxFds
           /\ Len(fds[q]) \in Nat /\ Len(fds'[q]) \in Nat
<1>1. fds \in [Proc -> Seq(Slot)] /\ fds' \in [Proc -> Seq(Slot)]
  BY DEF DescInv, TypeOK, Slot
<1>2. /\ Len(fds[q]) \in Nat /\ DOMAIN fds[q] = 1 .. Len(fds[q])
      /\ Len(fds'[q]) \in Nat /\ DOMAIN fds'[q] = 1 .. Len(fds'[q])
  BY <1>1, LenProperties
<1>3. Len(fds[q]) <= MaxFds /\ Len(fds'[q]) <= MaxFds
  BY DEF DescInv, TablesOK
<1> QED BY <1>2, <1>3, DescriptorsAssumption DEF OpenFds

(* A close takes the descriptors S of p, and leaves the others. *)
LEMMA ClosedSockets ==
    ASSUME DescInv, DescInv', NEW p \in Proc, NEW S \in SUBSET OpenFds(p), CloseFds(p, S),
           NEW q \in Proc, NEW i, NEW s \in Socket, SocketAt(q, i, s)'
    PROVE  SocketAt(q, i, s) /\ ~(q = p /\ i \in S)
<1>1. /\ Len(fds'[q]) = Len(fds[q])
      /\ \A j \in 1 .. Len(fds[q]) :
            fds'[q][j] = IF q = p /\ j \in S THEN NoEntry ELSE fds[q][j]
  BY Closing DEF DescInv
<1>2. i \in 1 .. Len(fds'[q]) /\ fds'[q][i] # NoEntry /\ fds'[q][i].dev = s
  BY OpenNext DEF SocketAt
<1>3. i \in 1 .. Len(fds[q]) /\ ~(q = p /\ i \in S) /\ fds'[q][i] = fds[q][i]
  BY <1>1, <1>2
<1> QED BY <1>2, <1>3, OpenNext DEF SocketAt

(* The clean-up of p takes the ports of its closed sockets and, at its end,   *)
(* those it owns: none of them is the port of a socket that stays open.       *)
LEMMA CloseKeepsPorts ==
    ASSUME DescInv, DescInv', OneDescriptor, BoundOK, NEW p \in Proc,
           NEW S \in SUBSET OpenFds(p), CloseFds(p, S),
           proc[p] \in {"live", "dying", "errored"},
           \A q \in Proc : proc'[q] \in {"live", "dying", "errored"} =>
                             proc[q] \in {"live", "dying", "errored"},
           NEW N \in SUBSET OwnedPorts(p),
           N = {} \/ proc'[p] \notin {"live", "dying", "errored"},
           ReleasePorts(BoundPorts(p, S) \union N), Unregister(BoundPorts(p, S)),
           UNCHANGED sockPort
    PROVE  OneDescriptor' /\ BoundOK'
<1>1. \A q \in Proc, s \in Socket : \A i \in 1 .. MaxFds :
         SocketAt(q, i, s)' => SocketAt(q, i, s) /\ ~(q = p /\ i \in S)
  BY ClosedSockets
<1>2. OneDescriptor'
  BY <1>1 DEF OneDescriptor
<1>3. ASSUME NEW q \in Proc, NEW s \in Socket, NEW i \in 1 .. MaxFds,
             proc'[q] \in {"live", "dying", "errored"}, SocketAt(q, i, s)',
             sockPort'[s] # NoPort
      PROVE  /\ sockPort'[s] \in usedPorts' /\ handler'[sockPort'[s]] = s
             /\ portOwner'[sockPort'[s]] \in {q, NoPid}
  <2> DEFINE n == sockPort[s]
  <2>1. SocketAt(q, i, s) /\ ~(q = p /\ i \in S) /\ n # NoPort
    BY <1>1, <1>3
  <2>2. n \in usedPorts /\ handler[n] = s /\ portOwner[n] \in {q, NoPid}
    BY <1>3, <2>1 DEF BoundOK
  <2>3. n \notin BoundPorts(p, S)
    <3> SUFFICES ASSUME NEW t \in Socket, NEW j \in S, fds[p][j].dev = t,
                        sockPort[t] # NoPort, sockPort[t] = n
                 PROVE  FALSE
      BY DEF BoundPorts
    <3>1. SocketAt(p, j, t) /\ j \in 1 .. MaxFds
      BY OpenNext DEF SocketAt
    <3>2. handler[n] = t
      BY <3>1 DEF BoundOK
    <3>3. SocketAt(p, j, s)
      BY <2>2, <3>1, <3>2
    <3> QED BY <2>1, <3>1, <3>3 DEF OneDescriptor
  <2>4. n \notin N
    <3> SUFFICES ASSUME n \in N PROVE FALSE
      OBVIOUS
    <3>1. portOwner[n] = p /\ p # NoPid
      BY DescriptorsAssumption DEF OwnedPorts
    <3>2. q = p
      BY <2>2, <3>1
    <3> QED BY <1>3, <3>2
  <2>5. n \in Port
    BY <2>1 DEF DescInv, TypeOK
  <2> QED BY <2>2, <2>3, <2>4, <2>5 DEF ReleasePorts, Unregister
<1>4. BoundOK'
  BY <1>3 DEF BoundOK
<1> QED BY <1>2, <1>4

(* Steps that open no socket and bind none. *)
LEMMA SocketsStay ==
    ASSUME OneDescriptor, BoundOK, UNCHANGED portVars,
           \A q \in Proc, s \in Socket : \A i \in 1 .. MaxFds :
              SocketAt(q, i, s)' =>
                  SocketAt(q, i, s)
                  /\ (proc'[q] \in {"live", "dying", "errored"} =>
                      proc[q] \in {"live", "dying", "errored"})
    PROVE  OneDescriptor' /\ BoundOK'
<1>1. OneDescriptor'
  BY DEF OneDescriptor
<1>2. BoundOK'
  BY DEF BoundOK, portVars
<1> QED BY <1>1, <1>2

(* A zombie stays as it is when only another process's table and ports change. *)
LEMMA ZombiesStay ==
    ASSUME DescInv, DescInv', ZombieHoldsNothing, NEW p \in Proc,
           proc'[p] = "zombie" => OpenFds(p)' = {} /\ OwnedPorts(p)' = {},
           \A q \in Proc \ {p} : fds'[q] = fds[q] /\ proc'[q] = proc[q],
           \A n \in Port : portOwner'[n] \in {portOwner[n], p, NoPid}
    PROVE  ZombieHoldsNothing'
<1>1. \A q \in Proc \ {p} : OpenFds(q)' = OpenFds(q) /\ OwnedPorts(q)' \subseteq OwnedPorts(q)
  BY DescriptorsAssumption DEF OpenFds, OwnedPorts
<1> QED BY <1>1 DEF ZombieHoldsNothing

LEMMA SocketInit == Init => SocketInv
<1> SUFFICES ASSUME Init PROVE SocketInv
  OBVIOUS
<1>1. \A p \in Proc, s \in Socket : \A i : ~SocketAt(p, i, s)
  <2> SUFFICES ASSUME NEW p \in Proc, NEW s \in Socket, NEW i, SocketAt(p, i, s) PROVE FALSE
    OBVIOUS
  <2>1. fds[p] = Terminal \/ fds[p] = <<>>
    BY DEF Init
  <2>2. DOMAIN Terminal = 1 .. 3
    BY TerminalIs, LenProperties
  <2>3. fds[p] = Terminal /\ i \in 1 .. 3
    BY <2>1, <2>2 DEF SocketAt, OpenFds
  <2>4. Terminal[i].dev = s
    BY <2>3 DEF SocketAt
  <2> QED BY <2>3, <2>4, TerminalIs, NotAnEntry
<1>2. ZombieHoldsNothing
  BY DEF Init, ZombieHoldsNothing
<1> QED BY <1>1, <1>2 DEF SocketInv, OneDescriptor, BoundOK

LEMMA OwnersInit == Init => OwnersUse
  BY DEF Init, OwnersUse

LEMMA OwnersNext == DescInv /\ OwnersUse /\ [Next]_vars => OwnersUse'
<1> SUFFICES ASSUME TypeOK, OwnersUse, [Next]_vars PROVE OwnersUse'
  BY DEF DescInv
<1>1. ASSUME NEW N, ReleasePorts(N) PROVE OwnersUse'
  BY <1>1 DEF ReleasePorts, OwnersUse
<1>2. ASSUME NEW p \in Proc, NEW s \in Socket, NEW n \in Port, Bind(p, s, n) PROVE OwnersUse'
  BY <1>2 DEF Bind, OwnersUse, TypeOK
<1>3. ASSUME NEW p \in Proc, Exit(p) \/ WorkerExit(p) \/ \E i \in DOMAIN fds[p] : Close(p, i)
      PROVE  OwnersUse'
  BY <1>1, <1>3 DEF Exit, WorkerExit, Close
<1>4. ASSUME UNCHANGED <<usedPorts, portOwner>> PROVE OwnersUse'
  BY <1>4 DEF OwnersUse
<1>5. ASSUME NEW p \in Proc,
             \/ MakePipe(p) \/ MakeSocket(p) \/ Detach(p)
             \/ Stop(p) \/ WorkerError(p) \/ WaitLive(p) \/ WaitEnded(p)
      PROVE  OwnersUse'
  BY <1>4, <1>5 DEF MakePipe, MakeSocket, Detach, Stop, WorkerError, WaitLive, WaitEnded, portVars
<1>6. ASSUME NEW p \in Proc, NEW c \in Proc, NEW in, NEW out, Exec(p, c, in, out) PROVE OwnersUse'
  BY <1>4, <1>6 DEF Exec, portVars
<1>7. ASSUME NEW p \in Proc, NEW q \in Proc, NEW k \in Pipe,
             Write(p, k) \/ Read(p, k) \/ WriteTo(p, q, k) \/ ReadFrom(p, q, k)
      PROVE  OwnersUse'
  BY <1>4, <1>7 DEF Write, Read, WriteTo, ReadFrom, portVars
<1>8. CASE UNCHANGED vars
  BY <1>4, <1>8 DEF vars
<1> QED BY <1>2, <1>3, <1>5, <1>6, <1>7, <1>8 DEF Next

LEMMA SocketNext == DescInv /\ DescInv' /\ OwnersUse /\ SocketInv /\ [Next]_vars => SocketInv'
<1> SUFFICES ASSUME DescInv, DescInv', OwnersUse, SocketInv, [Next]_vars PROVE SocketInv'
  OBVIOUS
<1>0. OneDescriptor /\ BoundOK /\ ZombieHoldsNothing
  BY DEF SocketInv
<1> DEFINE Here == {"live", "dying", "errored"}
<1>t. TypeOK /\ TablesOK /\ fds \in [Proc -> Seq(Slot)] /\ proc \in [Proc -> ProcStates]
  BY DEF DescInv, TypeOK, Slot
<1>1. ASSUME NEW p \in Proc, MakePipe(p) PROVE SocketInv'
  <2>1. PICK k \in Pipe : fds' = [fds EXCEPT ![p] = @ \o <<[dev |-> k, end |-> "r"],
                                                          [dev |-> k, end |-> "w"]>>]
    BY <1>1 DEF MakePipe
  <2>2. UNCHANGED <<proc, portVars>> /\ Calls(p)
    BY <1>1 DEF MakePipe
  <2> DEFINE n == Len(fds[p])
             r == [dev |-> k, end |-> "r"]
             w == [dev |-> k, end |-> "w"]
             t == <<r, w>>
  <2>3. /\ n \in Nat /\ fds[p] \in Seq(Slot)
        /\ t \in Seq(Slot) /\ Len(t) = 2 /\ t[1] = r /\ t[2] = w
    <3>1. r \in Slot /\ w \in Slot
      BY DEF Slot, Entry
    <3> HIDE DEF r, w
    <3> QED BY <1>t, <3>1, TableTypes
  <2>4. fds'[p] = fds[p] \o t /\ \A q \in Proc \ {p} : fds'[q] = fds[q]
    BY <2>1, <1>t
  <2>5. /\ Len(fds'[p]) = n + 2
        /\ \A i \in 1 .. n + 2 : fds'[p][i] = IF i <= n THEN fds[p][i] ELSE t[i - n]
    <3> HIDE DEF t
    <3>1. /\ Len(fds[p] \o t) = Len(fds[p]) + Len(t)
          /\ \A i \in 1 .. Len(fds[p]) + Len(t) : (fds[p] \o t)[i] =
                IF i <= Len(fds[p]) THEN fds[p][i] ELSE t[i - Len(fds[p])]
      BY ONLY <2>3, ConcatProperties
    <3> QED BY <2>3, <2>4, <3>1
  <2>6. ASSUME NEW q \in Proc, NEW s \in Socket, NEW i \in 1 .. MaxFds, SocketAt(q, i, s)'
        PROVE  SocketAt(q, i, s)
    <3>1. CASE q # p
      BY <2>4, <2>6, <3>1 DEF SocketAt, OpenFds
    <3>2. CASE q = p
      <4>1. i \in 1 .. n + 2 /\ fds'[p][i] # NoEntry /\ fds'[p][i].dev = s
        BY <2>5, <2>6, <3>2, OpenNext DEF SocketAt
      <4>2. r.dev # s /\ w.dev # s
        BY DescriptorsAssumption
      <4>3. i <= n
        <5> SUFFICES ASSUME i > n PROVE FALSE
          BY <2>3, DescriptorsAssumption
        <5>1. i - n = 1 \/ i - n = 2
          BY <2>3, <4>1
        <5>2. fds'[p][i] = r \/ fds'[p][i] = w
          BY <2>3, <2>5, <4>1, <5>1
        <5> HIDE DEF r, w
        <5> QED BY <4>1, <4>2, <5>2
      <4>4. i \in 1 .. n /\ fds'[p][i] = fds[p][i]
        BY <2>3, <2>5, <4>1, <4>3
      <4> QED BY <3>2, <4>1, <4>4, OpenNext DEF SocketAt
    <3> QED BY <3>1, <3>2
  <2>7. OneDescriptor' /\ BoundOK'
    BY <1>0, <2>2, <2>6, SocketsStay
  <2>8. ZombieHoldsNothing'
    BY <1>0, <2>2, <2>4, ZombiesStay DEF Calls, portVars
  <2> QED BY <2>7, <2>8 DEF SocketInv
<1>2. ASSUME NEW p \in Proc, MakeSocket(p) PROVE SocketInv'
  <2>1. PICK s \in Socket \ made :
          /\ fds' = [fds EXCEPT ![p] = Append(@, [dev |-> s, end |-> "r"])]
          /\ sockPort' = [sockPort EXCEPT ![s] = NoPort]
    BY <1>2 DEF MakeSocket
  <2>2. UNCHANGED <<proc, usedPorts, portOwner, handler>> /\ Calls(p)
    BY <1>2 DEF MakeSocket
  <2> DEFINE n == Len(fds[p])
  <2>3. /\ \A q \in Proc \ {p} : fds'[q] = fds[q]
        /\ Len(fds'[p]) = n + 1
        /\ \A i \in 1 .. n : fds'[p][i] = fds[p][i]
        /\ fds'[p][n + 1] = [dev |-> s, end |-> "r"]
    BY <1>t, <2>1, SocketAdds
  <2>4. \A q \in Proc, i \in 1 .. MaxFds : ~SocketAt(q, i, s)
    BY <2>1 DEF made, SocketAt, OpenFds
  <2>5. ASSUME NEW q \in Proc, NEW u \in Socket, NEW i \in 1 .. MaxFds, SocketAt(q, i, u)'
        PROVE  (u # s /\ SocketAt(q, i, u)) \/ (u = s /\ q = p /\ i = n + 1)
    <3>1. CASE q # p
      BY <2>3, <2>4, <2>5, <3>1 DEF SocketAt, OpenFds
    <3>2. CASE q = p
      <4>1. i \in 1 .. n + 1 /\ fds'[p][i] # NoEntry /\ fds'[p][i].dev = u /\ n \in Nat
        BY <2>3, <2>5, <3>2, OpenNext DEF SocketAt
      <4>2. CASE i = n + 1
        BY <2>3, <3>2, <4>1, <4>2
      <4>3. CASE i # n + 1
        <5>1. i \in 1 .. n /\ fds'[p][i] = fds[p][i]
          BY <2>3, <4>1, <4>3
        <5>2. SocketAt(q, i, u)
          BY <3>2, <4>1, <5>1, OpenNext DEF SocketAt
        <5> QED BY <2>4, <5>2
      <4> QED BY <4>2, <4>3
    <3> QED BY <3>1, <3>2
  <2>6. OneDescriptor'
    BY <1>0, <2>5 DEF OneDescriptor
  <2>7. BoundOK'
    <3>1. sockPort'[s] = NoPort /\ \A u \in Socket \ {s} : sockPort'[u] = sockPort[u]
      BY <1>t, <2>1 DEF TypeOK
    <3> QED BY <1>0, <2>2, <2>5, <3>1 DEF BoundOK
  <2>8. ZombieHoldsNothing'
    BY <1>0, <2>2, <2>3, ZombiesStay DEF Calls
  <2> QED BY <2>6, <2>7, <2>8 DEF SocketInv
<1>3. ASSUME NEW p \in Proc, NEW S \in SUBSET OpenFds(p), CloseFds(p, S),
             proc[p] \in Here, ReleasePorts(BoundPorts(p, S)), Unregister(BoundPorts(p, S)),
             proc'[p] \in {"live", "dying"},
             \A q \in Proc \ {p} : proc'[q] = proc[q], UNCHANGED sockPort
      PROVE  SocketInv'
  <2>1. ReleasePorts(BoundPorts(p, S) \union {})
    BY <1>3 DEF ReleasePorts
  <2>2. OneDescriptor' /\ BoundOK'
    <3>1. \A q \in Proc : proc'[q] \in Here => proc[q] \in Here
      BY <1>3
    <3>2. {} \in SUBSET OwnedPorts(p)
      OBVIOUS
    <3> QED BY <1>0, <1>3, <2>1, <3>1, <3>2, CloseKeepsPorts
  <2>3. \A q \in Proc \ {p} : fds'[q] = fds[q]
    BY <1>3, <1>t DEF CloseFds
  <2>4. \A n \in Port : portOwner'[n] \in {portOwner[n], p, NoPid}
    BY <1>3 DEF ReleasePorts
  <2>5. ZombieHoldsNothing'
    BY <1>0, <1>3, <2>3, <2>4, ZombiesStay
  <2> QED BY <2>2, <2>5 DEF SocketInv
<1>4. ASSUME NEW p \in Proc, Exit(p) PROVE SocketInv'
  BY <1>3, <1>4, <1>t DEF Exit, Calls
<1>5. ASSUME NEW p \in Proc, NEW i \in DOMAIN fds[p], Close(p, i) PROVE SocketInv'
  <2>1. {i} \in SUBSET OpenFds(p)
    BY <1>5 DEF Close
  <2> QED BY <1>3, <1>5, <1>t, <2>1 DEF Close, Calls
<1>6. ASSUME NEW p \in Proc, WorkerExit(p) PROVE SocketInv'
  <2>1. /\ CloseFds(p, HookFds(p))
        /\ ReleasePorts(BoundPorts(p, HookFds(p)) \union OwnedPorts(p))
        /\ Unregister(BoundPorts(p, HookFds(p))) /\ UNCHANGED sockPort
        /\ proc' = [proc EXCEPT ![p] = IF p \in waited THEN "reaped" ELSE "zombie"]
        /\ proc[p] \in Here
    BY <1>6 DEF WorkerExit
  <2>2. HookFds(p) \in SUBSET OpenFds(p)
    BY DEF HookFds
  <2>3. /\ proc'[p] = IF p \in waited THEN "reaped" ELSE "zombie"
        /\ \A q \in Proc \ {p} : proc'[q] = proc[q]
    BY <2>1, <1>t
  <2>4. OneDescriptor' /\ BoundOK'
    <3>1. OwnedPorts(p) \in SUBSET OwnedPorts(p)
      OBVIOUS
    <3> QED BY <1>0, <2>1, <2>2, <2>3, <3>1, CloseKeepsPorts
  <2>5. \A q \in Proc \ {p} : fds'[q] = fds[q]
    BY <2>1, <1>t DEF CloseFds
  <2>6. \A n \in Port : portOwner'[n] \in {portOwner[n], p, NoPid}
    BY <2>1 DEF ReleasePorts
  <2>7. ASSUME proc'[p] = "zombie" PROVE OpenFds(p)' = {} /\ OwnedPorts(p)' = {}
    <3>1. HookFds(p) = OpenFds(p)
      BY <2>3, <2>7 DEF HookFds
    <3>2. /\ Len(fds'[p]) = Len(fds[p])
          /\ \A i \in 1 .. Len(fds[p]) :
                fds'[p][i] = IF i \in OpenFds(p) THEN NoEntry ELSE fds[p][i]
      BY <1>t, <2>1, <2>2, <3>1, Closing
    <3>3. OpenFds(p)' = {}
      BY <3>2, OpenNext
    <3>4. OwnedPorts(p)' = {}
      BY <2>1, DescriptorsAssumption DEF ReleasePorts, OwnedPorts
    <3> QED BY <3>3, <3>4
  <2>8. ZombieHoldsNothing'
    BY <1>0, <2>3, <2>5, <2>6, <2>7, ZombiesStay
  <2> QED BY <2>4, <2>8 DEF SocketInv
<1>7. ASSUME NEW p \in Proc, Detach(p) PROVE SocketInv'
  <2>1. fds' = [fds EXCEPT ![p] = Terminal \o SubSeq(@, 4, Len(@))]
        /\ UNCHANGED <<proc, portVars>> /\ Calls(p)
    BY <1>7 DEF Detach
  <2>2. /\ \A q \in Proc \ {p} : fds'[q] = fds[q]
        /\ Len(fds'[p]) = IF Len(fds[p]) < 3 THEN 3 ELSE Len(fds[p])
        /\ \A i \in 1 .. 3 : fds'[p][i] \in Entry /\ fds'[p][i].dev = Tty
        /\ \A i \in 4 .. Len(fds[p]) : fds'[p][i] = fds[p][i]
    BY <1>t, <2>1, Detaching
  <2>3. ASSUME NEW q \in Proc, NEW s \in Socket, NEW i \in 1 .. MaxFds, SocketAt(q, i, s)'
        PROVE  SocketAt(q, i, s)
    <3>1. CASE q # p
      BY <2>2, <2>3, <3>1 DEF SocketAt, OpenFds
    <3>2. CASE q = p
      <4>1. /\ i \in 1 .. Len(fds'[p]) /\ fds'[p][i] # NoEntry /\ fds'[p][i].dev = s
            /\ Len(fds[p]) \in Nat
        BY <2>3, <3>2, OpenNext DEF SocketAt
      <4>2. i \notin 1 .. 3
        BY <2>2, <4>1, NotAnEntry
      <4>3. i \in 4 .. Len(fds[p])
        BY <2>2, <4>1, <4>2
      <4> QED BY <2>2, <3>2, <4>1, <4>3, OpenNext DEF SocketAt
    <3> QED BY <3>1, <3>2
  <2>4. OneDescriptor' /\ BoundOK'
    BY <1>0, <2>1, <2>3, SocketsStay
  <2>5. ZombieHoldsNothing'
    BY <1>0, <2>1, <2>2, ZombiesStay DEF Calls, portVars
  <2> QED BY <2>4, <2>5 DEF SocketInv
<1>8. ASSUME NEW p \in Proc, NEW c \in Proc, NEW in \in {Tty} \union Pipe,
             NEW out \in {Tty} \union Pipe, Exec(p, c, in, out)
      PROVE  SocketInv'
  <2> DEFINE e1 == [dev |-> in, end |-> "r"]
             e2 == [dev |-> out, end |-> "w"]
             e3 == [dev |-> Tty, end |-> "w"]
             t == <<e1, e2, e3>>
  <2>1. fds' = [fds EXCEPT ![c] = t] /\ proc' = [proc EXCEPT ![c] = "live"] /\ UNCHANGED portVars
    BY <1>8 DEF Exec
  <2>2. fds'[c] = t /\ \A q \in Proc \ {c} : fds'[q] = fds[q] /\ proc'[q] = proc[q]
    BY <1>t, <2>1
  <2>3. ASSUME NEW s \in Socket, NEW i PROVE ~SocketAt(c, i, s)'
    <3>1. e1.dev # s /\ e2.dev # s /\ e3.dev # s
      BY DescriptorsAssumption
    <3> HIDE DEF e1, e2, e3
    <3>2. \A j \in DOMAIN t : t[j].dev # s
      BY <3>1
    <3> QED BY <2>2, <3>2 DEF SocketAt, OpenFds
  <2>4. \A q \in Proc \ {c} : \A s, i : SocketAt(q, i, s)' => SocketAt(q, i, s)
    BY <2>2 DEF SocketAt, OpenFds
  <2>5. OneDescriptor' /\ BoundOK'
    BY <1>0, <2>1, <2>2, <2>3, <2>4, SocketsStay
  <2>6. proc'[c] = "live"
    BY <1>t, <2>1
  <2>7. ZombieHoldsNothing'
    BY <1>0, <2>1, <2>2, <2>6, ZombiesStay DEF portVars
  <2> QED BY <2>5, <2>7 DEF SocketInv
<1>9. ASSUME NEW p \in Proc, NEW s \in Socket, NEW n \in Port, Bind(p, s, n) PROVE SocketInv'
  <2>1. /\ UNCHANGED <<proc, fds>> /\ Calls(p) /\ Holds(p, s, "r") /\ n \notin usedPorts
        /\ usedPorts' = usedPorts \union {n}
        /\ sockPort' = [sockPort EXCEPT ![s] = n] /\ handler' = [handler EXCEPT ![n] = s]
    BY <1>9 DEF Bind
  <2>2. \A m \in Port : portOwner'[m] = portOwner[m] \/ (m = n /\ portOwner'[m] = p)
    BY <1>9, <1>t DEF Bind, TypeOK
  <2>3. PICK j \in OpenFds(p) : fds[p][j] = [dev |-> s, end |-> "r"]
    BY <2>1 DEF Holds
  <2>4. SocketAt(p, j, s) /\ j \in 1 .. MaxFds
    BY <2>3, OpenNext DEF SocketAt
  <2>5. \A q, i, u : SocketAt(q, i, u)' <=> SocketAt(q, i, u)
    BY <2>1 DEF SocketAt, OpenFds
  <2>6. OneDescriptor'
    BY <1>0, <2>5 DEF OneDescriptor
  <2>7. ASSUME NEW q \in Proc, NEW u \in Socket, NEW i \in 1 .. MaxFds,
               proc'[q] \in Here, SocketAt(q, i, u)', sockPort'[u] # NoPort
        PROVE  /\ sockPort'[u] \in usedPorts' /\ handler'[sockPort'[u]] = u
               /\ portOwner'[sockPort'[u]] \in {q, NoPid}
    <3>1. CASE u = s
      <4>1. q = p /\ sockPort'[u] = n
        BY <1>0, <1>t, <2>1, <2>4, <2>5, <2>7, <3>1 DEF OneDescriptor, TypeOK
      <4>2. portOwner'[n] \in {p, NoPid}
        BY <1>t, <2>1, <2>2 DEF TypeOK, OwnersUse
      <4> QED BY <1>t, <2>1, <3>1, <4>1, <4>2 DEF TypeOK
    <3>2. CASE u # s
      <4>1. sockPort'[u] = sockPort[u] /\ SocketAt(q, i, u) /\ proc[q] \in Here
        BY <1>t, <2>1, <2>5, <2>7, <3>2 DEF TypeOK
      <4>2. /\ sockPort[u] \in usedPorts /\ handler[sockPort[u]] = u
            /\ portOwner[sockPort[u]] \in {q, NoPid}
        BY <1>0, <2>7, <4>1 DEF BoundOK
      <4>3. sockPort[u] # n /\ sockPort[u] \in Port
        BY <1>t, <2>1, <4>2 DEF TypeOK
      <4> QED BY <1>t, <2>1, <2>2, <4>1, <4>2, <4>3 DEF TypeOK
    <3> QED BY <3>1, <3>2
  <2>8. BoundOK'
    BY <2>7 DEF BoundOK
  <2>9. ZombieHoldsNothing'
    <3>1. \A m \in Port : portOwner'[m] \in {portOwner[m], p, NoPid}
      BY <2>2
    <3> QED BY <1>0, <2>1, <3>1, ZombiesStay DEF Calls
  <2> QED BY <2>6, <2>8, <2>9 DEF SocketInv
<1>10. ASSUME UNCHANGED <<fds, portVars>>,
              \A q \in Proc : /\ proc'[q] = "zombie" => proc[q] = "zombie"
                              /\ proc'[q] \in Here => proc[q] \in Here
       PROVE  SocketInv'
  <2>1. \A q, i, s : SocketAt(q, i, s)' <=> SocketAt(q, i, s)
    BY <1>10 DEF SocketAt, OpenFds
  <2>2. OneDescriptor' /\ BoundOK'
    BY <1>0, <1>10, <2>1, SocketsStay
  <2>3. ZombieHoldsNothing'
    BY <1>0, <1>10 DEF ZombieHoldsNothing, OpenFds, OwnedPorts, portVars
  <2> QED BY <2>2, <2>3 DEF SocketInv
<1>11. ASSUME NEW p \in Proc, Stop(p) \/ WorkerError(p) \/ WaitLive(p) \/ WaitEnded(p)
       PROVE  SocketInv'
  <2>1. UNCHANGED <<fds, portVars>>
    BY <1>11 DEF Stop, WorkerError, WaitLive, WaitEnded
  <2>2. \A q \in Proc : /\ proc'[q] = "zombie" => proc[q] = "zombie"
                        /\ proc'[q] \in Here => proc[q] \in Here
    BY <1>11, <1>t DEF Stop, WorkerError, WaitLive, WaitEnded
  <2> QED BY <1>10, <2>1, <2>2
<1>12. ASSUME NEW p \in Proc, NEW q \in Proc, NEW k \in Pipe,
              Write(p, k) \/ Read(p, k) \/ WriteTo(p, q, k) \/ ReadFrom(p, q, k)
       PROVE  SocketInv'
  <2>1. UNCHANGED <<proc, fds, portVars>>
    BY <1>12 DEF Write, Read, WriteTo, ReadFrom
  <2> QED BY <1>10, <2>1
<1>13. CASE UNCHANGED vars
  <2>1. UNCHANGED <<proc, fds, portVars>>
    BY <1>13 DEF vars, portVars
  <2> QED BY <1>10, <2>1
<1> QED BY <1>1, <1>2, <1>4, <1>5, <1>6, <1>7, <1>8, <1>9, <1>11, <1>12, <1>13 DEF Next

(* No clean-up takes the port of a socket another process has bound: neither   *)
(* by number (CLOSE) nor by owner (releasePortsByPid, PortManager.ts:58).      *)
THEOREM PortsStayWithSockets == Spec => []SocketKeepsPort
<1>1. DescInv /\ SocketInv => SocketKeepsPort
  <2> SUFFICES ASSUME DescInv, SocketInv, NEW p \in Proc, NEW s \in Socket, Calls(p),
                      Holds(p, s, "r"), sockPort[s] # NoPort
               PROVE  sockPort[s] \in usedPorts /\ handler[sockPort[s]] = s
    BY DEF SocketKeepsPort
  <2>1. PICK i \in OpenFds(p) : fds[p][i] = [dev |-> s, end |-> "r"]
    BY DEF Holds
  <2>2. SocketAt(p, i, s)
    BY <2>1 DEF SocketAt
  <2>3. i \in 1 .. MaxFds
    BY TableTypes, DescriptorsAssumption DEF DescInv
  <2> QED BY <2>2, <2>3 DEF SocketInv, BoundOK, Calls
<1> QED BY <1>1, DescInit, DescNext, OwnersInit, OwnersNext, SocketInit, SocketNext, PTL DEF Spec

(* A process that ended with nobody waiting for it has let go of every         *)
(* descriptor and port (the exit hook, Syscalls.ts:76-99).                     *)
THEOREM ZombiesLetGo == Spec => []ZombieHoldsNothing
<1>1. SocketInv => ZombieHoldsNothing
  BY DEF SocketInv
<1> QED BY <1>1, DescInit, DescNext, OwnersInit, OwnersNext, SocketInit, SocketNext, PTL DEF Spec
=============================================================================
