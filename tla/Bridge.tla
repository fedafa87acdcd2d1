-------------------------------- MODULE Bridge --------------------------------
(* The packet forwarder (src/src/mirror/lib/PacketForwarder.ts) and its        *)
(* firewall (src/src/mirror/lib/Firewall.ts): daemons that copy MQTNL packets  *)
(* between two brokers.  A broker hands everything to everyone, so a bridge    *)
(* also receives what it published itself, and has to know it again.           *)
(*                                                                             *)
(* A packet on a broker is its bytes: a body (payload and header) and the      *)
(* count `forwarded`, the one byte that a bridge changes.  All bridges read    *)
(* one firewall file.                                                          *)
EXTENDS Naturals, Sequences, FiniteSets

CONSTANTS Broker,
          Daemon,      \* the bridges that may be started
          Ends,        \* the two brokers of a bridge
          Body,        \* packets by their bytes
          From, To,    \* the address and the port a body comes from and goes to
          Home,        \* the broker of the node that sends a body
          Rules,       \* the firewall files tried
          MaxForward,  \* MAX_FORWARD
          MaxEntries,  \* ECHO_MAX_ENTRIES
          Setups,      \* bound: the sets of bridges that run together
          MaxCopies,   \* bound: how often a node sends the same bytes
          MaxLost      \* bound: packets a bridge does not get or cannot pass on

Ip(a) == a[1]
Port(a) == a[2]
Star == "*"

ASSUME BridgeAssumption ==
    /\ Ends \in [Daemon -> SUBSET Broker]
    /\ \A d \in Daemon : \E x, y \in Broker : x # y /\ Ends[d] = {x, y}
    /\ Home \in [Body -> Broker]
    /\ Setups \subseteq SUBSET Daemon
    /\ MaxForward \in Nat /\ MaxEntries \in Nat /\ MaxCopies \in Nat /\ MaxLost \in Nat

VARIABLES
    running,    \* the bridges that run
    rules,      \* the firewall they loaded
    wire,       \* per bridge and broker: what the broker still has to hand over
    published,  \* EchoGuard: per bridge and broker, what was published, oldest first
    lost,       \* packets lost so far
    copies,     \* how often each body was sent by its node
    carried     \* per broker: how often it got each body, from a node or a bridge,
                \* counted up to one more than the node can have sent

bridgeVars == <<running, rules, wire, published, lost, copies, carried>>

Frame == [body : Body, forwarded : 0 .. MaxForward]

BridgeTypeOK ==
    /\ running \subseteq Daemon
    /\ rules \in Rules
    /\ wire \in [Daemon -> [Broker -> Seq(Frame)]]
    /\ published \in [Daemon -> [Broker -> Seq(Frame \X BOOLEAN)]]
    /\ \A d \in Daemon : \A x \in Broker : Len(published[d][x]) <= MaxEntries
    /\ lost \in 0 .. MaxLost
    /\ copies \in [Body -> 0 .. MaxCopies]
    /\ carried \in [Broker -> [Body -> 0 .. MaxCopies + 1]]

BridgeInit ==
    /\ running \in Setups
    /\ rules \in Rules
    /\ wire = [d \in Daemon |-> [x \in Broker |-> <<>>]]
    /\ published = [d \in Daemon |-> [x \in Broker |-> <<>>]]
    /\ lost = 0
    /\ copies = [b \in Body |-> 0]
    /\ carried = [x \in Broker |-> [b \in Body |-> 0]]

-----------------------------------------------------------------------------
(* The firewall: evaluate() *)

Match(list, v) == Star \in list \/ v \in list
Requires(list, v) == list # {} => Match(list, v)

(* Mutant: deny looks at the destination alone. *)
DeniedTarget(r, b) == Match(r.deny, Ip(To[b]))

(* A deny list that an end of the packet is on. *)
Denied(r, b) ==
    \/ Match(r.deny, Ip(From[b])) \/ Match(r.deny, Ip(To[b]))
    \/ Match(r.denySrc, Ip(From[b])) \/ Match(r.denyDst, Ip(To[b]))
    \/ Match(r.denySrcPort, Port(From[b])) \/ Match(r.denyDstPort, Port(To[b]))

(* Mutant: the two-way list looks at the destination alone. *)
AllowedTarget(r, b) ==
    /\ Requires(r.allow, Ip(To[b]))
    /\ Requires(r.allowSrc, Ip(From[b])) /\ Requires(r.allowDst, Ip(To[b]))

(* Every allow list that has entries must have the packet; for the two-way    *)
(* one it is enough that one end is on it.                                    *)
Allowed(r, b) ==
    /\ r.allow # {} => Match(r.allow, Ip(From[b])) \/ Match(r.allow, Ip(To[b]))
    /\ Requires(r.allowSrc, Ip(From[b])) /\ Requires(r.allowDst, Ip(To[b]))
    /\ Requires(r.allowSrcPort, Port(From[b])) /\ Requires(r.allowDstPort, Port(To[b]))

Evaluate(r, b) == ~ Denied(r, b) /\ Allowed(r, b)

-----------------------------------------------------------------------------
(* EchoGuard *)

Entries(guard) == {guard[i] : i \in DOMAIN guard}
Holds(guard, f) == \E i \in DOMAIN guard : guard[i][1] = f
Fresh(guard, f) == <<f, TRUE>> \in Entries(guard)

(* The entries that stay, in their order. *)
Staying(guard, stay) ==
    LET kept[i \in 0 .. Len(guard)] ==
          IF i = 0 THEN <<>>
          ELSE IF guard[i] \in stay THEN Append(kept[i - 1], guard[i])
          ELSE kept[i - 1]
    IN kept[Len(guard)]

(* delete() of the entry of f *)
Without(guard, f) == Staying(guard, {e \in Entries(guard) : e[1] # f})

(* set(): an entry that exists keeps its place and gets the time of now. *)
Recorded(guard, f) ==
    IF Holds(guard, f)
    THEN [i \in DOMAIN guard |-> IF guard[i][1] = f THEN <<f, TRUE>> ELSE guard[i]]
    ELSE Append(guard, <<f, TRUE>>)

(* prune(): the expired entries, then the oldest. *)
Pruned(guard) ==
    LET kept == Staying(guard, {e \in Entries(guard) : e[2]})
    IN IF Len(kept) <= MaxEntries THEN kept
       ELSE SubSeq(kept, Len(kept) - MaxEntries + 1, Len(kept))

(* Mutant: nothing is ever pruned. *)
RememberAll(guard, f) == Recorded(guard, f)

(* remember() *)
Remember(guard, f) ==
    LET g == Recorded(guard, f) IN IF Len(g) > MaxEntries THEN Pruned(g) ELSE g

(* ECHO_TTL_MS passes for the entries of a guard: for those whose echo was    *)
(* lost, or was never to come.  (That a broker hands a packet back within     *)
(* fifteen seconds is assumed.)                                               *)
Aged(guard) == [i \in DOMAIN guard |-> <<guard[i][1], FALSE>>]

EchoExpires(d, x) ==
    /\ \E i \in DOMAIN published[d][x] : published[d][x][i][2]
    /\ wire[d][x] = <<>>
    /\ published' = [published EXCEPT ![d][x] = Aged(@)]
    /\ UNCHANGED <<running, rules, wire, lost, copies, carried>>

-----------------------------------------------------------------------------
(* Packets *)

(* A broker hands a frame to every bridge that is connected to it. *)
Handed(w, x, f) ==
    [d \in Daemon |-> IF d \in running /\ x \in Ends[d]
                      THEN [w[d] EXCEPT ![x] = Append(@, f)] ELSE w[d]]

Counted(x, b) ==
    carried' = [carried EXCEPT ![x][b] = IF @ > MaxCopies THEN @ ELSE @ + 1]

(* A node sends a packet. *)
Transmit(b) ==
    /\ copies[b] < MaxCopies
    /\ copies' = [copies EXCEPT ![b] = @ + 1]
    /\ Counted(Home[b], b)
    /\ wire' = Handed(wire, Home[b], [body |-> b, forwarded |-> 0])
    /\ UNCHANGED <<running, rules, published, lost>>

Taken(d, x) == [wire EXCEPT ![d][x] = Tail(@)]

(* The packet is dropped: the bridge is not connected to its other broker, or *)
(* was not to this one.                                                       *)
Lose(d, x) ==
    /\ wire[d][x] # <<>>
    /\ lost < MaxLost
    /\ lost' = lost + 1
    /\ wire' = Taken(d, x)
    /\ UNCHANGED <<running, rules, published, copies, carried>>

(* Mutant: a packet is passed on with the count it came with. *)
Unmarked(f) == f

(* markForwarded() *)
Marked(f) == [f EXCEPT !.forwarded = @ + 1]

(* The chain of bridges is at its limit. *)
AtLimit(f) == f.forwarded >= MaxForward

(* Mutant: nothing is known again. *)
NeverConsumed(d, x, f) == f \notin Frame

(* The echo of a packet this bridge published; an entry is used up either way.*)
Consumed(d, x, f) == Fresh(published[d][x], f)

(* bridge(): a packet from broker x, for the other broker of d. *)
Forward(d, x, y) ==
    LET f == Head(wire[d][x])
        g == Marked(f)
        passes == ~ Consumed(d, x, f) /\ Evaluate(rules, f.body)
        used == IF AtLimit(f) THEN published
                ELSE [published EXCEPT ![d][x] = Without(@, f)]
    IN /\ wire[d][x] # <<>>
       /\ Ends[d] = {x, y} /\ x # y
       /\ IF AtLimit(f) \/ ~ passes
          THEN /\ published' = used
               /\ wire' = Taken(d, x)
               /\ UNCHANGED carried
          ELSE /\ published' = [used EXCEPT ![d][y] = Remember(@, g)]
               /\ wire' = Handed(Taken(d, x), y, g)
               /\ Counted(y, f.body)
       /\ UNCHANGED <<running, rules, lost, copies>>

BridgeNext ==
    \/ \E b \in Body : Transmit(b)
    \/ \E d \in running, x \in Broker : EchoExpires(d, x) \/ Lose(d, x)
    \/ \E d \in running, x, y \in Broker : Forward(d, x, y)

BridgeFairness == \A d \in Daemon, x, y \in Broker : WF_bridgeVars(Forward(d, x, y))

BridgeSpec == BridgeInit /\ [][BridgeNext]_bridgeVars

-----------------------------------------------------------------------------
(* Properties *)

(* One path at most between two brokers: no two bridges that run have the     *)
(* same two ends.  (Larger rings are left to MAX_FORWARD as well.)            *)
NoParallel == \A d, e \in running : d # e => Ends[d] # Ends[e]

(* What a node sent arrives at most once at every broker, its own included:   *)
(* no packet bounces back from a bridge, in a chain of bridges either, as     *)
(* long as their guards have room for what is on its way                      *)
(* (PacketForwarder.ts:16-39) and MaxCopies is 1: a guard has one entry for   *)
(* packets with the same bytes, so that of two sent shortly after each other  *)
(* one echo is not known.                                                     *)
NoBounce ==
    NoParallel => \A x \in Broker : \A b \in Body : carried[x][b] <= copies[b]

(* An address on the deny list is isolated: neither what it sends nor what is *)
(* sent to it ever crosses a bridge (Firewall.ts:42-45).                      *)
DeniedIsIsolated ==
    \A b \in Body : {Ip(From[b]), Ip(To[b])} \intersect rules.deny # {} =>
        \A x \in Broker \ {Home[b]} : carried[x][b] = 0

(* Where the rules name no direction and no port, what may cross may be       *)
(* answered: a packet the other way round meets the same verdict.             *)
AnswersCross ==
    \A b, c \in Body :
        From[b] = To[c] /\ To[b] = From[c]
        /\ rules.denySrc \union rules.denyDst \union rules.allowSrc \union rules.allowDst = {}
        /\ rules.denySrcPort \union rules.denyDstPort
           \union rules.allowSrcPort \union rules.allowDstPort = {}
        /\ (\E x \in Broker \ {Home[b]} : carried[x][b] > 0)
        => Evaluate(rules, c)

(* What a firewall is for: it isolates whom it denies, and does not break a   *)
(* conversation it lets begin.                                                *)
FirewallHolds == DeniedIsIsolated /\ AnswersCross

(* Whatever bridges there are between two brokers, in a ring or in parallel,  *)
(* a packet does not go round for ever.                                       *)
Quiesces == <>[](\A d \in Daemon, x \in Broker : wire[d][x] = <<>>)
=============================================================================
