------------------------------ MODULE MCNetwork ------------------------------
(* The network components for TLC: the MQTNL driver, a NetFS mount, the mount   *)
(* table and the bridges between brokers, each a system of its own here.  The   *)
(* variable `part` says which one moves; the others stay as they started.       *)
EXTENDS Mqtnl, NetFS, Bridge, Mounts, TLC

CONSTANTS na, nb, m1, m2, m3, c1, c2, r1, b1, n1, n2, ab, ab2, bc, A, B, C, p, q,
          Part \* which components a run is about

VARIABLE part

(* Two hosts; m1 has two fragments, m3 goes from a node to itself. *)
MCSrc == m1 :> na @@ m2 :> na @@ m3 :> nb
MCDst == m1 :> nb @@ m2 :> nb @@ m3 :> nb
MCParts == m1 :> 2 @@ m2 :> 1 @@ m3 :> 1

(* Bound: the socket of na is set up before it sends. *)
SettingsFirst ==
    (\E m \in Message : Src[m] = na /\ sending[m] # Unsent)
        => UNCHANGED <<owner[na], portSec[na], portProto[na]>>

MCKinds == [c \in {c1, c2} |-> Operation]
MCOld == <<(<<"old", 1>>)>>

(* The calls are interchangeable: c1 is the first to start. *)
FirstCall == outcome[c1] = "idle" => outcome'[c2] = "idle"

(* Two NetFS drivers and a BKFS beside the one of /; a mount in a mount. *)
MCMountPath == {<<>>, <<"mnt">>, <<"mnt", "net">>, <<"tmp">>}
MCDriverType == [d \in {r1, b1, n1, n2} |-> IF d \in {r1, b1} THEN "bkfs" ELSE "netfs"]

(* A chain of two bridges, and the same with a bridge in parallel.  p goes     *)
(* from one end of the chain to the other, q comes back.                       *)
MCEnds == ab :> {A, B} @@ ab2 :> {A, B} @@ bc :> {B, C}
MCSetups == {{ab, bc}, {ab, ab2, bc}}
MCFrom == p :> <<"x", "80">> @@ q :> <<"z", "24">>
MCTo == p :> <<"z", "24">> @@ q :> <<"x", "80">>
MCHome == p :> A @@ q :> C
NoRule == [list \in {"deny", "denySrc", "denyDst", "allow", "allowSrc", "allowDst",
                     "denySrcPort", "denyDstPort", "allowSrcPort", "allowDstPort"} |-> {}]
MCRules == {[NoRule EXCEPT !.deny = {"x"}],
            [NoRule EXCEPT !.allow = {"x"}],
            [NoRule EXCEPT !.allowDst = {"z"}]}

(* Bound: packets are lost in the chain only. *)
LossInChain == lost' # lost => running = {ab, bc}

MCInit ==
    /\ part \in Part
    /\ MqtnlInit /\ NetfsInit /\ MountsInit /\ BridgeInit
    /\ part = "bridge" \/ running = {ab, bc}
    /\ (part = "bridge" /\ running = {ab, bc}) \/ rules.allow # {}

MCNext ==
    /\ IF part = "mqtnl" THEN MqtnlNext /\ SettingsFirst ELSE UNCHANGED mqtnlVars
    /\ IF part = "netfs" THEN NetfsNext /\ FirstCall ELSE UNCHANGED netfsVars
    /\ IF part = "mounts" THEN MountsNext ELSE UNCHANGED mountVars
    /\ IF part = "bridge" THEN BridgeNext /\ LossInChain ELSE UNCHANGED bridgeVars
    /\ UNCHANGED part

MCSpec ==
    /\ MCInit
    /\ [][MCNext]_<<part, mqtnlVars, netfsVars, mountVars, bridgeVars>>
    /\ NetfsFairness /\ BridgeFairness

NetworkTypeOK == MqtnlTypeOK /\ NetfsTypeOK /\ MountsTypeOK /\ BridgeTypeOK
=============================================================================
