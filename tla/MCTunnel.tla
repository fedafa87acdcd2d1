------------------------------ MODULE MCTunnel ------------------------------
(* Instances of Tunnel for TLC. *)
EXTENDS Tunnel, TLC

CONSTANTS ssh, web

\* Two envelopes of one application and one of another, or the two alone.
TwoToOne == (1 :> ssh) @@ (2 :> ssh) @@ (3 :> web)
Two      == (1 :> ssh) @@ (2 :> ssh)

=============================================================================
