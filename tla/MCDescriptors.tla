---------------------------- MODULE MCDescriptors ----------------------------
(* Small instances of Descriptors for TLC. *)
EXTENDS Descriptors, TLC

CONSTANTS init, a, b, pipe1, pipe2, sock1, sock2

TwoProcs == {init, a}
ThreeProcs == {init, a, b}
OnePipe == {pipe1}
TwoPipes == {pipe1, pipe2}
TwoSockets == {sock1, sock2}

VARIABLE kind   \* which devices the processes make

(* Bound: pipes and sockets meet in no action but the closing of descriptors, *)
(* so a behaviour makes devices of one kind only.                             *)
MCInit == Init /\ kind \in {Pipe, Socket}

MCNext ==
    /\ Next
    /\ made' \subseteq kind
    /\ UNCHANGED kind

MCSpec == MCInit /\ [][MCNext]_<<vars, kind>>

Devs == Permutations({a, b}) \union Permutations(TwoSockets)
=============================================================================
