----------------------------- MODULE MCScheduler -----------------------------
(* Small instances of Scheduler for TLC. *)
EXTENDS Scheduler, TLC

CONSTANTS uuidA, uuidB, Focus

TwoIdentities == {uuidA, uuidB}
IdentitySymmetry == Permutations(TwoIdentities)

VARIABLE focus   \* what a behaviour of the instance is about

(* Bound: identities and terminals are touched by different calls, so that a  *)
(* behaviour is about one of them.  In one about identities there is a single *)
(* terminal, nobody waits, and a process whose EXEC awaits the network lasts  *)
(* until it is answered (the run scheduler_orphans is about the other case).  *)
AboutIdentities ==
    /\ exitCode' = exitCode /\ waitQueue' = waitQueue
    /\ \A p \in Pid : tty'[p] \in {NoTty, 1}
    /\ \A p \in execs' : Pending(p)'

(* In one about terminals no process registers or awaits a file. *)
AboutTerminals == uuid' = uuid /\ execs' = {}

MCInit == Init /\ focus \in Focus

MCNext ==
    /\ Next
    /\ focus = "identities" => AboutIdentities
    /\ focus = "terminals" => AboutTerminals
    /\ UNCHANGED focus

MCSpec == MCInit /\ [][MCNext]_<<vars, focus>>

MCFairSpec == MCSpec /\ Fairness
=============================================================================
