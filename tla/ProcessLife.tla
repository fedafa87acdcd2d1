----------------------------- MODULE ProcessLife -----------------------------
(* What the process table promises to the programs that use it, without       *)
(* threads, events, zombies or terminals: a process lives once, and whoever   *)
(* waits for it is answered, all waiters together, at the latest after it     *)
(* has died.  Scheduler implements this.                                      *)
CONSTANT Process

VARIABLES life,     \* life[p]: "unborn", "live" or "dead"
          waiting   \* pairs <<q, p>>: q waits for p

lifecycle == <<life, waiting>>

Waiters(p) == {w \in waiting : w[2] = p}

TypeOK ==
    /\ life \in [Process -> {"unborn", "live", "dead"}]
    /\ waiting \subseteq Process \X Process

(* One process exists from the start. *)
Init ==
    /\ \E p \in Process : life = [q \in Process |-> IF q = p THEN "live" ELSE "unborn"]
    /\ waiting = {}

Spawn(p) ==
    /\ life[p] = "unborn"
    /\ life' = [life EXCEPT ![p] = "live"]
    /\ UNCHANGED waiting

(* Only a process that lives can be waited for. *)
Wait(q, p) ==
    /\ life[p] = "live"
    /\ waiting' = waiting \union {<<q, p>>}
    /\ UNCHANGED life

(* Its waiters may be answered in the same step, or later. *)
Die(p) ==
    /\ life[p] = "live"
    /\ life' = [life EXCEPT ![p] = "dead"]
    /\ waiting' \in {waiting, waiting \ Waiters(p)}

(* All waiters of a process are answered together: of a dead one, or of one   *)
(* that detached from them.                                                   *)
Answer(p) ==
    /\ Waiters(p) # {}
    /\ waiting' = waiting \ Waiters(p)
    /\ UNCHANGED life

Next == \E p \in Process :
    Spawn(p) \/ Die(p) \/ Answer(p) \/ \E q \in Process : Wait(q, p)

(* The waiters of a dead process are not left waiting. *)
Spec == /\ Init /\ [][Next]_lifecycle
        /\ \A p \in Process : WF_lifecycle(life[p] = "dead" /\ Answer(p))
=============================================================================
