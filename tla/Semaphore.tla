----------------------------- MODULE Semaphore -----------------------------
(***************************************************************************)
(* What sem_init, sem_down and sem_up promise user programs: a counting    *)
(* semaphore, created once.                                                *)
(***************************************************************************)
EXTENDS Integers

CONSTANTS Users, InitVals

VARIABLES made,      \* 1 once the semaphore exists
          value,     \* units available
          pending    \* processes inside a down that has not succeeded yet

vars == <<made, value, pending>>

Init == made = 0 /\ value = 0 /\ pending = {}

Create(v) ==
    /\ made = 0
    /\ made' = 1 /\ value' = v
    /\ UNCHANGED pending

\* A down that finds a unit takes it; one that finds none is pending.
Down(p) ==
    /\ made = 1 /\ value > 0
    /\ value' = value - 1
    /\ pending' = pending \ {p}
    /\ UNCHANGED made

Block(p) ==
    /\ made = 1 /\ value = 0
    /\ pending' = pending \cup {p}
    /\ UNCHANGED <<made, value>>

Up(p) ==
    /\ made = 1 /\ p \notin pending
    /\ value' = value + 1
    /\ UNCHANGED <<made, pending>>

Next ==
    \/ \E v \in InitVals : Create(v)
    \/ \E p \in Users : Down(p) \/ Block(p) \/ Up(p)

Spec == Init /\ [][Next]_vars

\* A unit that stays available goes to some pending process.
FairSpec == Spec /\ WF_vars(\E p \in pending : Down(p))
=============================================================================
