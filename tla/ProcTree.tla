------------------------------ MODULE ProcTree ------------------------------
(***************************************************************************)
(* What fork, exit and wait promise user programs: a tree of processes     *)
(* rooted at init.  An exited process stays in the tree until its parent   *)
(* waits for it; its children are handed to init at once.                  *)
(***************************************************************************)
EXTENDS Integers

CONSTANTS Pids, InitPid

VARIABLES tree,   \* the parent of each process; 0 is the parent of init
          dead    \* processes that have exited and are not yet waited for

Live == DOMAIN tree \ dead

Init ==
    /\ tree = [n \in {InitPid} |-> 0]
    /\ dead = {}

Fork(n, m) ==
    /\ n \in Live
    /\ m \notin DOMAIN tree
    /\ tree' = [k \in DOMAIN tree \cup {m} |-> IF k = m THEN n ELSE tree[k]]
    /\ UNCHANGED dead

Exit(n) ==
    /\ n \in Live \ {InitPid}
    /\ tree' = [k \in DOMAIN tree |-> IF tree[k] = n THEN InitPid ELSE tree[k]]
    /\ dead' = dead \cup {n}

Wait(n, m) ==
    /\ n \in Live
    /\ m \in dead /\ tree[m] = n
    /\ tree' = [k \in DOMAIN tree \ {m} |-> tree[k]]
    /\ dead' = dead \ {m}

Next == \E n \in Pids :
    \/ \E m \in Pids : Fork(n, m) \/ Wait(n, m)
    \/ Exit(n)

Spec == Init /\ [][Next]_<<tree, dead>>
=============================================================================
