----------------------------- MODULE BlockStore -----------------------------
(***************************************************************************)
(* What the buffer cache promises its callers: every block has one current *)
(* value; a process that holds a block sees that value, is the only one to *)
(* hold it and the only one to change it.                                  *)
(***************************************************************************)
CONSTANTS Procs, Blocks, Vals, NoBlock, NoVal

VARIABLES value,   \* of each block
          held,    \* the block a process holds
          copy     \* what it finds in the buffer it was given

vars == <<value, held, copy>>

Init ==
    /\ value \in [Blocks -> Vals]
    /\ held = [p \in Procs |-> NoBlock]
    /\ copy = [p \in Procs |-> NoVal]

Acquire(p, k) ==
    /\ held[p] = NoBlock
    /\ \A q \in Procs : held[q] # k
    /\ held' = [held EXCEPT ![p] = k]
    /\ copy' = [copy EXCEPT ![p] = value[k]]
    /\ UNCHANGED value

Change(p, v) ==
    /\ held[p] # NoBlock
    /\ value' = [value EXCEPT ![held[p]] = v]
    /\ copy' = [copy EXCEPT ![p] = v]
    /\ UNCHANGED held

Release(p) ==
    /\ held[p] # NoBlock
    /\ held' = [held EXCEPT ![p] = NoBlock]
    /\ copy' = [copy EXCEPT ![p] = NoVal]
    /\ UNCHANGED value

Next == \E p \in Procs : \/ \E k \in Blocks : Acquire(p, k)
                         \/ \E v \in Vals : Change(p, v)
                         \/ Release(p)

Spec == Init /\ [][Next]_vars
=============================================================================
