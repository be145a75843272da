----------------------------- MODULE AtomicDisk -----------------------------
(***************************************************************************)
(* What the logging layer of the file system promises its callers          *)
(* (comment at the head of kernel/log.c): the writes of the file-system    *)
(* operations between two commits reach the disk all together or not at    *)
(* all, a commit happens only while no operation is active, and a crash    *)
(* takes the file system back to the last commit.                          *)
(***************************************************************************)
CONSTANTS Procs,    \* processes that run file-system operations
          Blocks,   \* home blocks of the file system
          Vals      \* block contents

VARIABLES stable,   \* what the disk holds after a crash and a recovery
          current,  \* what a reader of the file system sees now
          active    \* processes between begin_op and end_op

vars == <<stable, current, active>>

Init ==
    /\ stable \in [Blocks -> Vals]
    /\ current = stable
    /\ active = {}

Begin(p) ==
    /\ p \notin active
    /\ active' = active \cup {p}
    /\ UNCHANGED <<stable, current>>

Write(p, b, v) ==
    /\ p \in active
    /\ current' = [current EXCEPT ![b] = v]
    /\ UNCHANGED <<stable, active>>

End(p) ==
    /\ p \in active
    /\ active' = active \ {p}
    /\ UNCHANGED <<stable, current>>

Commit ==
    /\ active = {}
    /\ stable' = current
    /\ UNCHANGED <<current, active>>

Crash ==
    /\ current' = stable
    /\ active' = {}
    /\ UNCHANGED stable

Next ==
    \/ \E p \in Procs : \/ Begin(p)
                        \/ End(p)
                        \/ \E b \in Blocks, v \in Vals : Write(p, b, v)
    \/ Commit
    \/ Crash

Spec == Init /\ [][Next]_vars
=============================================================================
