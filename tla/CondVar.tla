------------------------------ MODULE CondVar ------------------------------
(***************************************************************************)
(* What sleep(chan, lk) and wakeup(chan) promise their callers: a monitor  *)
(* whose lock is released and reacquired atomically with going to sleep,   *)
(* and whose wakeup reaches every process asleep on the channel.           *)
(***************************************************************************)
CONSTANTS Users, Chans

VARIABLES place   \* "out", "in" the monitor, "woken", or a channel

Inside(p) == place[p] = "in"

Init == place = [p \in Users |-> "out"]

Acquire(p) ==
    /\ place[p] \in {"out", "woken"}
    /\ \A q \in Users : ~Inside(q)
    /\ place' = [place EXCEPT ![p] = "in"]

Release(p) ==
    /\ Inside(p)
    /\ place' = [place EXCEPT ![p] = "out"]

Sleep(p, ch) ==
    /\ Inside(p)
    /\ place' = [place EXCEPT ![p] = ch]

Wakeup(p, ch) ==
    /\ Inside(p)
    /\ place' = [q \in Users |-> IF place[q] = ch THEN "woken" ELSE place[q]]

\* kill() takes a process out of its sleep.
Interrupt(p) ==
    /\ place[p] \in Chans
    /\ place' = [place EXCEPT ![p] = "woken"]

Next == \E p \in Users :
    \/ Acquire(p) \/ Release(p) \/ Interrupt(p)
    \/ \E ch \in Chans : Sleep(p, ch) \/ Wakeup(p, ch)

Spec == Init /\ [][Next]_place
=============================================================================
