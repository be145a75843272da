-------------------------------- MODULE Sem --------------------------------
(***************************************************************************)
(* The semaphores of kernel/sem.c.  Each has its own lock and channel, so  *)
(* one of them is modelled.  sem->lock is held across each action; sleep   *)
(* and wakeup are the atomic ones of module CondVar, which SleepWakeup     *)
(* shows the kernel's to implement.  A call with an id out of range        *)
(* returns -1 and changes nothing.                                         *)
(***************************************************************************)
EXTENDS Integers

CONSTANTS Procs,
          InitVals,   \* arguments val of sem_init
          INTMAX,     \* largest int
          MaxCount    \* bound: nobody calls sem_up above this count

ASSUME SemAssumption ==
    /\ INTMAX \in Nat /\ MaxCount \in Nat /\ MaxCount <= INTMAX
    /\ InitVals \subseteq 0..INTMAX

VARIABLES count, initialized,   \* the fields of struct semaphore
          pc                    \* "idle", or in sem_down: "asleep", "woken"

vars == <<count, initialized, pc>>

Init ==
    /\ count = 0
    /\ initialized = 0
    /\ pc = [p \in Procs |-> "idle"]

\* Fault: sem_init does not look at initialized.
sem_init_again(p, val) ==
    /\ pc[p] = "idle"
    /\ count' = val
    /\ initialized' = 1
    /\ UNCHANGED pc

\* sem_init fails, and changes nothing, on an initialized semaphore.
sem_init(p, val) ==
    /\ pc[p] = "idle"
    /\ initialized = 0
    /\ count' = val
    /\ initialized' = 1
    /\ UNCHANGED pc

\* Fault: a woken sem_down takes the unit without looking at count again.
sem_down_no_loop(p) ==
    /\ pc[p] \in {"idle", "woken"}
    /\ initialized = 1
    /\ IF count <= 0 /\ pc[p] = "idle"
       THEN /\ pc' = [pc EXCEPT ![p] = "asleep"]
            /\ UNCHANGED count
       ELSE /\ count' = count - 1
            /\ pc' = [pc EXCEPT ![p] = "idle"]
    /\ UNCHANGED initialized

\* sem_down, or the next turn of its loop; killed() is never looked at.
sem_down(p) ==
    /\ pc[p] \in {"idle", "woken"}
    /\ initialized = 1
    /\ \/ /\ count <= 0
          /\ pc' = [pc EXCEPT ![p] = "asleep"]
          /\ UNCHANGED count
       \/ /\ count > 0
          /\ count' = count - 1
          /\ pc' = [pc EXCEPT ![p] = "idle"]
    /\ UNCHANGED initialized

\* int arithmetic: addw wraps.
Increment(n) == IF n = INTMAX THEN -INTMAX - 1 ELSE n + 1

\* Fault: sem_up does not call wakeup.
sem_up_silent(p) ==
    /\ pc[p] = "idle"
    /\ initialized = 1
    /\ count <= MaxCount
    /\ count' = Increment(count)
    /\ UNCHANGED <<initialized, pc>>

sem_up(p) ==
    /\ pc[p] = "idle"
    /\ initialized = 1
    /\ count <= MaxCount
    /\ count' = Increment(count)
    /\ pc' = [q \in Procs |-> IF pc[q] = "asleep" THEN "woken" ELSE pc[q]]
    /\ UNCHANGED initialized

\* kill() makes a sleeping process run; it goes around its loop.
kill(p) ==
    /\ pc[p] = "asleep"
    /\ pc' = [pc EXCEPT ![p] = "woken"]
    /\ UNCHANGED <<count, initialized>>

Next == \E p \in Procs :
    \/ \E v \in InitVals : sem_init(p, v)
    \/ sem_down(p)
    \/ sem_up(p)
    \/ kill(p)

Spec == Init /\ [][Next]_vars

\* A woken process runs again (WokenRuns of SleepWakeup).
FairSpec == Spec /\ \A p \in Procs : WF_vars(pc[p] = "woken" /\ sem_down(p))

(***************************************************************************)
(* Properties.                                                             *)
(***************************************************************************)
TypeOK ==
    /\ count \in -INTMAX - 1..INTMAX
    /\ initialized \in {0, 1}
    /\ pc \in [Procs -> {"idle", "asleep", "woken"}]

Abstract == INSTANCE Semaphore WITH
    Users   <- Procs,
    made    <- initialized,
    value   <- count,
    pending <- {p \in Procs : pc[p] # "idle"}

\* sem.c implements the counting semaphore as long as count stays below
\* INT_MAX: units are neither lost nor invented by racing downs, spurious
\* wakeups or a second sem_init.
CountingSemaphore == Abstract!Spec

\* The same with its liveness: a unit that stays available is taken by one of
\* the processes that wait in sem_down.
WaitersServed == Abstract!FairSpec

\* No process sleeps in sem_down while a unit is available.
SleepersHaveNoUnit == (\E p \in Procs : pc[p] = "asleep") => count <= 0

\* "increment semaphore and wakeup one waiting process": a sem_up takes at
\* most one process out of its sleep.
WakesOne ==
    [][count' > count =>
          \A p, q \in Procs : pc[p] = "asleep" /\ pc'[p] = "woken"
                             /\ pc[q] = "asleep" /\ pc'[q] = "woken" => p = q]_vars

\* "increment semaphore": no sem_up makes the count smaller.  Only sem_down
\* takes units, and only one.
UpIncrements == [][count' < count => count' = count - 1]_vars

\* sem_down never takes count below zero and never sleeps while a unit is
\* there, whoever is woken and in whichever order: the invariant that makes
\* sem.c implement Semaphore.
SemInv ==
    /\ TypeOK
    /\ count >= 0
    /\ initialized = 0 => count = 0 /\ \A p \in Procs : pc[p] = "idle"
    /\ SleepersHaveNoUnit
=============================================================================
