---------------------------- MODULE SleepWakeup ----------------------------
(***************************************************************************)
(* Processes that use sleep() and wakeup() of kernel/proc.c the way the    *)
(* kernel does: under one condition lock lk, on the channels Chans.  All   *)
(* callers of wakeup in the kernel hold the lock that protects the         *)
(* condition.  Every acquire of p->lock, every iteration of wakeup and     *)
(* every switch is a step of its own; kill() and timer interrupts          *)
(* interfere.                                                              *)
(***************************************************************************)
EXTENDS Sched

CONSTANT Chans

\* The places of CondVar are no channels.
ASSUME ChansAssumption == NoChan \notin Chans /\ Chans \cap {"out", "in", "woken"} = {}

VARIABLES lk,    \* the condition lock
          arg,   \* the argument chan of the call a process is in
          idx    \* the loop variable of wakeup

vars == <<schedvars, pc, ret, lk, arg, idx>>

Init ==
    /\ state = [p \in Procs |-> "RUNNABLE"]
    /\ chan = [p \in Procs |-> NoChan]
    /\ plock = [p \in Procs |-> NoCPU]
    /\ cpu = [c \in CPUs |-> 0]
    /\ pc = [p \in Procs |-> "yielded"]
    /\ ret = [p \in Procs |-> "out"]
    /\ lk = NoCPU
    /\ arg = [p \in Procs |-> NoChan]
    /\ idx = [p \in Procs |-> 0]

acquire_lk(p, c) ==
    /\ RunsOn(p, c)
    /\ pc[p] \in {"out", "relock"}
    /\ lk = NoCPU
    /\ lk' = c
    /\ pc' = [pc EXCEPT ![p] = "in"]
    /\ UNCHANGED <<schedvars, ret, arg, idx>>

release_lk(p) ==
    /\ Runs(p)
    /\ pc[p] \in {"in", "woke"}
    /\ lk' = NoCPU
    /\ pc' = [pc EXCEPT ![p] = "out"]
    /\ UNCHANGED <<schedvars, ret, arg, idx>>

\* Fault: sleep() releases lk before it has acquired p->lock.
sleep_unlocked(p, c, ch) ==
    /\ RunsOn(p, c)
    /\ pc[p] = "in"
    /\ pc' = [pc EXCEPT ![p] = "sleep"]
    /\ lk' = NoCPU
    /\ arg' = [arg EXCEPT ![p] = ch]
    /\ UNCHANGED <<schedvars, ret, idx>>

\* Fault: sleep() keeps lk.
sleep_keeps_lk(p, c, ch) ==
    /\ pc[p] = "in"
    /\ sleep_lock(p, c)
    /\ arg' = [arg EXCEPT ![p] = ch]
    /\ UNCHANGED <<ret, lk, idx>>

\* sleep(ch, &lk), first half: acquire(&p->lock); release(lk).
sleep(p, c, ch) ==
    /\ pc[p] = "in"
    /\ sleep_lock(p, c)
    /\ lk' = NoCPU
    /\ arg' = [arg EXCEPT ![p] = ch]
    /\ UNCHANGED <<ret, idx>>

wakeup(p, ch) ==
    /\ Runs(p)
    /\ pc[p] = "in"
    /\ pc' = [pc EXCEPT ![p] = "wakeup"]
    /\ arg' = [arg EXCEPT ![p] = ch]
    /\ idx' = [idx EXCEPT ![p] = 1]
    /\ UNCHANGED <<schedvars, ret, lk>>

\* Fault: the loop of wakeup stops one slot early.
wakeup_short_loop(p) ==
    /\ Runs(p)
    /\ pc[p] = "wakeup"
    /\ wakeup_slot(p, idx[p], arg[p])
    /\ idx' = [idx EXCEPT ![p] = @ + 1]
    /\ pc' = [pc EXCEPT ![p] = IF idx[p] + 1 < NPROC THEN @ ELSE "woke"]
    /\ UNCHANGED <<ret, lk, arg>>

wakeup_loop(p) ==
    /\ Runs(p)
    /\ pc[p] = "wakeup"
    /\ wakeup_slot(p, idx[p], arg[p])
    /\ idx' = [idx EXCEPT ![p] = IF @ < NPROC THEN @ + 1 ELSE 0]
    /\ pc' = [pc EXCEPT ![p] = IF idx[p] < NPROC THEN @ ELSE "woke"]
    /\ arg' = [arg EXCEPT ![p] = IF idx[p] < NPROC THEN @ ELSE NoChan]
    /\ UNCHANGED <<ret, lk>>

\* kill(): the critical section that finds the victim.
kill(p, q) ==
    /\ Runs(p)
    /\ pc[p] = "out"
    /\ plock[q] = NoCPU
    /\ state[q] = "SLEEPING"
    /\ state' = [state EXCEPT ![q] = "RUNNABLE"]
    /\ UNCHANGED <<chan, plock, cpu, pc, ret, lk, arg, idx>>

Switch(c) ==
    /\ \/ \E p \in Procs : scheduler(c, p)
       \/ scheduler_return(c)
    /\ UNCHANGED <<lk, arg, idx>>

\* The argument of sleep() is dead once it has returned from sched().
forget(p) ==
    /\ arg' = [arg EXCEPT ![p] = NoChan]
    /\ UNCHANGED <<lk, idx>>

\* The steps a process takes on its own once it is in sleep() or wakeup().
Proceed(p) ==
    \/ sleep_block(p, arg[p]) /\ UNCHANGED <<lk, arg, idx>>
    \/ swtch(p) /\ UNCHANGED <<lk, arg, idx>>
    \/ \E c \in CPUs : sleep_return(p, c) /\ forget(p)
    \/ wakeup_loop(p)

Preempt(p) ==
    \E c \in CPUs : /\ \/ pc[p] \in {"out", "relock"} /\ yield(p, c)
                       \/ yield_return(p, c)
                    /\ UNCHANGED <<lk, arg, idx>>

\* The calls of a client: enter, leave, sleep, or wake and leave.
Monitored(p) ==
    \/ \E c \in CPUs : acquire_lk(p, c)
    \/ release_lk(p)
    \/ \E c \in CPUs, ch \in Chans : sleep(p, c, ch)
    \/ \E ch \in Chans : wakeup(p, ch)

Step(p) ==
    \/ Monitored(p)
    \/ Proceed(p)
    \/ \E q \in Procs : kill(p, q)
    \/ Preempt(p)

Next ==
    \/ \E p \in Procs : Step(p)
    \/ \E c \in CPUs : Switch(c)

Spec == Init /\ [][Next]_vars

\* A CPU scans the whole table over and over, so a process that stays RUNNABLE
\* is picked if CPUs keep becoming free; a spinlock that keeps becoming free is
\* acquired by a CPU that spins on it; a critical section ends; a timer
\* interrupt stays pending until the process has interrupts on.
Fairness ==
    /\ \A c \in CPUs : WF_vars(scheduler_return(c) /\ UNCHANGED <<lk, arg, idx>>)
    /\ \A p \in Procs :
        /\ SF_vars(\E c \in CPUs : scheduler(c, p) /\ UNCHANGED <<lk, arg, idx>>)
        /\ SF_vars(Preempt(p) /\ pc[p] # "yielded")
        /\ WF_vars(Preempt(p) /\ pc[p] = "yielded")
        /\ SF_vars(Proceed(p))
        /\ WF_vars(pc[p] # "out" /\ Monitored(p))

FairSpec == Spec /\ Fairness

(***************************************************************************)
(* Properties.                                                             *)
(***************************************************************************)
\* Process p is in the sleep() of channel ch and no wakeup has begun for it.
SleepsOn(p, ch) ==
    /\ arg[p] = ch
    /\ \/ pc[p] \in {"sleep", "sched_sleep"}
       \/ pc[p] = "asleep" /\ state[p] = "SLEEPING"
    /\ \A w \in Procs : ~(pc[w] = "wakeup" /\ arg[w] = ch /\ idx[w] <= p)

Place(p) ==
    CASE pc[p] \in {"in", "wakeup", "woke"}                                -> "in"
      [] pc[p] = "out"                                             -> "out"
      [] pc[p] \in {"sched_yield", "yielded"} /\ ret[p] = "out"    -> "out"
      [] \E ch \in Chans : SleepsOn(p, ch)                         -> arg[p]
      [] OTHER                                                     -> "woken"

Monitor == INSTANCE CondVar WITH Users <- Procs, place <- [p \in Procs |-> Place(p)]

\* No wakeup is lost: sleep() and wakeup(), with their gaps between release(lk)
\* and swtch and between two iterations of the loop, implement the atomic
\* CondVar, on any number of CPUs and in spite of kill() and preemption.
NoLostWakeup == Monitor!Spec

\* A process that wakeup() or kill() has taken out of its sleep runs again: it
\* comes back from sched(), however many processes compete for the CPUs.
WokenRuns == \A p \in Procs : Place(p) = "woken" ~> pc[p] = "relock"

\* sched() finds what its four checks demand: p->lock held by this CPU, no
\* other lock held, p->state changed.  None of its panics is reachable.
SchedChecks ==
    \A p \in Procs, c \in CPUs : RunsOn(p, c) /\ pc[p] \in InSched =>
        /\ {q \in Procs : plock[q] = c} = {p}
        /\ lk # c
        /\ state[p] # "RUNNING"
=============================================================================
