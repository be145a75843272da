------------------------------- MODULE Sched -------------------------------
(***************************************************************************)
(* The part of kernel/proc.c through which a process gives up its CPU and  *)
(* gets one back: scheduler(), sched(), yield(), sleep(), wakeup().        *)
(* The module declares the state and the steps; SleepWakeup and Proc       *)
(* compose them with the processes that call them.                         *)
(*                                                                         *)
(* A process runs while cpu[c] names it.  A spinlock is the CPU that holds *)
(* it (lk->cpu) or NoCPU.  p->lock is explicit because it crosses swtch:   *)
(* the process acquires it and the scheduler releases it, and back.        *)
(***************************************************************************)
EXTENDS Integers, FiniteSets

CONSTANTS NPROC,   \* slots of the process table
          CPUs,    \* harts
          NoCPU,   \* the holder of a free spinlock
          NoChan   \* p->chan of a process that does not sleep

ASSUME SchedAssumption ==
    /\ NPROC \in Nat \ {0}
    /\ CPUs # {} /\ NoCPU \notin CPUs

VARIABLES state,   \* p->state
          chan,    \* p->chan
          plock,   \* p->lock
          cpu,     \* c->proc, 0 when the CPU runs its scheduler
          pc,      \* where the kernel thread of a process is
          ret      \* where the thread continues when its call returns

schedvars == <<state, chan, plock, cpu>>

Procs == 1..NPROC

\* Places where a thread has left its CPU, or is about to: pc = "sched_x"
\* until swtch has saved the context, "x" from then until it runs again.
Saved == {"asleep", "yielded", "zombie"}
InSched == {"sched_sleep", "sched_yield", "sched_exit"}

RunsOn(p, c) == cpu[c] = p /\ pc[p] \notin Saved
Runs(p) == \E c \in CPUs : RunsOn(p, c)

\* scheduler(): take a RUNNABLE process and swtch to it, p->lock held.
scheduler(c, p) ==
    /\ cpu[c] = 0
    /\ plock[p] = NoCPU
    /\ state[p] = "RUNNABLE"
    /\ plock' = [plock EXCEPT ![p] = c]
    /\ state' = [state EXCEPT ![p] = "RUNNING"]
    /\ cpu' = [cpu EXCEPT ![c] = p]
    /\ UNCHANGED <<chan, pc, ret>>

\* Back in scheduler() after swtch: c->proc = 0 and release p->lock.
scheduler_return(c) ==
    /\ cpu[c] # 0
    /\ pc[cpu[c]] \in Saved /\ state[cpu[c]] # "RUNNING"
    /\ cpu' = [cpu EXCEPT ![c] = 0]
    /\ plock' = [plock EXCEPT ![cpu[c]] = NoCPU]
    /\ UNCHANGED <<state, chan, pc, ret>>

\* The swtch of sched(): the context is saved and the CPU leaves the stack.
swtch(p) ==
    /\ Runs(p)
    /\ pc[p] \in InSched
    /\ pc' = [pc EXCEPT ![p] = CASE @ = "sched_sleep" -> "asleep"
                                 [] @ = "sched_yield" -> "yielded"
                                 [] @ = "sched_exit"  -> "zombie"]
    /\ UNCHANGED <<schedvars, ret>>

\* Fault: yield() makes the process RUNNABLE without p->lock.
yield_unlocked(p, c) ==
    /\ RunsOn(p, c)
    /\ state' = [state EXCEPT ![p] = "RUNNABLE"]
    /\ pc' = [pc EXCEPT ![p] = "sched_yield"]
    /\ ret' = [ret EXCEPT ![p] = pc[p]]
    /\ UNCHANGED <<chan, plock, cpu>>

\* yield(), from a timer interrupt while the process holds no lock.
yield(p, c) ==
    /\ RunsOn(p, c)
    /\ plock[p] = NoCPU
    /\ plock' = [plock EXCEPT ![p] = c]
    /\ state' = [state EXCEPT ![p] = "RUNNABLE"]
    /\ pc' = [pc EXCEPT ![p] = "sched_yield"]
    /\ ret' = [ret EXCEPT ![p] = pc[p]]
    /\ UNCHANGED <<chan, cpu>>

yield_return(p, c) ==
    /\ cpu[c] = p /\ pc[p] = "yielded" /\ state[p] = "RUNNING"
    /\ plock' = [plock EXCEPT ![p] = NoCPU]
    /\ pc' = [pc EXCEPT ![p] = ret[p]]
    /\ UNCHANGED <<state, chan, cpu, ret>>

\* sleep(): acquire p->lock; the caller of this operator releases lk.
sleep_lock(p, c) ==
    /\ RunsOn(p, c)
    /\ plock[p] = NoCPU
    /\ plock' = [plock EXCEPT ![p] = c]
    /\ pc' = [pc EXCEPT ![p] = "sleep"]
    /\ UNCHANGED <<state, chan, cpu>>

sleep_block(p, ch) ==
    /\ Runs(p)
    /\ pc[p] = "sleep"
    /\ chan' = [chan EXCEPT ![p] = ch]
    /\ state' = [state EXCEPT ![p] = "SLEEPING"]
    /\ pc' = [pc EXCEPT ![p] = "sched_sleep"]
    /\ UNCHANGED <<plock, cpu, ret>>

\* sleep() after sched() returns: tidy up, release p->lock, then acquire lk.
sleep_return(p, c) ==
    /\ cpu[c] = p /\ pc[p] = "asleep" /\ state[p] = "RUNNING"
    /\ chan' = [chan EXCEPT ![p] = NoChan]
    /\ plock' = [plock EXCEPT ![p] = NoCPU]
    /\ pc' = [pc EXCEPT ![p] = "relock"]
    /\ UNCHANGED <<state, cpu, ret>>

\* The body of the loop of wakeup() for slot q, called by process p.
wakeup_slot(p, q, ch) ==
    /\ p # q => plock[q] = NoCPU
    /\ state' = [state EXCEPT ![q] = IF p # q /\ @ = "SLEEPING" /\ chan[q] = ch
                                     THEN "RUNNABLE" ELSE @]
    /\ UNCHANGED <<chan, plock, cpu>>

(***************************************************************************)
(* Properties of any composition.                                          *)
(***************************************************************************)
\* A kernel stack is never in use on two CPUs: no process is c->proc of two
\* CPUs, not even while one of them is still inside swtch.
StackExclusive == \A c, d \in CPUs : cpu[c] # 0 /\ cpu[c] = cpu[d] => c = d

\* p->lock covers the gap between p->state and the CPU that executes p: once
\* the lock is free, a process is RUNNING exactly when some CPU executes it.
RunningIsOnCPU ==
    \A p \in Procs : plock[p] = NoCPU =>
        (state[p] = "RUNNING" <=> \E c \in CPUs : cpu[c] = p)
=============================================================================
