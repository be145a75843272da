------------------------- MODULE SleepWakeupProofs -------------------------
(***************************************************************************)
(* Proofs about SleepWakeup, for any number of processes, CPUs and         *)
(* channels: a kernel stack is used by one CPU, sched() never panics, and  *)
(* sleep() and wakeup() of kernel/proc.c implement CondVar.                *)
(***************************************************************************)
EXTENDS SleepWakeup, TLAPS

\* Places inside the critical section of lk; places where p->lock is free.
Inside == {"in", "wakeup", "woke"}
Unlocked == Inside \cup {"out", "relock"}

TypeOK ==
    /\ state \in [Procs -> {"RUNNABLE", "RUNNING", "SLEEPING"}]
    /\ chan \in [Procs -> Chans \cup {NoChan}]
    /\ plock \in [Procs -> CPUs \cup {NoCPU}]
    /\ cpu \in [CPUs -> Procs \cup {0}]
    /\ pc \in [Procs -> Unlocked \cup {"sleep", "sched_sleep", "asleep", "sched_yield", "yielded"}]
    /\ ret \in [Procs -> {"out", "relock"}]
    /\ lk \in CPUs \cup {NoCPU}
    /\ arg \in [Procs -> Chans \cup {NoChan}]
    /\ idx \in [Procs -> Procs \cup {0}]

\* Who has p->lock: the CPU that is between the two ends of a swtch of p.  A
\* thread that is not saved is on a CPU.
LockInv ==
    /\ \A c \in CPUs, p \in Procs : cpu[c] = p =>
           plock[p] = IF pc[p] \in Unlocked THEN NoCPU ELSE c
    /\ \A p \in Procs : plock[p] # NoCPU => cpu[plock[p]] = p
    /\ \A p \in Procs : pc[p] \notin Saved => \E c \in CPUs : cpu[c] = p

\* p->state against the place of p.
StateInv ==
    \A p \in Procs :
        /\ pc[p] \in Unlocked \cup {"sleep"} => state[p] = "RUNNING"
        /\ pc[p] = "sched_sleep" => state[p] = "SLEEPING"
        /\ pc[p] = "sched_yield" => state[p] = "RUNNABLE"
        /\ pc[p] = "yielded" => state[p] # "SLEEPING"
        /\ state[p] = "RUNNING" => \E c \in CPUs : cpu[c] = p

\* lk is held by the CPU of the process inside the critical section.
CondInv ==
    /\ \A c \in CPUs, p \in Procs : cpu[c] = p /\ pc[p] \in Inside => lk = c
    /\ lk # NoCPU => cpu[lk] \in Procs /\ pc[cpu[lk]] \in Inside

\* The channel of a call.
ChanInv ==
    \A p \in Procs :
        /\ pc[p] \in {"sleep", "sched_sleep", "asleep", "wakeup"} => arg[p] \in Chans
        /\ pc[p] \in {"sched_sleep", "asleep"} => chan[p] = arg[p]
        /\ pc[p] = "wakeup" => idx[p] \in Procs

SleepInv == TypeOK /\ StackExclusive /\ LockInv /\ StateInv /\ CondInv /\ ChanInv

-----------------------------------------------------------------------------
(* Every step keeps SleepInv.                                                *)

\* 0, c->proc of a CPU that runs no process, is not a slot; slot 1 is one, and
\* so is the one after a slot that is not the last.
LEMMA Slots == 0 \notin Procs /\ 1 \in Procs /\ \A k \in Procs : k < NPROC => k + 1 \in Procs
BY SchedAssumption DEF Procs

\* Every variable keeps its type.
LEMMA TypeStep == ASSUME SleepInv, [Next]_vars PROVE TypeOK'
<1> USE Slots, SchedAssumption, ChansAssumption DEF SleepInv, TypeOK, Unlocked, Inside
<1>1. ASSUME NEW p \in Procs, NEW c \in CPUs, acquire_lk(p, c) PROVE TypeOK'
    BY <1>1 DEF acquire_lk, RunsOn, schedvars
<1>2. ASSUME NEW p \in Procs, release_lk(p) PROVE TypeOK'
    BY <1>2 DEF release_lk, Runs, RunsOn, schedvars
<1>3. ASSUME NEW p \in Procs, NEW c \in CPUs, NEW ch \in Chans, sleep(p, c, ch)
      PROVE  TypeOK'
    BY <1>3 DEF sleep, sleep_lock, RunsOn
<1>4. ASSUME NEW p \in Procs, NEW ch \in Chans, wakeup(p, ch) PROVE TypeOK'
    BY <1>4 DEF wakeup, Runs, RunsOn, schedvars
<1>5. ASSUME NEW p \in Procs, sleep_block(p, arg[p]) /\ UNCHANGED <<lk, arg,
             idx>>
      PROVE  TypeOK'
    BY <1>5 DEF sleep_block, Runs, RunsOn
<1>6. ASSUME NEW p \in Procs, swtch(p) /\ UNCHANGED <<lk, arg, idx>>
      PROVE  TypeOK'
    BY <1>6 DEF swtch, InSched, Runs, RunsOn, schedvars
<1>7. ASSUME NEW p \in Procs, NEW c \in CPUs, sleep_return(p, c) /\ forget(p)
      PROVE  TypeOK'
    BY <1>7 DEF sleep_return, forget
<1>8. ASSUME NEW p \in Procs, wakeup_loop(p) PROVE TypeOK'
    <2>1. idx[p] \in Procs
        BY <1>8 DEF wakeup_loop, ChanInv
    <2>2. idx' \in [Procs -> Procs \cup {0}]
        BY <1>8, <2>1 DEF wakeup_loop
    <2>3. state' \in [Procs -> {"RUNNABLE", "RUNNING", "SLEEPING"}]
        BY <1>8, <2>1 DEF wakeup_loop, wakeup_slot
    <2> QED
        BY <1>8, <2>2, <2>3 DEF wakeup_loop, wakeup_slot
<1>9. ASSUME NEW p \in Procs, NEW q \in Procs, kill(p, q) PROVE TypeOK'
    BY <1>9 DEF kill, Runs, RunsOn
<1>10. ASSUME NEW p \in Procs, NEW c \in CPUs, pc[p] \in {"out", "relock"}, yield(p, c),
             UNCHANGED <<lk, arg, idx>> PROVE TypeOK'
    BY <1>10 DEF yield, RunsOn
<1>11. ASSUME NEW p \in Procs, NEW c \in CPUs, yield_return(p, c),
              UNCHANGED <<lk, arg, idx>>
       PROVE  TypeOK'
    BY <1>11 DEF yield_return
<1>12. ASSUME NEW c \in CPUs, NEW p \in Procs, scheduler(c, p),
              UNCHANGED <<lk, arg, idx>>
       PROVE  TypeOK'
    BY <1>12 DEF scheduler
<1>13. ASSUME NEW c \in CPUs, scheduler_return(c), UNCHANGED <<lk, arg, idx>>
       PROVE  TypeOK'
    BY <1>13 DEF scheduler_return
<1>14. ASSUME UNCHANGED vars PROVE TypeOK'
    BY <1>14 DEF vars, schedvars
<1> HIDE DEF SleepInv, TypeOK, Unlocked, Inside
<1> QED
    BY <1>1, <1>2, <1>3, <1>4, <1>5, <1>6, <1>7, <1>8, <1>9, <1>10, <1>11, <1>12, <1>13, <1>14
    DEF Next, Step, Monitored, Proceed, Preempt, Switch

\* Only a CPU that runs its scheduler takes a process, and only one that no CPU
\* has.
LEMMA StackStep == ASSUME SleepInv, [Next]_vars PROVE StackExclusive'
<1> USE Slots, SchedAssumption, ChansAssumption
DEF SleepInv, TypeOK, StackExclusive, LockInv, StateInv
<1>1. ASSUME NEW p \in Procs, NEW c \in CPUs, acquire_lk(p, c)
      PROVE  StackExclusive'
    BY <1>1 DEF acquire_lk, RunsOn, schedvars, Unlocked, Inside, Saved
<1>2. ASSUME NEW p \in Procs, release_lk(p) PROVE StackExclusive'
    BY <1>2 DEF release_lk, Runs, RunsOn, schedvars, Unlocked, Inside, Saved
<1>3. ASSUME NEW p \in Procs, NEW c \in CPUs, NEW ch \in Chans, sleep(p, c, ch)
      PROVE  StackExclusive'
    BY <1>3 DEF sleep, sleep_lock, RunsOn, Unlocked, Inside, Saved
<1>4. ASSUME NEW p \in Procs, NEW ch \in Chans, wakeup(p, ch)
      PROVE  StackExclusive'
    BY <1>4 DEF wakeup, Runs, RunsOn, schedvars, Unlocked, Inside, Saved
<1>5. ASSUME NEW p \in Procs, sleep_block(p, arg[p]) /\ UNCHANGED <<lk, arg,
             idx>>
      PROVE  StackExclusive'
    BY <1>5 DEF sleep_block, Runs, RunsOn, Unlocked, Inside, Saved
<1>6. ASSUME NEW p \in Procs, swtch(p) /\ UNCHANGED <<lk, arg, idx>>
      PROVE  StackExclusive'
    BY <1>6 DEF swtch, InSched, Runs, RunsOn, schedvars, Unlocked, Inside, Saved
<1>7. ASSUME NEW p \in Procs, NEW c \in CPUs, sleep_return(p, c) /\ forget(p)
      PROVE  StackExclusive'
    BY <1>7 DEF sleep_return, forget, Unlocked, Inside, Saved
<1>8. ASSUME NEW p \in Procs, wakeup_loop(p) PROVE StackExclusive'
    BY <1>8 DEF wakeup_loop, wakeup_slot, Runs, RunsOn, Unlocked, Inside, Saved
<1>9. ASSUME NEW p \in Procs, NEW q \in Procs, kill(p, q) PROVE StackExclusive'
    BY <1>9 DEF kill, Runs, RunsOn, Unlocked, Inside, Saved
<1>10. ASSUME NEW p \in Procs, NEW c \in CPUs, pc[p] \in {"out", "relock"}, yield(p, c),
             UNCHANGED <<lk, arg, idx>> PROVE StackExclusive'
    BY <1>10 DEF yield, RunsOn, Unlocked, Inside, Saved
<1>11. ASSUME NEW p \in Procs, NEW c \in CPUs, yield_return(p, c),
              UNCHANGED <<lk, arg, idx>>
       PROVE  StackExclusive'
    BY <1>11 DEF yield_return, Unlocked, Inside, Saved
<1>12. ASSUME NEW c \in CPUs, NEW p \in Procs, scheduler(c, p),
              UNCHANGED <<lk, arg, idx>>
       PROVE  StackExclusive'
    BY <1>12 DEF scheduler, Unlocked, Inside, Saved
<1>13. ASSUME NEW c \in CPUs, scheduler_return(c), UNCHANGED <<lk, arg, idx>>
       PROVE  StackExclusive'
    BY <1>13 DEF scheduler_return, Unlocked, Inside, Saved
<1>14. ASSUME UNCHANGED vars PROVE StackExclusive'
    BY <1>14 DEF vars, schedvars, Unlocked, Inside, Saved
<1> HIDE DEF SleepInv, TypeOK, StackExclusive, LockInv, StateInv
<1> QED
    BY <1>1, <1>2, <1>3, <1>4, <1>5, <1>6, <1>7, <1>8, <1>9, <1>10, <1>11, <1>12, <1>13, <1>14
    DEF Next, Step, Monitored, Proceed, Preempt, Switch

\* p->lock goes from the process to its CPU's scheduler and back.
LEMMA LockStep == ASSUME SleepInv, [Next]_vars PROVE LockInv'
<1> USE Slots, SchedAssumption, ChansAssumption
DEF SleepInv, TypeOK, StackExclusive, LockInv, StateInv
<1>1. ASSUME NEW p \in Procs, NEW c \in CPUs, acquire_lk(p, c) PROVE LockInv'
    BY <1>1 DEF acquire_lk, RunsOn, schedvars, Unlocked, Inside, Saved
<1>2. ASSUME NEW p \in Procs, release_lk(p) PROVE LockInv'
    BY <1>2 DEF release_lk, Runs, RunsOn, schedvars, Unlocked, Inside, Saved
<1>3. ASSUME NEW p \in Procs, NEW c \in CPUs, NEW ch \in Chans, sleep(p, c, ch)
      PROVE  LockInv'
    BY <1>3 DEF sleep, sleep_lock, RunsOn, Unlocked, Inside, Saved
<1>4. ASSUME NEW p \in Procs, NEW ch \in Chans, wakeup(p, ch) PROVE LockInv'
    BY <1>4 DEF wakeup, Runs, RunsOn, schedvars, Unlocked, Inside, Saved
<1>5. ASSUME NEW p \in Procs, sleep_block(p, arg[p]) /\ UNCHANGED <<lk, arg,
             idx>>
      PROVE  LockInv'
    BY <1>5 DEF sleep_block, Runs, RunsOn, Unlocked, Inside, Saved
<1>6. ASSUME NEW p \in Procs, swtch(p) /\ UNCHANGED <<lk, arg, idx>>
      PROVE  LockInv'
    BY <1>6 DEF swtch, InSched, Runs, RunsOn, schedvars, Unlocked, Inside, Saved
<1>7. ASSUME NEW p \in Procs, NEW c \in CPUs, sleep_return(p, c) /\ forget(p)
      PROVE  LockInv'
    BY <1>7 DEF sleep_return, forget, Unlocked, Inside, Saved
<1>8. ASSUME NEW p \in Procs, wakeup_loop(p) PROVE LockInv'
    BY <1>8 DEF wakeup_loop, wakeup_slot, Runs, RunsOn, Unlocked, Inside, Saved
<1>9. ASSUME NEW p \in Procs, NEW q \in Procs, kill(p, q) PROVE LockInv'
    BY <1>9 DEF kill, Runs, RunsOn, Unlocked, Inside, Saved
<1>10. ASSUME NEW p \in Procs, NEW c \in CPUs, pc[p] \in {"out", "relock"}, yield(p, c),
             UNCHANGED <<lk, arg, idx>> PROVE LockInv'
    BY <1>10 DEF yield, RunsOn, Unlocked, Inside, Saved
<1>11. ASSUME NEW p \in Procs, NEW c \in CPUs, yield_return(p, c),
              UNCHANGED <<lk, arg, idx>>
       PROVE  LockInv'
    BY <1>11 DEF yield_return, Unlocked, Inside, Saved
<1>12. ASSUME NEW c \in CPUs, NEW p \in Procs, scheduler(c, p),
              UNCHANGED <<lk, arg, idx>>
       PROVE  LockInv'
    BY <1>12 DEF scheduler, Unlocked, Inside, Saved
<1>13. ASSUME NEW c \in CPUs, scheduler_return(c), UNCHANGED <<lk, arg, idx>>
       PROVE  LockInv'
    BY <1>13 DEF scheduler_return, Unlocked, Inside, Saved
<1>14. ASSUME UNCHANGED vars PROVE LockInv'
    BY <1>14 DEF vars, schedvars, Unlocked, Inside, Saved
<1> HIDE DEF SleepInv, TypeOK, StackExclusive, LockInv, StateInv
<1> QED
    BY <1>1, <1>2, <1>3, <1>4, <1>5, <1>6, <1>7, <1>8, <1>9, <1>10, <1>11, <1>12, <1>13, <1>14
    DEF Next, Step, Monitored, Proceed, Preempt, Switch

\* p->state changes only under p->lock.
LEMMA StateStep == ASSUME SleepInv, [Next]_vars PROVE StateInv'
<1> USE Slots, SchedAssumption, ChansAssumption DEF SleepInv, TypeOK, LockInv, StateInv
<1>1. ASSUME NEW p \in Procs, NEW c \in CPUs, acquire_lk(p, c) PROVE StateInv'
    BY <1>1 DEF acquire_lk, RunsOn, schedvars, Unlocked, Inside, Saved
<1>2. ASSUME NEW p \in Procs, release_lk(p) PROVE StateInv'
    BY <1>2 DEF release_lk, Runs, RunsOn, schedvars, Unlocked, Inside, Saved
<1>3. ASSUME NEW p \in Procs, NEW c \in CPUs, NEW ch \in Chans, sleep(p, c, ch)
      PROVE  StateInv'
    BY <1>3 DEF sleep, sleep_lock, RunsOn, Unlocked, Inside, Saved
<1>4. ASSUME NEW p \in Procs, NEW ch \in Chans, wakeup(p, ch) PROVE StateInv'
    BY <1>4 DEF wakeup, Runs, RunsOn, schedvars, Unlocked, Inside, Saved
<1>5. ASSUME NEW p \in Procs, sleep_block(p, arg[p]) /\ UNCHANGED <<lk, arg,
             idx>>
      PROVE  StateInv'
    BY <1>5 DEF sleep_block, Runs, RunsOn, Unlocked, Inside, Saved
<1>6. ASSUME NEW p \in Procs, swtch(p) /\ UNCHANGED <<lk, arg, idx>>
      PROVE  StateInv'
    BY <1>6 DEF swtch, InSched, Runs, RunsOn, schedvars, Unlocked, Inside, Saved
<1>7. ASSUME NEW p \in Procs, NEW c \in CPUs, sleep_return(p, c) /\ forget(p)
      PROVE  StateInv'
    BY <1>7 DEF sleep_return, forget, Unlocked, Inside, Saved
<1>8. ASSUME NEW p \in Procs, wakeup_loop(p) PROVE StateInv'
    BY <1>8 DEF wakeup_loop, wakeup_slot, Runs, RunsOn, Unlocked, Inside, Saved
<1>9. ASSUME NEW p \in Procs, NEW q \in Procs, kill(p, q) PROVE StateInv'
    BY <1>9 DEF kill, Runs, RunsOn, Unlocked, Inside, Saved
<1>10. ASSUME NEW p \in Procs, NEW c \in CPUs, pc[p] \in {"out", "relock"}, yield(p, c),
             UNCHANGED <<lk, arg, idx>> PROVE StateInv'
    BY <1>10 DEF yield, RunsOn, Unlocked, Inside, Saved
<1>11. ASSUME NEW p \in Procs, NEW c \in CPUs, yield_return(p, c),
              UNCHANGED <<lk, arg, idx>>
       PROVE  StateInv'
    BY <1>11 DEF yield_return, Unlocked, Inside, Saved
<1>12. ASSUME NEW c \in CPUs, NEW p \in Procs, scheduler(c, p),
              UNCHANGED <<lk, arg, idx>>
       PROVE  StateInv'
    BY <1>12 DEF scheduler, Unlocked, Inside, Saved
<1>13. ASSUME NEW c \in CPUs, scheduler_return(c), UNCHANGED <<lk, arg, idx>>
       PROVE  StateInv'
    BY <1>13 DEF scheduler_return, Unlocked, Inside, Saved
<1>14. ASSUME UNCHANGED vars PROVE StateInv'
    BY <1>14 DEF vars, schedvars, Unlocked, Inside, Saved
<1> HIDE DEF SleepInv, TypeOK, LockInv, StateInv
<1> QED
    BY <1>1, <1>2, <1>3, <1>4, <1>5, <1>6, <1>7, <1>8, <1>9, <1>10, <1>11, <1>12, <1>13, <1>14
    DEF Next, Step, Monitored, Proceed, Preempt, Switch

\* lk is taken when it is free and released by the process inside.
LEMMA CondStep == ASSUME SleepInv, [Next]_vars PROVE CondInv'
<1> USE Slots, SchedAssumption, ChansAssumption
DEF SleepInv, TypeOK, StackExclusive, LockInv, StateInv, CondInv
<1>1. ASSUME NEW p \in Procs, NEW c \in CPUs, acquire_lk(p, c) PROVE CondInv'
    BY <1>1 DEF acquire_lk, RunsOn, schedvars, Unlocked, Inside, Saved
<1>2. ASSUME NEW p \in Procs, release_lk(p) PROVE CondInv'
    BY <1>2 DEF release_lk, Runs, RunsOn, schedvars, Unlocked, Inside, Saved
<1>3. ASSUME NEW p \in Procs, NEW c \in CPUs, NEW ch \in Chans, sleep(p, c, ch)
      PROVE  CondInv'
    BY <1>3 DEF sleep, sleep_lock, RunsOn, Unlocked, Inside, Saved
<1>4. ASSUME NEW p \in Procs, NEW ch \in Chans, wakeup(p, ch) PROVE CondInv'
    BY <1>4 DEF wakeup, Runs, RunsOn, schedvars, Unlocked, Inside, Saved
<1>5. ASSUME NEW p \in Procs, sleep_block(p, arg[p]) /\ UNCHANGED <<lk, arg,
             idx>>
      PROVE  CondInv'
    BY <1>5 DEF sleep_block, Runs, RunsOn, Unlocked, Inside, Saved
<1>6. ASSUME NEW p \in Procs, swtch(p) /\ UNCHANGED <<lk, arg, idx>>
      PROVE  CondInv'
    BY <1>6 DEF swtch, InSched, Runs, RunsOn, schedvars, Unlocked, Inside, Saved
<1>7. ASSUME NEW p \in Procs, NEW c \in CPUs, sleep_return(p, c) /\ forget(p)
      PROVE  CondInv'
    BY <1>7 DEF sleep_return, forget, Unlocked, Inside, Saved
<1>8. ASSUME NEW p \in Procs, wakeup_loop(p) PROVE CondInv'
    BY <1>8 DEF wakeup_loop, wakeup_slot, Runs, RunsOn, Unlocked, Inside, Saved
<1>9. ASSUME NEW p \in Procs, NEW q \in Procs, kill(p, q) PROVE CondInv'
    BY <1>9 DEF kill, Runs, RunsOn, Unlocked, Inside, Saved
<1>10. ASSUME NEW p \in Procs, NEW c \in CPUs, pc[p] \in {"out", "relock"}, yield(p, c),
             UNCHANGED <<lk, arg, idx>> PROVE CondInv'
    BY <1>10 DEF yield, RunsOn, Unlocked, Inside, Saved
<1>11. ASSUME NEW p \in Procs, NEW c \in CPUs, yield_return(p, c),
              UNCHANGED <<lk, arg, idx>>
       PROVE  CondInv'
    BY <1>11 DEF yield_return, Unlocked, Inside, Saved
<1>12. ASSUME NEW c \in CPUs, NEW p \in Procs, scheduler(c, p),
              UNCHANGED <<lk, arg, idx>>
       PROVE  CondInv'
    BY <1>12 DEF scheduler, Unlocked, Inside, Saved
<1>13. ASSUME NEW c \in CPUs, scheduler_return(c), UNCHANGED <<lk, arg, idx>>
       PROVE  CondInv'
    BY <1>13 DEF scheduler_return, Unlocked, Inside, Saved
<1>14. ASSUME UNCHANGED vars PROVE CondInv'
    BY <1>14 DEF vars, schedvars, Unlocked, Inside, Saved
<1> HIDE DEF SleepInv, TypeOK, StackExclusive, LockInv, StateInv, CondInv
<1> QED
    BY <1>1, <1>2, <1>3, <1>4, <1>5, <1>6, <1>7, <1>8, <1>9, <1>10, <1>11, <1>12, <1>13, <1>14
    DEF Next, Step, Monitored, Proceed, Preempt, Switch

\* p->chan is the argument of sleep() until sleep() returns.
LEMMA ChanStep == ASSUME SleepInv, [Next]_vars PROVE ChanInv'
<1> USE Slots, SchedAssumption, ChansAssumption DEF SleepInv, TypeOK, ChanInv
<1>1. ASSUME NEW p \in Procs, NEW c \in CPUs, acquire_lk(p, c) PROVE ChanInv'
    BY <1>1 DEF acquire_lk, RunsOn, schedvars, Unlocked, Inside, Saved
<1>2. ASSUME NEW p \in Procs, release_lk(p) PROVE ChanInv'
    BY <1>2 DEF release_lk, Runs, RunsOn, schedvars, Unlocked, Inside, Saved
<1>3. ASSUME NEW p \in Procs, NEW c \in CPUs, NEW ch \in Chans, sleep(p, c, ch)
      PROVE  ChanInv'
    BY <1>3 DEF sleep, sleep_lock, RunsOn, Unlocked, Inside, Saved
<1>4. ASSUME NEW p \in Procs, NEW ch \in Chans, wakeup(p, ch) PROVE ChanInv'
    BY <1>4 DEF wakeup, Runs, RunsOn, schedvars, Unlocked, Inside, Saved
<1>5. ASSUME NEW p \in Procs, sleep_block(p, arg[p]) /\ UNCHANGED <<lk, arg,
             idx>>
      PROVE  ChanInv'
    BY <1>5 DEF sleep_block, Runs, RunsOn, Unlocked, Inside, Saved
<1>6. ASSUME NEW p \in Procs, swtch(p) /\ UNCHANGED <<lk, arg, idx>>
      PROVE  ChanInv'
    BY <1>6 DEF swtch, InSched, Runs, RunsOn, schedvars, Unlocked, Inside, Saved
<1>7. ASSUME NEW p \in Procs, NEW c \in CPUs, sleep_return(p, c) /\ forget(p)
      PROVE  ChanInv'
    BY <1>7 DEF sleep_return, forget, Unlocked, Inside, Saved
<1>8. ASSUME NEW p \in Procs, wakeup_loop(p) PROVE ChanInv'
    BY <1>8 DEF wakeup_loop, wakeup_slot, Runs, RunsOn, Unlocked, Inside, Saved
<1>9. ASSUME NEW p \in Procs, NEW q \in Procs, kill(p, q) PROVE ChanInv'
    BY <1>9 DEF kill, Runs, RunsOn, Unlocked, Inside, Saved
<1>10. ASSUME NEW p \in Procs, NEW c \in CPUs, pc[p] \in {"out", "relock"}, yield(p, c),
             UNCHANGED <<lk, arg, idx>> PROVE ChanInv'
    BY <1>10 DEF yield, RunsOn, Unlocked, Inside, Saved
<1>11. ASSUME NEW p \in Procs, NEW c \in CPUs, yield_return(p, c),
              UNCHANGED <<lk, arg, idx>>
       PROVE  ChanInv'
    BY <1>11 DEF yield_return, Unlocked, Inside, Saved
<1>12. ASSUME NEW c \in CPUs, NEW p \in Procs, scheduler(c, p),
              UNCHANGED <<lk, arg, idx>>
       PROVE  ChanInv'
    BY <1>12 DEF scheduler, Unlocked, Inside, Saved
<1>13. ASSUME NEW c \in CPUs, scheduler_return(c), UNCHANGED <<lk, arg, idx>>
       PROVE  ChanInv'
    BY <1>13 DEF scheduler_return, Unlocked, Inside, Saved
<1>14. ASSUME UNCHANGED vars PROVE ChanInv'
    BY <1>14 DEF vars, schedvars, Unlocked, Inside, Saved
<1> HIDE DEF SleepInv, TypeOK, ChanInv
<1> QED
    BY <1>1, <1>2, <1>3, <1>4, <1>5, <1>6, <1>7, <1>8, <1>9, <1>10, <1>11, <1>12, <1>13, <1>14
    DEF Next, Step, Monitored, Proceed, Preempt, Switch

-----------------------------------------------------------------------------
(* The theorems about the scheduler.                                         *)

\* The scheduler, sleep() and wakeup() keep locks, states and places in step.
THEOREM SleepInvariant == Spec => []SleepInv
<1>1. Init => SleepInv
    <2> SUFFICES ASSUME Init PROVE SleepInv
        OBVIOUS
    <2> USE Slots, SchedAssumption, ChansAssumption DEF Init, Unlocked, Inside, Saved
    <2>1. TypeOK
        BY DEF TypeOK
    <2>2. StackExclusive /\ LockInv
        BY DEF StackExclusive, LockInv
    <2>3. StateInv /\ CondInv /\ ChanInv
        BY DEF StateInv, CondInv, ChanInv
    <2> QED
        BY <2>1, <2>2, <2>3 DEF SleepInv
<1>2. SleepInv /\ [Next]_vars => SleepInv'
    BY TypeStep, StackStep, LockStep, StateStep, CondStep, ChanStep DEF SleepInv
<1> QED
    BY <1>1, <1>2, PTL DEF Spec

\* A kernel stack is never in use on two CPUs (scheduler() and sched()).
THEOREM StackCorrect == Spec => []StackExclusive
<1>1. SleepInv => StackExclusive
    BY DEF SleepInv
<1> QED
    BY <1>1, SleepInvariant, PTL

\* Once p->lock is free, a process is RUNNING exactly when a CPU executes it.
THEOREM RunningCorrect == Spec => []RunningIsOnCPU
<1>1. SleepInv => RunningIsOnCPU
    BY SchedAssumption DEF SleepInv, RunningIsOnCPU, LockInv, StateInv, TypeOK
<1> QED
    BY <1>1, SleepInvariant, PTL

\* None of the panics of sched() is reachable.
THEOREM SchedCorrect == Spec => []SchedChecks
<1>1. SleepInv => SchedChecks
    <2> SUFFICES ASSUME SleepInv, NEW p \in Procs, NEW c \in CPUs,
                        RunsOn(p, c), pc[p] \in InSched
                 PROVE  {q \in Procs : plock[q] = c} = {p} /\ lk # c /\ state[p] # "RUNNING"
        BY DEF SchedChecks
    <2>1. cpu[c] = p /\ pc[p] \notin Unlocked
        BY DEF RunsOn, InSched, Unlocked, Inside
    <2>2. \A q \in Procs : plock[q] = c <=> q = p
        BY <2>1, SchedAssumption DEF SleepInv, LockInv, TypeOK
    <2>3. lk # c
        BY <2>1, SchedAssumption DEF SleepInv, CondInv, Unlocked
    <2>4. state[p] # "RUNNING"
        BY DEF SleepInv, TypeOK, StateInv, InSched, Unlocked, Inside
    <2> QED
        BY <2>2, <2>3, <2>4
<1> QED
    BY <1>1, SleepInvariant, PTL

-----------------------------------------------------------------------------
(* The refinement.                                                           *)

\* p is in sleep(), and no wakeup of its channel has begun.
Waits(p) == SleepsOn(p, arg[p])

\* The place of a process, by the place of its thread.
PlaceOK ==
    \A p \in Procs :
        /\ pc[p] \in Inside => Place(p) = "in"
        /\ pc[p] = "out" => Place(p) = "out"
        /\ pc[p] \in {"sched_yield", "yielded"} =>
               Place(p) = IF ret[p] = "out" THEN "out" ELSE "woken"
        /\ pc[p] = "relock" => Place(p) = "woken"
        /\ pc[p] \in {"sleep", "sched_sleep", "asleep"} =>
               Place(p) = IF Waits(p) THEN arg[p] ELSE "woken"

\* The invariant gives this form of Place.
LEMMA PlaceIs == SleepInv => PlaceOK
<1> SUFFICES ASSUME SleepInv, NEW p \in Procs
             PROVE  PlaceOK!(p)
    BY DEF PlaceOK
<1>1. (\E ch \in Chans : SleepsOn(p, ch)) <=> (arg[p] \in Chans /\ Waits(p))
    BY DEF SleepsOn, Waits
<1>2. Waits(p) => pc[p] \in {"sleep", "sched_sleep", "asleep"}
    BY DEF SleepsOn, Waits
<1>3. pc[p] \in {"sleep", "sched_sleep", "asleep"} => arg[p] \in Chans
    BY DEF SleepInv, ChanInv
<1> QED
    BY <1>1, <1>2, <1>3 DEF Place, Inside

Places == [p \in Procs |-> Place(p)]

\* A step that changes nobody's place is none of CondVar.
LEMMA Stutter ==
    ASSUME \A q \in Procs : Place(q)' = Place(q) PROVE [Monitor!Next]_Places
BY DEF Places

\* A process whose thread and call stay where they are stays in its place, if
\* the wakeups that pass it are the same.
LEMMA SamePlace ==
    ASSUME TypeOK, PlaceOK, PlaceOK', NEW q \in Procs,
           pc'[q] = pc[q], ret'[q] = ret[q], arg'[q] = arg[q], Waits(q)' <=> Waits(q)
    PROVE  Place(q)' = Place(q)
<1> USE DEF PlaceOK
<1>1. CASE pc[q] \in Inside \cup {"out", "relock"}
    BY <1>1
<1>2. CASE pc[q] \in {"sched_yield", "yielded"}
    BY <1>2
<1>3. CASE pc[q] \in {"sleep", "sched_sleep", "asleep"}
    BY <1>3
<1> QED
    BY <1>1, <1>2, <1>3 DEF TypeOK, Unlocked

\* What CondVar sees of a step that moves one process.
LEMMA Moved ==
    ASSUME NEW p \in Procs, NEW v, Place(p)' = v,
           \A q \in Procs \ {p} : Place(q)' = Place(q)
    PROVE  Places' = [Places EXCEPT ![p] = v] /\ Places[p] = Place(p)
BY DEF Places

\* Every step is one of CondVar, or changes nothing there.
LEMMA RefinedStep ==
    ASSUME SleepInv, SleepInv', PlaceOK, PlaceOK', [Next]_vars
    PROVE  [Monitor!Next]_Places
<1> USE Slots, SchedAssumption, ChansAssumption DEF SleepInv, TypeOK
<1>1. ASSUME NEW p \in Procs, NEW c \in CPUs, acquire_lk(p, c)
      PROVE  [Monitor!Next]_Places
    <2>1. \A q \in Procs \ {p} : Waits(q)' <=> Waits(q)
        BY <1>1 DEF acquire_lk, RunsOn, schedvars, Waits, SleepsOn, Inside
    <2>2. \A q \in Procs \ {p} : Place(q)' = Place(q)
        BY <1>1, <2>1, SamePlace DEF acquire_lk, RunsOn, schedvars
    <2>3. Place(p) \in {"out", "woken"} /\ Place(p)' = "in"
        BY <1>1 DEF acquire_lk, RunsOn, schedvars, PlaceOK, Inside
    <2>4. \A q \in Procs : Place(q) # "in"
        <3> SUFFICES ASSUME NEW q \in Procs PROVE Place(q) # "in"
            OBVIOUS
        <3>1. pc[q] \notin Inside
            BY <1>1 DEF acquire_lk, LockInv, CondInv, Inside, Saved
        <3> QED
            BY <3>1 DEF PlaceOK, ChanInv, Unlocked
    <2>5. Monitor!Acquire(p)
        BY Moved, <2>2, <2>3, <2>4 DEF Places, Monitor!Acquire, Monitor!Inside
    <2> QED
        BY <2>5 DEF Monitor!Next
<1>2. ASSUME NEW p \in Procs, release_lk(p) PROVE [Monitor!Next]_Places
    <2>1. \A q \in Procs \ {p} : Waits(q)' <=> Waits(q)
        BY <1>2 DEF release_lk, Runs, RunsOn, schedvars, Waits, SleepsOn, Inside
    <2>2. \A q \in Procs \ {p} : Place(q)' = Place(q)
        BY <1>2, <2>1, SamePlace DEF release_lk, Runs, RunsOn, schedvars
    <2>3. Place(p) = "in" /\ Place(p)' = "out"
        BY <1>2 DEF release_lk, Runs, RunsOn, schedvars, PlaceOK, Inside
    <2>4. Monitor!Release(p)
        BY Moved, <2>2, <2>3 DEF Places, Monitor!Release, Monitor!Inside
    <2> QED
        BY <2>4 DEF Monitor!Next
<1>3. ASSUME NEW p \in Procs, NEW c \in CPUs, NEW ch \in Chans, sleep(p, c, ch)
      PROVE  [Monitor!Next]_Places
    <2>0. \A w \in Procs : pc[w] # "wakeup"
        BY <1>3 DEF sleep, sleep_lock, RunsOn, LockInv, CondInv, Inside, Saved
    <2>1. \A q \in Procs \ {p} : Waits(q)' <=> Waits(q)
        BY <1>3 DEF sleep, sleep_lock, RunsOn, Waits, SleepsOn, Inside
    <2>2. \A q \in Procs \ {p} : Place(q)' = Place(q)
        BY <1>3, <2>1, SamePlace DEF sleep, sleep_lock, RunsOn
    <2>3. Waits(p)'
        BY <1>3, <2>0 DEF sleep, sleep_lock, RunsOn, Waits, SleepsOn
    <2>4. Place(p) = "in" /\ Place(p)' = ch
        BY <1>3, <2>3 DEF sleep, sleep_lock, RunsOn, PlaceOK, Inside
    <2>5. Monitor!Sleep(p, ch)
        BY Moved, <2>2, <2>4 DEF Places, Monitor!Sleep, Monitor!Inside
    <2> QED
        BY <2>5 DEF Monitor!Next
<1>4. ASSUME NEW p \in Procs, NEW ch \in Chans, wakeup(p, ch)
      PROVE  [Monitor!Next]_Places
    <2>1. \A w \in Procs : pc[w] # "wakeup"
        BY <1>4 DEF wakeup, Runs, RunsOn, schedvars, LockInv, CondInv, Inside, Saved
    <2>2. \A q \in Procs \ {p} : Waits(q)' <=> Waits(q) /\ arg[q] # ch
        BY <1>4, <2>1 DEF wakeup, Runs, RunsOn, schedvars, Waits, SleepsOn, Procs
    <2>3. \A q \in Procs \ {p} : Place(q)' = IF Place(q) = ch THEN "woken" ELSE Place(q)
        BY <1>4, <2>2
        DEF wakeup, Runs, RunsOn, schedvars, PlaceOK, ChanInv, Unlocked, Inside
    <2>4. Place(p) = "in" /\ Place(p)' = "in"
        BY <1>4 DEF wakeup, Runs, RunsOn, schedvars, PlaceOK, Inside
    <2>5. Monitor!Wakeup(p, ch)
        BY <2>3, <2>4 DEF Monitor!Wakeup, Monitor!Inside
    <2> QED
        BY <2>5 DEF Monitor!Next
<1>5. ASSUME NEW p \in Procs, sleep_block(p, arg[p]) /\ UNCHANGED <<lk, arg,
             idx>>
      PROVE  [Monitor!Next]_Places
    <2>1. \A q \in Procs \ {p} : Waits(q)' <=> Waits(q)
        BY <1>5 DEF sleep_block, Runs, RunsOn, Waits, SleepsOn, Inside
    <2>2. \A q \in Procs \ {p} : Place(q)' = Place(q)
        BY <1>5, <2>1, SamePlace DEF sleep_block, Runs, RunsOn
    <2>3. Place(p)' = Place(p)
        BY <1>5 DEF sleep_block, Runs, RunsOn, PlaceOK, Waits, SleepsOn, Unlocked, Inside
    <2> QED
        BY <2>2, <2>3, Stutter
<1>6. ASSUME NEW p \in Procs, swtch(p) /\ UNCHANGED <<lk, arg, idx>>
      PROVE  [Monitor!Next]_Places
    <2>1. \A q \in Procs \ {p} : Waits(q)' <=> Waits(q)
        BY <1>6 DEF swtch, InSched, Runs, RunsOn, schedvars, Waits, SleepsOn, Inside
    <2>2. \A q \in Procs \ {p} : Place(q)' = Place(q)
        BY <1>6, <2>1, SamePlace DEF swtch, InSched, Runs, RunsOn, schedvars
    <2>3. Waits(p)' <=> Waits(p)
        BY <1>6 DEF swtch, InSched, Runs, RunsOn, schedvars, StateInv, Waits, SleepsOn
    <2>4. Place(p)' = Place(p)
        BY <1>6, <2>3 DEF swtch, InSched, Runs, RunsOn, schedvars, PlaceOK, Unlocked, Inside
    <2> QED
        BY <2>2, <2>4, Stutter
<1>7. ASSUME NEW p \in Procs, NEW c \in CPUs, sleep_return(p, c) /\ forget(p)
      PROVE  [Monitor!Next]_Places
    <2>1. \A q \in Procs \ {p} : Waits(q)' <=> Waits(q)
        BY <1>7 DEF sleep_return, forget, Waits, SleepsOn, Inside
    <2>2. \A q \in Procs \ {p} : Place(q)' = Place(q)
        BY <1>7, <2>1, SamePlace DEF sleep_return, forget
    <2>3. Place(p)' = Place(p)
        BY <1>7 DEF sleep_return, forget, PlaceOK, Waits, SleepsOn, Unlocked, Inside
    <2> QED
        BY <2>2, <2>3, Stutter
<1>8. ASSUME NEW p \in Procs, wakeup_loop(p) PROVE [Monitor!Next]_Places
    <2>1. \A w \in Procs \ {p} : pc[w] # "wakeup"
        BY <1>8, SMTT(20)
        DEF wakeup_loop, wakeup_slot, Runs, RunsOn, StackExclusive, LockInv,
            CondInv, Inside, Saved
    <2>2. idx[p] \in Procs
        BY <1>8 DEF wakeup_loop, ChanInv
    <2>3. idx[p] # p => pc[idx[p]] \notin {"sleep", "sched_sleep"}
        BY <1>8, <2>2 DEF wakeup_loop, wakeup_slot, LockInv, Unlocked, Inside, Saved
    <2>4. \A q \in Procs \ {p} : pc[q] = "asleep" => chan[q] = arg[q]
        BY DEF ChanInv
    <2>5. \A q \in Procs \ {p} : Waits(q)' <=> Waits(q)
        <3> SUFFICES ASSUME NEW q \in Procs \ {p} PROVE Waits(q)' <=> Waits(q)
            OBVIOUS
        <3>1. CASE arg[q] # arg[p]
            BY <1>8, <2>1, <2>2, <2>4, <3>1
            DEF wakeup_loop, wakeup_slot, Runs, RunsOn, Waits, SleepsOn, Procs
        <3>2. CASE arg[q] = arg[p] /\ idx[p] < q
            BY <1>8, <2>1, <2>2, <3>2
            DEF wakeup_loop, wakeup_slot, Runs, RunsOn, Waits, SleepsOn, Procs
        <3>3. CASE arg[q] = arg[p] /\ idx[p] = q
            BY <1>8, <2>1, <2>2, <2>3, <2>4, <3>3
            DEF wakeup_loop, wakeup_slot, Runs, RunsOn, Waits, SleepsOn, Procs
        <3>4. CASE arg[q] = arg[p] /\ idx[p] > q
            BY <1>8, <2>1, <2>2, <3>4
            DEF wakeup_loop, wakeup_slot, Runs, RunsOn, Waits, SleepsOn, Procs
        <3> QED
            BY <2>2, <3>1, <3>2, <3>3, <3>4 DEF Procs
    <2>6. \A q \in Procs \ {p} : Place(q)' = Place(q)
        BY <1>8, <2>5, SamePlace DEF wakeup_loop, wakeup_slot, Runs, RunsOn
    <2>7. Place(p)' = Place(p)
        BY <1>8 DEF wakeup_loop, PlaceOK, Inside
    <2> QED
        BY <2>6, <2>7, Stutter
<1>9. ASSUME NEW p \in Procs, NEW q \in Procs, kill(p, q)
      PROVE  [Monitor!Next]_Places
    <2>1. pc[q] = "asleep" /\ Place(q)' = "woken"
        BY <1>9
        DEF kill, Runs, RunsOn, PlaceOK, LockInv, StateInv, Waits, SleepsOn,
            Unlocked, Inside, Saved
    <2>2. \A r \in Procs \ {q} : Waits(r)' <=> Waits(r)
        BY <1>9 DEF kill, Waits, SleepsOn
    <2>3. \A r \in Procs \ {q} : Place(r)' = Place(r)
        BY <1>9, <2>2, SamePlace DEF kill, Runs, RunsOn
    <2>4. CASE Place(q) = "woken"
        BY <2>1, <2>3, <2>4, Stutter
    <2>5. CASE Place(q) # "woken"
        <3>1. Place(q) \in Chans
            BY <2>1, <2>5, SMTT(20) DEF PlaceOK, ChanInv
        <3>2. Monitor!Interrupt(q)
            BY Moved, <3>1, <2>1, <2>3, SMTT(20) DEF Places, Monitor!Interrupt
        <3> QED
            BY <3>2 DEF Monitor!Next
    <2> QED
        BY <2>4, <2>5
<1>10. ASSUME NEW p \in Procs, NEW c \in CPUs, pc[p] \in {"out", "relock"}, yield(p, c),
             UNCHANGED <<lk, arg, idx>> PROVE [Monitor!Next]_Places
    <2>1. \A q \in Procs \ {p} : Waits(q)' <=> Waits(q)
        BY <1>10 DEF yield, RunsOn, Waits, SleepsOn, Inside
    <2>2. \A q \in Procs \ {p} : Place(q)' = Place(q)
        BY <1>10, <2>1, SamePlace DEF yield, RunsOn
    <2>3. Place(p)' = Place(p)
        BY <1>10 DEF yield, RunsOn, PlaceOK, Waits, SleepsOn, Unlocked, Inside
    <2> QED
        BY <2>2, <2>3, Stutter
<1>11. ASSUME NEW p \in Procs, NEW c \in CPUs, yield_return(p, c),
              UNCHANGED <<lk, arg, idx>>
       PROVE  [Monitor!Next]_Places
    <2>1. \A q \in Procs \ {p} : Waits(q)' <=> Waits(q)
        BY <1>11 DEF yield_return, Waits, SleepsOn, Inside
    <2>2. \A q \in Procs \ {p} : Place(q)' = Place(q)
        BY <1>11, <2>1, SamePlace DEF yield_return
    <2>3. Place(p)' = Place(p)
        BY <1>11 DEF yield_return, PlaceOK, Waits, SleepsOn, Unlocked, Inside
    <2> QED
        BY <2>2, <2>3, Stutter
<1>12. ASSUME NEW c \in CPUs, NEW p \in Procs, scheduler(c, p),
              UNCHANGED <<lk, arg, idx>>
       PROVE  [Monitor!Next]_Places
    <2>1. \A q \in Procs \ {p} : Waits(q)' <=> Waits(q)
        BY <1>12 DEF scheduler, Waits, SleepsOn, Inside
    <2>2. \A q \in Procs \ {p} : Place(q)' = Place(q)
        BY <1>12, <2>1, SamePlace DEF scheduler
    <2>3. Place(p)' = Place(p)
        BY <1>12 DEF scheduler, PlaceOK, Waits, SleepsOn, Unlocked, Inside
    <2> QED
        BY <2>2, <2>3, Stutter
<1>13. ASSUME NEW c \in CPUs, scheduler_return(c), UNCHANGED <<lk, arg, idx>>
       PROVE  [Monitor!Next]_Places
    <2>1. \A q \in Procs : Waits(q)' <=> Waits(q)
        BY <1>13 DEF scheduler_return, Waits, SleepsOn
    <2>2. \A q \in Procs : Place(q)' = Place(q)
        BY <1>13, <2>1, SamePlace DEF scheduler_return
    <2> QED
        BY <2>2, Stutter
<1>14. ASSUME UNCHANGED vars PROVE [Monitor!Next]_Places
    <2>1. \A q \in Procs : Waits(q)' <=> Waits(q)
        BY <1>14 DEF vars, schedvars, Waits, SleepsOn
    <2>2. \A q \in Procs : Place(q)' = Place(q)
        BY <1>14, <2>1, SamePlace DEF vars, schedvars
    <2> QED
        BY <2>2, Stutter
<1> HIDE DEF SleepInv, TypeOK
<1> QED
    BY <1>1, <1>2, <1>3, <1>4, <1>5, <1>6, <1>7, <1>8, <1>9, <1>10, <1>11, <1>12, <1>13, <1>14
    DEF Next, Step, Monitored, Proceed, Preempt, Switch

\* sleep() and wakeup() implement CondVar: no wakeup is lost, whatever the
\* interleaving, the number of CPUs and the moments of kill() and preemption.
THEOREM WakeupCorrect == Spec => NoLostWakeup
<1>1. Init => Monitor!Init
    <2> SUFFICES ASSUME Init PROVE Monitor!Init
        OBVIOUS
    <2>1. \A p \in Procs : Place(p) = "out"
        BY DEF Init, Place, SleepsOn
    <2> QED
        BY <2>1 DEF Monitor!Init
<1>2. SleepInv /\ SleepInv' /\ PlaceOK /\ PlaceOK' /\ [Next]_vars => [Monitor!Next]_Places
    BY RefinedStep
<1> QED
    BY <1>1, <1>2, PlaceIs, SleepInvariant, PTL DEF Spec, NoLostWakeup, Monitor!Spec, Places
=============================================================================
