-------------------------------- MODULE Proc --------------------------------
(***************************************************************************)
(* The life of a process in kernel/proc.c: fork, exit, wait, kill and the  *)
(* checks of usertrap(), on the scheduler of module Sched, with wait_lock  *)
(* and every p->lock explicit.                                             *)
(*                                                                         *)
(* User programs call fork, exit, wait and kill in any order; initproc     *)
(* (slot 1) neither exits nor is killed, as both panic by design.  Open    *)
(* files, the current directory and the exit status are left out.          *)
(***************************************************************************)
EXTENDS Sched

CONSTANTS MAXPID,     \* bound on the pids handed out
          KillPids    \* arguments of kill()

initproc == 1

VARIABLES pid, parent, killed,   \* p->pid, p->parent (0: none), p->killed (0 or 1)
          nextpid,
          wait_lock,
          np,                    \* local np of fork
          idx,                   \* loop variable of exit, wait and wakeup
          havekids               \* local of wait

procvars == <<pid, parent, killed, nextpid, wait_lock, np, idx, havekids>>
vars == <<schedvars, pc, ret, procvars>>

\* After userinit(): initproc is RUNNABLE, every other slot is UNUSED.
Init ==
    /\ state = [p \in Procs |-> IF p = initproc THEN "RUNNABLE" ELSE "UNUSED"]
    /\ chan = [p \in Procs |-> NoChan]
    /\ plock = [p \in Procs |-> NoCPU]
    /\ cpu = [c \in CPUs |-> 0]
    /\ pc = [p \in Procs |-> "yielded"]
    /\ ret = [p \in Procs |-> "user"]
    /\ pid = [p \in Procs |-> IF p = initproc THEN 1 ELSE 0]
    /\ parent = [p \in Procs |-> 0]
    /\ killed = [p \in Procs |-> 0]
    /\ nextpid = 2
    /\ wait_lock = NoCPU
    /\ np = [p \in Procs |-> 0]
    /\ idx = [p \in Procs |-> 0]
    /\ havekids = [p \in Procs |-> 0]

goto(p, l) == pc' = [pc EXCEPT ![p] = l]

\* usertrap() lets a system call begin only if the process is not killed.
Syscall(p) == Runs(p) /\ pc[p] = "user" /\ plock[p] = NoCPU /\ killed[p] = 0

(***************************************************************************)
(* fork().                                                                 *)
(***************************************************************************)
\* allocproc(): an UNUSED slot becomes USED, its lock held by the caller; its
\* context is forkret, which like the end of yield() releases p->lock.
allocproc(p, c, q) ==
    /\ RunsOn(p, c) /\ Syscall(p)
    /\ nextpid <= MAXPID
    /\ plock[q] = NoCPU
    /\ state[q] = "UNUSED"
    /\ plock' = [plock EXCEPT ![q] = c]
    /\ state' = [state EXCEPT ![q] = "USED"]
    /\ pid' = [pid EXCEPT ![q] = nextpid]
    /\ nextpid' = nextpid + 1
    /\ pc' = [pc EXCEPT ![p] = "fork_copy", ![q] = "yielded"]
    /\ ret' = [ret EXCEPT ![q] = "user"]
    /\ np' = [np EXCEPT ![p] = q]
    /\ UNCHANGED <<chan, cpu, parent, killed, wait_lock, idx, havekids>>

\* Fault: freeproc() leaves p->killed.
freeproc_keeps_killed(q) ==
    /\ state' = [state EXCEPT ![q] = "UNUSED"]
    /\ pid' = [pid EXCEPT ![q] = 0]
    /\ parent' = [parent EXCEPT ![q] = 0]
    /\ chan' = [chan EXCEPT ![q] = NoChan]
    /\ plock' = [plock EXCEPT ![q] = NoCPU]
    /\ UNCHANGED killed

\* freeproc(q) and release(&q->lock).
freeproc(q) ==
    /\ state' = [state EXCEPT ![q] = "UNUSED"]
    /\ pid' = [pid EXCEPT ![q] = 0]
    /\ parent' = [parent EXCEPT ![q] = 0]
    /\ chan' = [chan EXCEPT ![q] = NoChan]
    /\ killed' = [killed EXCEPT ![q] = 0]
    /\ plock' = [plock EXCEPT ![q] = NoCPU]

\* A kalloc in allocproc or uvmcopy fails: free the slot, return -1.
fork_fail(p) ==
    /\ Runs(p)
    /\ pc[p] = "fork_copy"
    /\ freeproc(np[p])
    /\ np' = [np EXCEPT ![p] = 0]
    /\ goto(p, "user")
    /\ UNCHANGED <<cpu, ret, nextpid, wait_lock, idx, havekids>>

\* The copies succeed: release(&np->lock).
fork_copy(p) ==
    /\ Runs(p)
    /\ pc[p] = "fork_copy"
    /\ plock' = [plock EXCEPT ![np[p]] = NoCPU]
    /\ goto(p, "fork_parent")
    /\ UNCHANGED <<state, chan, cpu, ret, procvars>>

fork_parent(p) ==
    /\ Runs(p)
    /\ pc[p] = "fork_parent"
    /\ wait_lock = NoCPU
    /\ parent' = [parent EXCEPT ![np[p]] = p]
    /\ goto(p, "fork_run")
    /\ UNCHANGED <<schedvars, ret, pid, killed, nextpid, wait_lock, np, idx, havekids>>

fork_run(p) ==
    /\ Runs(p)
    /\ pc[p] = "fork_run"
    /\ plock[np[p]] = NoCPU
    /\ state' = [state EXCEPT ![np[p]] = "RUNNABLE"]
    /\ np' = [np EXCEPT ![p] = 0]
    /\ goto(p, "user")
    /\ UNCHANGED <<chan, plock, cpu, ret, pid, parent, killed, nextpid, wait_lock, idx, havekids>>

(***************************************************************************)
(* exit(), by the system call or because usertrap() finds p->killed.       *)
(***************************************************************************)
exit(p, c) ==
    /\ RunsOn(p, c)
    /\ pc[p] = "user"
    /\ p # initproc
    /\ wait_lock = NoCPU
    /\ wait_lock' = c
    /\ goto(p, "reparent")
    /\ UNCHANGED <<schedvars, ret, pid, parent, killed, nextpid, np, idx, havekids>>

\* Fault: exit() forgets reparent().
reparent_none(p) ==
    /\ Runs(p)
    /\ pc[p] = "reparent"
    /\ goto(p, "wakeup_parent")
    /\ idx' = [idx EXCEPT ![p] = 1]
    /\ UNCHANGED <<schedvars, ret, pid, parent, killed, nextpid, wait_lock, np, havekids>>

\* reparent(): wait_lock protects p->parent, so the children move in one step,
\* and the wakeup(initproc) for the first of them serves all: initproc cannot
\* go back to sleep before wait_lock is released.
reparent(p) ==
    /\ Runs(p)
    /\ pc[p] = "reparent"
    /\ parent' = [q \in Procs |-> IF parent[q] = p THEN initproc ELSE parent[q]]
    /\ goto(p, IF parent' = parent THEN "wakeup_parent" ELSE "wakeup_init")
    /\ idx' = [idx EXCEPT ![p] = 1]
    /\ UNCHANGED <<schedvars, ret, pid, killed, nextpid, wait_lock, np, havekids>>

\* wakeup(initproc) from reparent(), then wakeup(p->parent).
exit_wakeup(p) ==
    /\ Runs(p)
    /\ pc[p] \in {"wakeup_init", "wakeup_parent"}
    /\ wakeup_slot(p, idx[p], IF pc[p] = "wakeup_init" THEN initproc ELSE parent[p])
    /\ idx' = [idx EXCEPT ![p] = IF @ < NPROC THEN @ + 1
                                 ELSE IF pc[p] = "wakeup_init" THEN 1 ELSE 0]
    /\ goto(p, IF idx[p] < NPROC THEN pc[p]
               ELSE IF pc[p] = "wakeup_init" THEN "wakeup_parent" ELSE "exit_zombie")
    /\ UNCHANGED <<ret, pid, parent, killed, nextpid, wait_lock, np, havekids>>

exit_zombie(p, c) ==
    /\ RunsOn(p, c)
    /\ pc[p] = "exit_zombie"
    /\ plock[p] = NoCPU
    /\ plock' = [plock EXCEPT ![p] = c]
    /\ state' = [state EXCEPT ![p] = "ZOMBIE"]
    /\ wait_lock' = NoCPU
    /\ goto(p, "sched_exit")
    /\ UNCHANGED <<chan, cpu, ret, pid, parent, killed, nextpid, np, idx, havekids>>

(***************************************************************************)
(* wait().                                                                 *)
(***************************************************************************)
\* acquire(&wait_lock), at the beginning or at the end of sleep().
wait(p, c) ==
    /\ \/ RunsOn(p, c) /\ Syscall(p)
       \/ RunsOn(p, c) /\ pc[p] = "relock"
    /\ wait_lock = NoCPU
    /\ wait_lock' = c
    /\ goto(p, "wait_scan")
    /\ idx' = [idx EXCEPT ![p] = 1]
    /\ havekids' = [havekids EXCEPT ![p] = 0]
    /\ UNCHANGED <<schedvars, ret, pid, parent, killed, nextpid, np>>

\* Fault: wait() does not wait for pp->lock, so it takes a child that is still
\* in exit() or swtch() for a live one.
wait_next_trylock(p) ==
    LET q == idx[p] IN
    /\ Runs(p)
    /\ pc[p] = "wait_scan"
    /\ parent[q] = p => plock[q] # NoCPU \/ state[q] # "ZOMBIE"
    /\ havekids' = [havekids EXCEPT ![p] = IF parent[q] = p THEN 1 ELSE @]
    /\ idx' = [idx EXCEPT ![p] = IF @ < NPROC THEN @ + 1 ELSE 0]
    /\ goto(p, IF q < NPROC THEN "wait_scan" ELSE "wait_check")
    /\ UNCHANGED <<schedvars, ret, pid, parent, killed, nextpid, wait_lock, np>>

\* A slot that is not a ZOMBIE child.
wait_next(p) ==
    LET q == idx[p] IN
    /\ Runs(p)
    /\ pc[p] = "wait_scan"
    /\ parent[q] = p => plock[q] = NoCPU /\ state[q] # "ZOMBIE"
    /\ havekids' = [havekids EXCEPT ![p] = IF parent[q] = p THEN 1 ELSE @]
    /\ idx' = [idx EXCEPT ![p] = IF @ < NPROC THEN @ + 1 ELSE 0]
    /\ goto(p, IF q < NPROC THEN "wait_scan" ELSE "wait_check")
    /\ UNCHANGED <<schedvars, ret, pid, parent, killed, nextpid, wait_lock, np>>

ZombieChild(p, q) ==
    /\ Runs(p)
    /\ pc[p] = "wait_scan" /\ q = idx[p]
    /\ parent[q] = p /\ plock[q] = NoCPU /\ state[q] = "ZOMBIE"

wait_return(p) ==
    /\ wait_lock' = NoCPU
    /\ idx' = [idx EXCEPT ![p] = 0]
    /\ havekids' = [havekids EXCEPT ![p] = 0]
    /\ goto(p, "user")

\* Fault: wait returns the pid of the zombie without freeproc().
wait_reap_keeps(p, q) ==
    /\ ZombieChild(p, q)
    /\ wait_return(p)
    /\ UNCHANGED <<schedvars, ret, pid, parent, killed, nextpid, np>>

\* Found one: wait returns its pid.
wait_reap(p, q) ==
    /\ ZombieChild(p, q)
    /\ freeproc(q)
    /\ wait_return(p)
    /\ UNCHANGED <<cpu, ret, nextpid, np>>

\* Found one, but copyout to the caller's address fails: -1, the child stays.
\* init.c passes no address.
wait_copyout_fail(p, q) ==
    /\ p # initproc
    /\ ZombieChild(p, q)
    /\ wait_return(p)
    /\ UNCHANGED <<schedvars, ret, pid, parent, killed, nextpid, np>>

\* if(!havekids || killed(p)) return -1; killed() takes p->lock.
wait_check(p) ==
    /\ Runs(p)
    /\ pc[p] = "wait_check"
    /\ plock[p] = NoCPU
    /\ \/ /\ havekids[p] = 0 \/ killed[p] = 1
          /\ wait_return(p)
       \/ /\ havekids[p] = 1 /\ killed[p] = 0
          /\ goto(p, "wait_sleep")
          /\ UNCHANGED <<wait_lock, idx, havekids>>
    /\ UNCHANGED <<schedvars, ret, pid, parent, killed, nextpid, np>>

\* sleep(p, &wait_lock).
wait_sleep(p, c) ==
    /\ pc[p] = "wait_sleep"
    /\ sleep_lock(p, c)
    /\ wait_lock' = NoCPU
    /\ UNCHANGED <<ret, pid, parent, killed, nextpid, np, idx, havekids>>

(***************************************************************************)
(* kill(): the iteration that finds the pid.                               *)
(***************************************************************************)
kill(p, n, q) ==
    /\ Syscall(p)
    /\ pid[q] = n
    /\ plock[q] = NoCPU
    /\ killed[q] = 0
    /\ killed' = [killed EXCEPT ![q] = 1]
    /\ state' = [state EXCEPT ![q] = IF @ = "SLEEPING" THEN "RUNNABLE" ELSE @]
    /\ UNCHANGED <<chan, plock, cpu, pc, ret, pid, parent, nextpid, wait_lock, np, idx, havekids>>

(***************************************************************************)
(* Composition.                                                            *)
(***************************************************************************)
\* The steps of a process inside a system call.
Proceed(p) ==
    \/ fork_fail(p) \/ fork_copy(p) \/ fork_parent(p) \/ fork_run(p)
    \/ reparent(p) \/ exit_wakeup(p)
    \/ wait_next(p) \/ wait_check(p)
    \/ \E q \in Procs : wait_reap(p, q) \/ wait_copyout_fail(p, q)
    \/ \E c \in CPUs : \/ exit_zombie(p, c) \/ wait_sleep(p, c)
                       \/ pc[p] = "relock" /\ wait(p, c)
                       \/ sleep_return(p, c) /\ UNCHANGED procvars
    \/ sleep_block(p, p) /\ UNCHANGED procvars

Preempt(p) ==
    /\ \E c \in CPUs : \/ pc[p] \in {"user", "relock", "fork_parent", "fork_run"} /\ yield(p, c)
                       \/ yield_return(p, c)
    /\ UNCHANGED procvars

Step(p) ==
    \/ \E c \in CPUs, q \in Procs : allocproc(p, c, q)
    \/ \E c \in CPUs : exit(p, c) \/ (pc[p] = "user" /\ wait(p, c))
    \/ \E n \in KillPids, q \in Procs : kill(p, n, q)
    \/ Proceed(p)
    \/ swtch(p) /\ UNCHANGED procvars
    \/ Preempt(p)

Switch(c) ==
    /\ scheduler_return(c) \/ \E p \in Procs : scheduler(c, p)
    /\ UNCHANGED procvars

Next ==
    \/ \E p \in Procs : Step(p)
    \/ \E c \in CPUs : Switch(c)

Spec == Init /\ [][Next]_vars

\* As in SleepWakeup; initproc keeps calling wait(), and a user program either
\* makes system calls or is preempted.
Fairness ==
    /\ \A c \in CPUs : WF_vars(scheduler_return(c) /\ UNCHANGED procvars)
    /\ \A p \in Procs :
        /\ SF_vars(\E c \in CPUs : scheduler(c, p) /\ UNCHANGED procvars)
        /\ SF_vars(Preempt(p) /\ pc[p] # "yielded")
        /\ WF_vars(Preempt(p) /\ pc[p] = "yielded")
        /\ SF_vars(Proceed(p))
        /\ WF_vars(swtch(p) /\ UNCHANGED procvars)
    /\ SF_vars(\E c \in CPUs : pc[initproc] = "user" /\ wait(initproc, c))

FairSpec == Spec /\ Fairness

(***************************************************************************)
(* Properties.                                                             *)
(***************************************************************************)
\* When nobody is inside exit() or wait(), a parent asleep in wait() has no
\* child left to collect: exit() makes the child a ZOMBIE under wait_lock after
\* its wakeup, wait() goes to sleep under wait_lock after its scan, and the
\* zombies reparent() moves come with a wakeup(initproc).
WaiterMissesNoZombie ==
    wait_lock = NoCPU =>
        \A p, q \in Procs :
            state[p] = "SLEEPING" /\ chan[p] = p /\ parent[q] = p => state[q] # "ZOMBIE"

\* Slots whose process the tree shows, and those that have entered exit().
Forked == {q \in Procs : state[q] \notin {"UNUSED", "USED"}}
Exited == {q \in Forked : \/ state[q] = "ZOMBIE"
                          \/ pc[q] \in {"wakeup_init", "wakeup_parent", "exit_zombie"}}
SlotOf(n) == CHOOSE q \in Forked : pid[q] = n

Tree == INSTANCE ProcTree WITH
    Pids    <- 1..MAXPID,
    InitPid <- 1,
    tree    <- [n \in {pid[q] : q \in Forked} |->
                   IF n = 1 THEN 0 ELSE pid[parent[SlotOf(n)]]],
    dead    <- {pid[q] : q \in Exited}

\* fork, exit and wait on all CPUs, with failing allocations and copies and
\* with kills at any moment, maintain one tree of processes: every process has
\* a parent that is alive, is collected exactly once, and only by its parent.
ProcessTree == Tree!Spec

\* initproc collects every process that exits as its child, also the ones
\* reparent() hands to it when they are zombies already.
OrphansReaped ==
    \A q \in Procs : state[q] = "ZOMBIE" /\ parent[q] = initproc ~> state[q] # "ZOMBIE"

\* kill() marks processes: a slot of the table that allocproc() turns into a
\* process is not marked already.
FreshNotKilled ==
    [][\A q \in Procs : state[q] = "UNUSED" /\ state'[q] = "USED" => killed'[q] = 0]_vars
=============================================================================
