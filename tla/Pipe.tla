-------------------------------- MODULE Pipe --------------------------------
(***************************************************************************)
(* kernel/pipe.c: one pipe, its readers and its writers.  pi->lock is the  *)
(* process that holds it; one byte is copied per step.  sleep and wakeup   *)
(* are the atomic ones of module CondVar: a reader sleeps on &pi->nread, a *)
(* writer on &pi->nwrite.                                                  *)
(*                                                                         *)
(* An end is closed when the last file reference to it goes, so not while  *)
(* a process is inside a call that uses it.                                *)
(***************************************************************************)
EXTENDS Integers, Sequences

CONSTANTS Readers, Writers,
          Nobody,      \* the holder of a free lock
          Bytes,
          PIPESIZE,
          UINT,        \* number of values of an unsigned int
          Counts       \* numbers of bytes asked for in one call

ASSUME PipeAssumption ==
    /\ Bytes # {} /\ PIPESIZE \in Nat \ {0} /\ UINT \in Nat
    /\ PIPESIZE < UINT /\ UINT % PIPESIZE = 0    \* 512 and 2^32
    /\ Readers \cap Writers = {} /\ Nobody \notin Readers \cup Writers
    /\ Counts \subseteq Nat

Procs == Readers \cup Writers

VARIABLES data, nread, nwrite, readopen, writeopen, lock,   \* struct pipe
          pc,       \* where each process is
          n, i,     \* argument and loop variable of its call
          killed,   \* p->killed
          cut       \* a killed writer has returned after writing a part

pipe == <<data, nread, nwrite, readopen, writeopen>>
vars == <<pipe, lock, pc, n, i, killed, cut>>

Init ==
    /\ data = [k \in 0..PIPESIZE - 1 |-> CHOOSE b \in Bytes : TRUE]   \* kalloc's junk
    /\ nread = 0 /\ nwrite = 0
    /\ readopen = 1 /\ writeopen = 1
    /\ lock = Nobody
    /\ pc = [p \in Procs |-> "idle"]
    /\ n = [p \in Procs |-> 0]
    /\ i = [p \in Procs |-> 0]
    /\ killed = [p \in Procs |-> 0]
    /\ cut = 0

Empty == nread = nwrite
Full == nwrite = (nread + PIPESIZE) % UINT

\* c++ of an unsigned counter.
Inc(c) == (c + 1) % UINT

Wake(S, f) == [p \in Procs |-> IF p \in S /\ f[p] = "asleep" THEN "woken" ELSE f[p]]

Holds(p, l) == lock = p /\ pc[p] = l
goto(p, l) == pc' = [pc EXCEPT ![p] = l]

\* A call begins, or sleep() returns: acquire(&pi->lock).
Call(p, l, k) ==
    /\ pc[p] = "idle" /\ killed[p] = 0 /\ lock = Nobody
    /\ lock' = p
    /\ goto(p, l)
    /\ n' = [n EXCEPT ![p] = k]
    /\ i' = [i EXCEPT ![p] = 0]
    /\ UNCHANGED <<pipe, killed, cut>>

Resume(p) ==
    /\ pc[p] = "woken" /\ lock = Nobody
    /\ lock' = p
    /\ goto(p, IF p \in Writers THEN "write" ELSE "wait")
    /\ UNCHANGED <<pipe, n, i, killed, cut>>

Sleep(p, f) ==
    /\ pc' = [f EXCEPT ![p] = "asleep"]
    /\ lock' = Nobody

\* wakeup, release(&pi->lock) and return.
Return(p, woken) ==
    /\ pc' = Wake(woken, [pc EXCEPT ![p] = "idle"])
    /\ lock' = Nobody
    /\ n' = [n EXCEPT ![p] = 0]
    /\ i' = [i EXCEPT ![p] = 0]

(***************************************************************************)
(* pipewrite().                                                            *)
(***************************************************************************)
pipewrite(p, k) == p \in Writers /\ writeopen = 1 /\ Call(p, "write", k)

pipewrite_abort(p) ==
    /\ Holds(p, "write") /\ i[p] < n[p]
    /\ readopen = 0 \/ killed[p] = 1
    /\ Return(p, {})
    /\ cut' = IF i[p] > 0 THEN 1 ELSE cut
    /\ UNCHANGED <<pipe, killed>>

Writing(p) == Holds(p, "write") /\ i[p] < n[p] /\ readopen = 1 /\ killed[p] = 0

\* Fault: a writer that finds the pipe full goes to sleep without a wakeup.
pipewrite_full_silent(p) ==
    /\ Writing(p) /\ Full
    /\ Sleep(p, pc)
    /\ UNCHANGED <<pipe, n, i, killed, cut>>

pipewrite_full(p) ==
    /\ Writing(p) /\ Full
    /\ Sleep(p, Wake(Readers, pc))
    /\ UNCHANGED <<pipe, n, i, killed, cut>>

\* Fault: the ring is taken for full one byte late.
pipewrite_byte_late(p, b) ==
    /\ Writing(p) /\ nwrite # (nread + PIPESIZE + 1) % UINT
    /\ data' = [data EXCEPT ![nwrite % PIPESIZE] = b]
    /\ nwrite' = Inc(nwrite)
    /\ i' = [i EXCEPT ![p] = @ + 1]
    /\ UNCHANGED <<nread, readopen, writeopen, lock, pc, n, killed, cut>>

\* copyin succeeds.
pipewrite_byte(p, b) ==
    /\ Writing(p) /\ ~Full
    /\ data' = [data EXCEPT ![nwrite % PIPESIZE] = b]
    /\ nwrite' = Inc(nwrite)
    /\ i' = [i EXCEPT ![p] = @ + 1]
    /\ UNCHANGED <<nread, readopen, writeopen, lock, pc, n, killed, cut>>

\* All bytes written, or copyin fails.
pipewrite_end(p) ==
    /\ Holds(p, "write")
    /\ i[p] = n[p] \/ (Writing(p) /\ ~Full)
    /\ Return(p, Readers)
    /\ UNCHANGED <<pipe, killed, cut>>

(***************************************************************************)
(* piperead().                                                             *)
(***************************************************************************)
piperead(p, k) == p \in Readers /\ readopen = 1 /\ Call(p, "wait", k)

piperead_abort(p) ==
    /\ Holds(p, "wait") /\ Empty /\ writeopen = 1 /\ killed[p] = 1
    /\ Return(p, {})
    /\ UNCHANGED <<pipe, killed, cut>>

piperead_sleep(p) ==
    /\ Holds(p, "wait") /\ Empty /\ writeopen = 1 /\ killed[p] = 0
    /\ Sleep(p, pc)
    /\ UNCHANGED <<pipe, n, i, killed, cut>>

piperead_start(p) ==
    /\ Holds(p, "wait") /\ (~Empty \/ writeopen = 0)
    /\ goto(p, "read")
    /\ UNCHANGED <<pipe, lock, n, i, killed, cut>>

Take == nread' = Inc(nread) /\ UNCHANGED <<data, nwrite, readopen, writeopen>>

piperead_byte(p) ==
    /\ Holds(p, "read") /\ i[p] < n[p] /\ ~Empty
    /\ Take
    /\ i' = [i EXCEPT ![p] = @ + 1]
    /\ UNCHANGED <<lock, pc, n, killed, cut>>

\* The byte is taken, then copyout fails.
piperead_lose(p) ==
    /\ Holds(p, "read") /\ i[p] < n[p] /\ ~Empty
    /\ Take
    /\ Return(p, Writers)
    /\ UNCHANGED <<killed, cut>>

piperead_end(p) ==
    /\ Holds(p, "read") /\ (i[p] = n[p] \/ Empty)
    /\ Return(p, Writers)
    /\ UNCHANGED <<pipe, killed, cut>>

(***************************************************************************)
(* pipeclose() and kill().                                                 *)
(***************************************************************************)
\* Fault: pipeclose wakes the processes of the end it closes.
pipeclose_wrong_side(writable) ==
    /\ lock = Nobody
    /\ \A p \in IF writable = 1 THEN Writers ELSE Readers : pc[p] = "idle"
    /\ IF writable = 1
       THEN writeopen = 1 /\ writeopen' = 0 /\ pc' = Wake(Writers, pc) /\ UNCHANGED readopen
       ELSE readopen = 1 /\ readopen' = 0 /\ pc' = Wake(Readers, pc) /\ UNCHANGED writeopen
    /\ UNCHANGED <<data, nread, nwrite, lock, n, i, killed, cut>>

pipeclose(writable) ==
    /\ lock = Nobody
    /\ \A p \in IF writable = 1 THEN Writers ELSE Readers : pc[p] = "idle"
    /\ IF writable = 1
       THEN writeopen = 1 /\ writeopen' = 0 /\ pc' = Wake(Readers, pc) /\ UNCHANGED readopen
       ELSE readopen = 1 /\ readopen' = 0 /\ pc' = Wake(Writers, pc) /\ UNCHANGED writeopen
    /\ UNCHANGED <<data, nread, nwrite, lock, n, i, killed, cut>>

kill(p) ==
    /\ killed[p] = 0
    /\ killed' = [killed EXCEPT ![p] = 1]
    /\ pc' = Wake({p}, pc)
    /\ UNCHANGED <<pipe, lock, n, i, cut>>

\* The steps of a call.
Proceed(p) ==
    \/ pipewrite_abort(p) \/ pipewrite_full(p) \/ pipewrite_end(p)
    \/ \E b \in Bytes : pipewrite_byte(p, b)
    \/ piperead_abort(p) \/ piperead_sleep(p) \/ piperead_start(p)
    \/ piperead_byte(p) \/ piperead_lose(p) \/ piperead_end(p)

Next ==
    \/ \E p \in Procs : \/ \E k \in Counts : pipewrite(p, k) \/ piperead(p, k)
                        \/ Resume(p) \/ Proceed(p) \/ kill(p)
    \/ \E w \in {0, 1} : pipeclose(w)

Spec == Init /\ [][Next]_vars

\* A process in a critical section leaves it; a woken process gets the lock.
Fairness == \A p \in Procs : WF_vars(Proceed(p)) /\ SF_vars(Resume(p))

FairSpec == Spec /\ Fairness

(***************************************************************************)
(* Properties.                                                             *)
(***************************************************************************)
Count == (nwrite - nread) % UINT

Abstract == INSTANCE Fifo WITH
    Capacity <- PIPESIZE,
    queue <- [k \in 1..Count |-> data[(nread + k - 1) % PIPESIZE]]

\* The ring buffer, with counters that wrap around at 2^32, racing readers and
\* writers, partial copies and kills, is a bounded first-in first-out queue.
PipeIsFifo == Abstract!Spec

\* Nobody sleeps who could go on.  A writer sleeps only while the pipe is full
\* and has a reader; a reader only while it is empty and has a writer, unless a
\* killed writer has left pipewrite without its wakeup.
SleepersCannotGoOn ==
    lock = Nobody =>
        /\ \A p \in Writers : pc[p] = "asleep" => Full /\ readopen = 1
        /\ \A p \in Readers : pc[p] = "asleep" => (Empty \/ cut = 1) /\ writeopen = 1

\* A reader or a writer leaves the pipe once the other end is closed.
ClosedEndReleases ==
    /\ \A p \in Readers : writeopen = 0 ~> pc[p] = "idle"
    /\ \A p \in Writers : readopen = 0 ~> pc[p] = "idle"
=============================================================================
