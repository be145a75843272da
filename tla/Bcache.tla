------------------------------- MODULE Bcache -------------------------------
(***************************************************************************)
(* kernel/bio.c with the sleep locks of kernel/sleeplock.c that protect    *)
(* the buffers.  A section under bcache.lock is one step, and so is one    *)
(* under the spinlock inside a sleep lock; between them other processes    *)
(* run, and the disk is read and written.                                  *)
(*                                                                         *)
(* The callers are those of the file system: one that changes a buffer     *)
(* writes it, or pins it for the log (log_write), before it releases it;   *)
(* the log unpins a buffer it has written home (install_trans).            *)
(***************************************************************************)
EXTENDS Integers, FiniteSets

CONSTANTS Procs, Nobody, Blocks, NoBlock, Vals, NoVal,
          NBUF,
          MaxPins   \* buffers the log may pin

\* A buffer for every process and every pinned block: NBUF is 30, and a process
\* holds a few buffers at a time.
ASSUME BcacheAssumption ==
    /\ NBUF \in Nat /\ MaxPins \in Nat
    /\ IsFiniteSet(Procs) /\ NBUF >= Cardinality(Procs) + MaxPins
    /\ Nobody \notin Procs /\ NoBlock \notin Blocks /\ NoVal \notin Vals

Bufs == 1..NBUF

VARIABLES lru,                          \* the list from head.next to head.prev
          blockno, valid, refcnt, data, \* of each struct buf
          lock,                         \* the process that holds b->lock
          pinned,                       \* buffers the log has pinned
          disk,
          pc, want, buf                 \* place, argument and buffer of a process

bufvars == <<lru, blockno, valid, refcnt, data>>
vars == <<bufvars, lock, pinned, disk, pc, want, buf>>

\* binit(): the buffers belong to no device.
Init ==
    /\ lru = [j \in Bufs |-> NBUF + 1 - j]
    /\ blockno = [b \in Bufs |-> NoBlock]
    /\ valid = [b \in Bufs |-> 0]
    /\ refcnt = [b \in Bufs |-> 0]
    /\ data = [b \in Bufs |-> NoVal]
    /\ lock = [b \in Bufs |-> Nobody]
    /\ pinned = {}
    /\ \E v \in Vals : disk = [k \in Blocks |-> v]
    /\ pc = [p \in Procs |-> "idle"]
    /\ want = [p \in Procs |-> NoBlock]
    /\ buf = [p \in Procs |-> 0]

At(p, l) == pc[p] = l
goto(p, l) == pc' = [pc EXCEPT ![p] = l]

Cached(k) == {b \in Bufs : blockno[b] = k}

\* The least recently used of the buffers with refcnt 0.
Unused == {j \in Bufs : refcnt[lru[j]] = 0}
LRU == lru[CHOOSE j \in Unused : \A m \in Unused : m <= j]

(***************************************************************************)
(* bget() under bcache.lock.                                               *)
(***************************************************************************)
Begin(p, k, b) ==
    /\ want' = [want EXCEPT ![p] = k]
    /\ buf' = [buf EXCEPT ![p] = b]
    /\ goto(p, "acquire")
    /\ UNCHANGED <<lru, data, lock, pinned, disk>>

\* Fault: bget counts the buffer only when it does not have to wait for it.
bget_hit_uncounted(p, k) ==
    /\ At(p, "idle")
    /\ \E b \in Cached(k) :
        /\ refcnt' = [refcnt EXCEPT ![b] = IF lock[b] = Nobody THEN @ + 1 ELSE @]
        /\ Begin(p, k, b)
    /\ UNCHANGED <<blockno, valid>>

bget_hit(p, k) ==
    /\ At(p, "idle")
    /\ \E b \in Cached(k) :
        /\ refcnt' = [refcnt EXCEPT ![b] = @ + 1]
        /\ Begin(p, k, b)
    /\ UNCHANGED <<blockno, valid>>

bget_recycle(p, k) ==
    /\ At(p, "idle")
    /\ Cached(k) = {} /\ Unused # {}
    /\ blockno' = [blockno EXCEPT ![LRU] = k]
    /\ valid' = [valid EXCEPT ![LRU] = 0]
    /\ refcnt' = [refcnt EXCEPT ![LRU] = 1]
    /\ Begin(p, k, LRU)

(***************************************************************************)
(* acquiresleep() and releasesleep(), on the lock of the caller's buffer.  *)
(***************************************************************************)
\* Fault: acquiresleep takes the lock when it returns from sleep.
acquiresleep_no_loop(p) ==
    /\ pc[p] \in {"acquire", "woken"}
    /\ IF At(p, "acquire") /\ lock[buf[p]] # Nobody
       THEN goto(p, "asleep") /\ UNCHANGED lock
       ELSE goto(p, "got") /\ lock' = [lock EXCEPT ![buf[p]] = p]
    /\ UNCHANGED <<bufvars, pinned, disk, want, buf>>

acquiresleep(p) ==
    /\ pc[p] \in {"acquire", "woken"}
    /\ IF lock[buf[p]] # Nobody
       THEN goto(p, "asleep") /\ UNCHANGED lock
       ELSE goto(p, "got") /\ lock' = [lock EXCEPT ![buf[p]] = p]
    /\ UNCHANGED <<bufvars, pinned, disk, want, buf>>

\* Fault: releasesleep wakes nobody.
releasesleep_silent(p) ==
    /\ At(p, "have")
    /\ lock' = [lock EXCEPT ![buf[p]] = Nobody]
    /\ goto(p, "released")
    /\ UNCHANGED <<bufvars, pinned, disk, want, buf>>

releasesleep(p) ==
    /\ At(p, "have")
    /\ lock' = [lock EXCEPT ![buf[p]] = Nobody]
    /\ pc' = [q \in Procs |-> CASE q = p -> "released"
                                [] At(q, "asleep") /\ buf[q] = buf[p] -> "woken"
                                [] OTHER -> pc[q]]
    /\ UNCHANGED <<bufvars, pinned, disk, want, buf>>

(***************************************************************************)
(* bread() after bget(), bwrite(), brelse(), bpin(), bunpin().             *)
(***************************************************************************)
bread(p) ==
    /\ At(p, "got")
    /\ IF valid[buf[p]] = 1
       THEN goto(p, "have") /\ UNCHANGED data
       ELSE goto(p, "read") /\ data' = [data EXCEPT ![buf[p]] = disk[blockno[buf[p]]]]
    /\ UNCHANGED <<lru, blockno, valid, refcnt, lock, pinned, disk, want, buf>>

bread_valid(p) ==
    /\ At(p, "read")
    /\ valid' = [valid EXCEPT ![buf[p]] = 1]
    /\ goto(p, "have")
    /\ UNCHANGED <<lru, blockno, refcnt, data, lock, pinned, disk, want, buf>>

\* The caller changes b->data.
modify(p, v) ==
    /\ At(p, "have")
    /\ data' = [data EXCEPT ![buf[p]] = v]
    /\ goto(p, "dirty")
    /\ UNCHANGED <<lru, blockno, valid, refcnt, lock, pinned, disk, want, buf>>

bwrite(p) ==
    /\ At(p, "dirty") \/ (At(p, "have") /\ buf[p] \in pinned)
    /\ disk' = [disk EXCEPT ![blockno[buf[p]]] = data[buf[p]]]
    /\ goto(p, "written")
    /\ UNCHANGED <<bufvars, lock, pinned, want, buf>>

\* log_write(): the first write of a block in a transaction pins its buffer.
bpin(p) ==
    /\ At(p, "dirty")
    /\ \/ /\ buf[p] \notin pinned /\ Cardinality(pinned) < MaxPins
          /\ refcnt' = [refcnt EXCEPT ![buf[p]] = @ + 1]
          /\ pinned' = pinned \cup {buf[p]}
       \/ buf[p] \in pinned /\ UNCHANGED <<refcnt, pinned>>
    /\ goto(p, "have")
    /\ UNCHANGED <<lru, blockno, valid, data, lock, disk, want, buf>>

\* install_trans() unpins a block it has written; log blocks have no pin.
bunpin(p) ==
    /\ At(p, "written")
    /\ IF buf[p] \in pinned
       THEN /\ refcnt' = [refcnt EXCEPT ![buf[p]] = @ - 1]
            /\ pinned' = pinned \ {buf[p]}
       ELSE UNCHANGED <<refcnt, pinned>>
    /\ goto(p, "have")
    /\ UNCHANGED <<lru, blockno, valid, data, lock, disk, want, buf>>

\* The list once b is at its front.
ToFront(b) ==
    LET place == CHOOSE j \in Bufs : lru[j] = b
    IN  [j \in Bufs |-> IF j = 1 THEN b ELSE IF j <= place THEN lru[j - 1] ELSE lru[j]]

\* The second half of brelse(), under bcache.lock.
brelse(p) ==
    /\ At(p, "released")
    /\ refcnt' = [refcnt EXCEPT ![buf[p]] = @ - 1]
    /\ lru' = IF refcnt[buf[p]] = 1 THEN ToFront(buf[p]) ELSE lru
    /\ goto(p, "idle")
    /\ want' = [want EXCEPT ![p] = NoBlock]
    /\ buf' = [buf EXCEPT ![p] = 0]
    /\ UNCHANGED <<blockno, valid, data, lock, pinned, disk>>

Step(p) ==
    \/ acquiresleep(p) \/ bread(p) \/ bread_valid(p) \/ bwrite(p) \/ bpin(p) \/ bunpin(p)
    \/ releasesleep(p) \/ brelse(p)

Next == \E p \in Procs : \/ \E k \in Blocks : bget_hit(p, k) \/ bget_recycle(p, k)
                         \/ \E v \in Vals : modify(p, v)
                         \/ Step(p)

Spec == Init /\ [][Next]_vars

(***************************************************************************)
(* Properties.                                                             *)
(***************************************************************************)
Using(p) == pc[p] \in {"have", "dirty", "written"}

Value(k) ==
    IF \E b \in Cached(k) : valid[b] = 1
    THEN data[CHOOSE b \in Cached(k) : valid[b] = 1]
    ELSE disk[k]

Store == INSTANCE BlockStore WITH
    value <- [k \in Blocks |-> Value(k)],
    held <- [p \in Procs |-> IF Using(p) THEN want[p] ELSE NoBlock],
    copy <- [p \in Procs |-> IF Using(p) THEN data[buf[p]] ELSE NoVal]

\* Whatever is recycled between bget's release of bcache.lock and its
\* acquiresleep, bread gives exclusive access to the current contents of the
\* block that was asked for, and no change of a block is ever lost.
CacheIsTransparent == Store!Spec

\* refcnt is the number of processes between bget and brelse, waiting ones
\* included, plus one for a pin; a block has at most one buffer.
RefcntCounts ==
    /\ \A b \in Bufs :
        refcnt[b] = Cardinality({p \in Procs : buf[p] = b}) + Cardinality(pinned \cap {b})
    /\ \A k \in Blocks : Cardinality(Cached(k)) <= 1

\* bget never panics with "no buffers", and a process that sleeps in
\* acquiresleep sleeps on a lock that is held, so it will be woken.
AlwaysABuffer ==
    /\ (\E p \in Procs : At(p, "idle")) => Unused # {}
    /\ \A p \in Procs : At(p, "asleep") => lock[buf[p]] # Nobody
=============================================================================
