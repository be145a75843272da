----------------------------- MODULE VirtioDisk -----------------------------
(***************************************************************************)
(* kernel/virtio_disk.c: the driver, its interrupt handler and the device. *)
(* A process transfers its own buffer (b->lock is held), so a buffer is    *)
(* named by its process.  The part of virtio_disk_rw between two sleeps    *)
(* runs under vdisk_lock and is one step; the loop of the interrupt        *)
(* handler is taken apart, because the device adds to the used ring        *)
(* without any lock.  sleep and wakeup are those of module CondVar.        *)
(***************************************************************************)
EXTENDS Integers, Sequences, FiniteSets

CONSTANTS Procs, NoBuf,
          NUM,       \* descriptors
          UINT16     \* number of values of a ring index

ASSUME VirtioAssumption ==
    /\ NUM \in Nat /\ NUM >= 3
    /\ UINT16 \in Nat \ {0} /\ UINT16 % NUM = 0    \* 65536 and 8
    /\ NoBuf \notin Procs

VARIABLES free,      \* descriptors with disk.free[i] = 1
          desc,      \* addr and next of each descriptor; NEXT flag
          info,      \* info[i].b and info[i].status
          avail,     \* ring and idx
          used,      \* ring and idx
          used_idx,  \* disk.used_idx
          lock,      \* 1 while the interrupt handler holds vdisk_lock
          bdisk,     \* b->disk
          pc, idx,   \* of each process: place and idx[0]
          seen,      \* device: entries of the avail ring it has taken
          taken,     \* device: heads of the chains it works on
          irq,       \* device: interrupt raised and not acknowledged
          served     \* device: processes whose transfer it has carried out

driver == <<free, desc, info, avail, used_idx, bdisk, pc, idx>>
device == <<used, seen, taken, irq, served>>
vars == <<driver, device, lock>>

Descs == 0..NUM - 1

\* k += 1 of a uint16.
Inc(k) == (k + 1) % UINT16

Zeroed == [addr |-> NoBuf, next |-> 0, flag |-> 0]

Init ==
    /\ free = Descs
    /\ desc = [d \in Descs |-> Zeroed]
    /\ info = [d \in Descs |-> [b |-> NoBuf, status |-> 0]]
    /\ avail = [ring |-> [d \in Descs |-> 0], idx |-> 0]
    /\ used = [ring |-> [d \in Descs |-> 0], idx |-> 0]
    /\ used_idx = 0 /\ lock = 0
    /\ bdisk = [p \in Procs |-> 0]
    /\ pc = [p \in Procs |-> "idle"]
    /\ idx = [p \in Procs |-> 0]
    /\ seen = 0 /\ taken = {} /\ irq = 0 /\ served = {}

\* wakeup(&disk.free[0])
WakeFree(f) == [q \in Procs |-> IF f[q] = "no_desc" THEN "retry" ELSE f[q]]

\* alloc_desc() three times: the lowest free descriptors.
Lowest(S) == CHOOSE d \in S : \A e \in S : d <= e
alloc3_desc ==
    LET d0 == Lowest(free)
        d1 == Lowest(free \ {d0})
    IN  <<d0, d1, Lowest(free \ {d0, d1})>>

Begins(p) == pc[p] \in {"idle", "retry"} /\ lock = 0

\* Fault: alloc3_desc keeps what it has allocated when it fails.
virtio_disk_rw_full_leaks(p) ==
    /\ Begins(p) /\ Cardinality(free) < 3
    /\ free' = {}
    /\ pc' = [pc EXCEPT ![p] = "no_desc"]
    /\ UNCHANGED <<desc, info, avail, used_idx, bdisk, idx, device, lock>>

\* alloc3_desc fails: what it has allocated is freed again, with a wakeup for
\* each descriptor, then the caller sleeps.
virtio_disk_rw_full(p) ==
    /\ Begins(p) /\ Cardinality(free) < 3
    /\ desc' = [d \in Descs |-> IF d \in free THEN Zeroed ELSE desc[d]]
    /\ pc' = [IF free # {} THEN WakeFree(pc) ELSE pc EXCEPT ![p] = "no_desc"]
    /\ UNCHANGED <<free, info, avail, used_idx, bdisk, idx, device, lock>>

\* The request is formatted, published and announced; the caller sleeps on b.
virtio_disk_rw(p) ==
    /\ Begins(p) /\ Cardinality(free) >= 3
    /\ LET a == alloc3_desc IN
        /\ free' = free \ {a[1], a[2], a[3]}
        /\ desc' = [desc EXCEPT ![a[1]] = [addr |-> p, next |-> a[2], flag |-> 1],
                                ![a[2]] = [addr |-> p, next |-> a[3], flag |-> 1],
                                ![a[3]] = [addr |-> a[1], next |-> 0, flag |-> 0]]
        /\ info' = [info EXCEPT ![a[1]] = [b |-> p, status |-> 255]]
        /\ avail' = [ring |-> [avail.ring EXCEPT ![avail.idx % NUM] = a[1]],
                     idx |-> Inc(avail.idx)]
        /\ idx' = [idx EXCEPT ![p] = a[1]]
    /\ bdisk' = [bdisk EXCEPT ![p] = 1]
    /\ pc' = [pc EXCEPT ![p] = "wait"]
    /\ UNCHANGED <<used_idx, device, lock>>

\* while(b->disk == 1) sleep: a wakeup that was not for this buffer.
virtio_disk_rw_again(p) ==
    /\ pc[p] = "woken" /\ lock = 0 /\ bdisk[p] = 1
    /\ pc' = [pc EXCEPT ![p] = "wait"]
    /\ UNCHANGED <<free, desc, info, avail, used_idx, bdisk, idx, device, lock>>

\* free_chain(): the descriptors met from d on, while the NEXT flag is set.
Chain(d) == LET e == desc[d].next IN
            {d} \cup IF desc[d].flag = 0 THEN {}
                     ELSE {e} \cup IF desc[e].flag = 0 THEN {} ELSE {desc[e].next}

\* Fault: the caller frees the chain when it is woken, whoever woke it.
virtio_disk_rw_done_unchecked(p) ==
    /\ pc[p] = "woken" /\ lock = 0
    /\ info' = [info EXCEPT ![idx[p]].b = NoBuf]
    /\ free' = free \cup Chain(idx[p])
    /\ desc' = [d \in Descs |-> IF d \in Chain(idx[p]) THEN Zeroed ELSE desc[d]]
    /\ pc' = WakeFree([pc EXCEPT ![p] = "idle"])
    /\ idx' = [idx EXCEPT ![p] = 0]
    /\ served' = served \ {p}
    /\ UNCHANGED <<avail, used_idx, bdisk, used, seen, taken, irq, lock>>

virtio_disk_rw_done(p) ==
    /\ pc[p] = "woken" /\ lock = 0 /\ bdisk[p] = 0
    /\ info' = [info EXCEPT ![idx[p]].b = NoBuf]
    /\ free' = free \cup Chain(idx[p])
    /\ desc' = [d \in Descs |-> IF d \in Chain(idx[p]) THEN Zeroed ELSE desc[d]]
    /\ pc' = WakeFree([pc EXCEPT ![p] = "idle"])
    /\ idx' = [idx EXCEPT ![p] = 0]
    /\ served' = served \ {p}
    /\ UNCHANGED <<avail, used_idx, bdisk, used, seen, taken, irq, lock>>

\* kill() makes any sleeping process run.
kill(p) ==
    /\ pc[p] \in {"wait", "no_desc"}
    /\ pc' = [pc EXCEPT ![p] = IF @ = "wait" THEN "woken" ELSE "retry"]
    /\ UNCHANGED <<free, desc, info, avail, used_idx, bdisk, idx, device, lock>>

(***************************************************************************)
(* virtio_disk_intr().                                                     *)
(***************************************************************************)
virtio_disk_intr ==
    /\ irq = 1 /\ lock = 0
    /\ lock' = 1 /\ irq' = 0
    /\ UNCHANGED <<driver, used, seen, taken, served>>

virtio_disk_intr_loop ==
    /\ lock = 1 /\ used_idx # used.idx
    /\ LET b == info[used.ring[used_idx % NUM]].b IN
        /\ bdisk' = [bdisk EXCEPT ![b] = 0]
        /\ pc' = [pc EXCEPT ![b] = IF @ = "wait" THEN "woken" ELSE @]
    /\ used_idx' = Inc(used_idx)
    /\ UNCHANGED <<free, desc, info, avail, idx, device, lock>>

\* Fault: the handler stops after one entry.
virtio_disk_intr_end_early ==
    /\ lock = 1
    /\ lock' = 0
    /\ UNCHANGED <<driver, device>>

virtio_disk_intr_end ==
    /\ lock = 1 /\ used_idx = used.idx
    /\ lock' = 0
    /\ UNCHANGED <<driver, device>>

(***************************************************************************)
(* The device: it takes requests in order and finishes them in any order.  *)
(***************************************************************************)
DeviceTake ==
    /\ seen # avail.idx
    /\ taken' = taken \cup {avail.ring[seen % NUM]}
    /\ seen' = Inc(seen)
    /\ UNCHANGED <<driver, used, irq, served, lock>>

DeviceFinish(h) ==
    LET d == desc[h].next
        s == desc[desc[d].next].addr
    IN  /\ h \in taken
        /\ taken' = taken \ {h}
        /\ served' = served \cup {desc[d].addr}
        /\ info' = [info EXCEPT ![s].status = 0]
        /\ used' = [ring |-> [used.ring EXCEPT ![used.idx % NUM] = h],
                    idx |-> Inc(used.idx)]
        /\ irq' = 1
        /\ UNCHANGED <<free, desc, avail, used_idx, bdisk, pc, idx, seen, lock>>

Intr == virtio_disk_intr \/ virtio_disk_intr_loop \/ virtio_disk_intr_end
Device == DeviceTake \/ \E h \in Descs : DeviceFinish(h)

Next ==
    \/ \E p \in Procs : \/ virtio_disk_rw_full(p) \/ virtio_disk_rw(p)
                        \/ virtio_disk_rw_again(p) \/ virtio_disk_rw_done(p)
                        \/ kill(p)
    \/ Intr \/ Device

Spec == Init /\ [][Next]_vars

\* The device works, interrupts are taken, woken processes get the lock.
Fairness ==
    /\ SF_vars(virtio_disk_intr)
    /\ WF_vars(virtio_disk_intr_loop) /\ WF_vars(virtio_disk_intr_end)
    /\ WF_vars(DeviceTake) /\ \A h \in Descs : WF_vars(DeviceFinish(h))
    /\ \A p \in Procs : /\ SF_vars(virtio_disk_rw_done(p))
                        /\ SF_vars(pc[p] = "retry" /\ virtio_disk_rw(p))

FairSpec == Spec /\ Fairness

(***************************************************************************)
(* Properties.                                                             *)
(***************************************************************************)
Waiting == {p \in Procs : pc[p] \in {"wait", "woken"}}

Requests == INSTANCE DiskRequests WITH
    request <- [p \in Procs |-> IF p \notin Waiting THEN "none"
                                ELSE IF p \in served THEN "served" ELSE "called"]

\* virtio_disk_rw returns after the device has carried out the transfer of this
\* caller, and the device carries it out once, although requests finish out of
\* order, ring indices wrap around and kill() wakes sleepers early.
ServedOnce == Requests!Spec

\* A descriptor is free or in the chain of exactly one request: the panics of
\* free_desc, and info[id].b = 0 in the interrupt handler, are unreachable.
ChainsPartition ==
    /\ \A p \in Waiting : /\ Cardinality(Chain(idx[p])) = 3
                          /\ Chain(idx[p]) \cap free = {}
                          /\ info[idx[p]].b = p
    /\ \A p, q \in Waiting : p # q => Chain(idx[p]) \cap Chain(idx[q]) = {}
    /\ Cardinality(free) + 3 * Cardinality(Waiting) = NUM

\* No completion is missed: when the handler is not running, entries of the used
\* ring it has not seen have an interrupt pending, and their status is 0.
CompletionPending ==
    used_idx # used.idx =>
        /\ irq = 1 \/ lock = 1
        /\ info[used.ring[used_idx % NUM]].status = 0

\* Every call of virtio_disk_rw returns, one that had to wait for descriptors
\* included.
TransferReturns == \A p \in Procs : pc[p] # "idle" ~> pc[p] = "idle"
=============================================================================
