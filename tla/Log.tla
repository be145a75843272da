-------------------------------- MODULE Log --------------------------------
(***************************************************************************)
(* The redo log of the file system, kernel/log.c, with the part of the     *)
(* buffer cache (kernel/bio.c) it relies on: pinning and recycling.        *)
(* Every disk write is a step of its own, and the machine may crash        *)
(* between any two steps, also while it recovers.                          *)
(*                                                                         *)
(* log.lock and the buffer sleep-locks are held across each action below;  *)
(* sleep(&log, &log.lock) and wakeup(&log) are the pc values "asleep" and  *)
(* "woken".  A block is written to the disk atomically: the block numbers  *)
(* of the header fit in one 512-byte sector with n.                        *)
(***************************************************************************)
EXTENDS Integers, Sequences, FiniteSets

CONSTANTS Procs,        \* processes that run file-system operations
          Blocks,       \* home blocks of the file system
          Vals,         \* block contents
          Absent,       \* marks a block that no buffer of the cache holds
          LOGSIZE,      \* data blocks the header can name
          NLOG,         \* sb->nlog: header block and data blocks
          MAXOPBLOCKS,  \* blocks begin_op reserves for an operation
          OPBLOCKS      \* distinct blocks an operation really writes

ASSUME LogAssumption ==
    /\ LOGSIZE \in Nat /\ NLOG \in Nat /\ MAXOPBLOCKS \in Nat /\ OPBLOCKS \in Nat
    /\ NLOG = LOGSIZE + 1        \* mkfs.c: nlog = LOGBLOCKS+1, LOGBLOCKS = LOGSIZE
    /\ 0 < MAXOPBLOCKS /\ MAXOPBLOCKS <= LOGSIZE
    /\ OPBLOCKS <= MAXOPBLOCKS
    /\ Absent \notin Vals
    /\ IsFiniteSet(Procs)

VARIABLES
    disk,         \* home blocks on the disk
    logblk,       \* data blocks of the on-disk log
    dhead,        \* block numbers in the on-disk header; its length is n
    buf,          \* data of the cached buffer of a block, or Absent
    pin,          \* references bpin has added to the buffer of a block
    lh,           \* log.lh: block numbers of the open transaction
    outstanding,  \* log.outstanding
    committing,   \* log.committing
    pc,           \* where each process is
    wrote,        \* distinct blocks written by the operation of a process
    tail,         \* loop index of write_log and install_trans
    boot          \* where recover_from_log is, "up", or "panic"

dvars == <<disk, logblk, dhead>>
vars  == <<disk, logblk, dhead, buf, pin, lh, outstanding, committing, pc,
           wrote, tail, boot>>

PCs == {"idle", "asleep", "woken", "inop", "commit", "write_log", "write_head",
        "install_trans", "clear", "end_commit"}

Init ==
    /\ disk \in [Blocks -> Vals]
    /\ logblk \in [1..LOGSIZE -> Vals]
    /\ dhead = <<>>
    /\ buf = [b \in Blocks |-> Absent]
    /\ pin = [b \in Blocks |-> 0]
    /\ lh = <<>>
    /\ outstanding = 0
    /\ committing = 0
    /\ pc = [p \in Procs |-> "idle"]
    /\ wrote = [p \in Procs |-> {}]
    /\ tail = 0
    /\ boot = "read_head"

Running == boot = "up"

\* What a read of block b returns.
Content(b) == IF buf[b] = Absent THEN disk[b] ELSE buf[b]

Named(h) == {h[i] : i \in 1..Len(h)}

\* wakeup(&log): every process asleep in begin_op runs its loop again.
wakeup(f) == [p \in Procs |-> IF f[p] = "asleep" THEN "woken" ELSE f[p]]

(***************************************************************************)
(* The buffer cache.                                                       *)
(***************************************************************************)
bread(b) ==
    /\ Running
    /\ buf[b] = Absent
    /\ buf' = [buf EXCEPT ![b] = disk[b]]
    /\ UNCHANGED <<dvars, pin, lh, outstanding, committing, pc, wrote, tail, boot>>

\* bget takes the buffer of an unreferenced block for another block.
bget_recycle(b) ==
    /\ Running
    /\ buf[b] # Absent
    /\ pin[b] = 0
    /\ buf' = [buf EXCEPT ![b] = Absent]
    /\ UNCHANGED <<dvars, pin, lh, outstanding, committing, pc, wrote, tail, boot>>

(***************************************************************************)
(* File-system operations.                                                 *)
(***************************************************************************)
\* Fault: begin_op counts the open operations but not the one it admits.
MustWait_uncounted ==
    committing = 1 \/ Len(lh) + outstanding * MAXOPBLOCKS > LOGSIZE

MustWait == committing = 1 \/ Len(lh) + (outstanding + 1) * MAXOPBLOCKS > LOGSIZE

begin_op(p) ==
    /\ Running
    /\ pc[p] \in {"idle", "woken"}
    /\ \/ /\ MustWait
          /\ pc' = [pc EXCEPT ![p] = "asleep"]
          /\ UNCHANGED outstanding
       \/ /\ ~MustWait
          /\ pc' = [pc EXCEPT ![p] = "inop"]
          /\ outstanding' = outstanding + 1
    /\ UNCHANGED <<dvars, buf, pin, lh, committing, wrote, tail, boot>>

TooBig == Len(lh) >= LOGSIZE \/ Len(lh) >= NLOG - 1

\* Fault: log_write forgets bpin.
log_write_unpinned(p, b, v) ==
    /\ Running
    /\ pc[p] = "inop"
    /\ Cardinality(wrote[p] \cup {b}) <= OPBLOCKS
    /\ buf' = [buf EXCEPT ![b] = v]
    /\ wrote' = [wrote EXCEPT ![p] = @ \cup {b}]
    /\ boot' = IF TooBig \/ outstanding < 1 THEN "panic" ELSE boot
    /\ lh' = IF boot' = "panic" \/ b \in Named(lh) THEN lh ELSE Append(lh, b)
    /\ UNCHANGED <<dvars, pin, outstanding, committing, pc, tail>>

\* Fault: log_write does not look for the block among those of the transaction.
log_write_unabsorbed(p, b, v) ==
    /\ Running
    /\ pc[p] = "inop"
    /\ Cardinality(wrote[p] \cup {b}) <= OPBLOCKS
    /\ buf' = [buf EXCEPT ![b] = v]
    /\ wrote' = [wrote EXCEPT ![p] = @ \cup {b}]
    /\ boot' = IF TooBig \/ outstanding < 1 THEN "panic" ELSE boot
    /\ lh' = IF boot' = "panic" THEN lh ELSE Append(lh, b)
    /\ pin' = IF boot' = "panic" THEN pin ELSE [pin EXCEPT ![b] = @ + 1]
    /\ UNCHANGED <<dvars, outstanding, committing, pc, tail>>

\* The caller changes the data of the locked buffer of b and calls log_write.
log_write(p, b, v) ==
    /\ Running
    /\ pc[p] = "inop"
    /\ Cardinality(wrote[p] \cup {b}) <= OPBLOCKS
    /\ buf' = [buf EXCEPT ![b] = v]
    /\ wrote' = [wrote EXCEPT ![p] = @ \cup {b}]
    /\ boot' = IF TooBig \/ outstanding < 1 THEN "panic" ELSE boot
    /\ IF boot' = "panic" \/ b \in Named(lh)        \* log absorption
       THEN UNCHANGED <<lh, pin>>
       ELSE /\ lh' = Append(lh, b)
            /\ pin' = [pin EXCEPT ![b] = @ + 1]
    /\ UNCHANGED <<dvars, outstanding, committing, pc, tail>>

end_op(p) ==
    /\ Running
    /\ pc[p] = "inop"
    /\ outstanding' = outstanding - 1
    /\ wrote' = [wrote EXCEPT ![p] = {}]
    /\ boot' = IF committing = 1 THEN "panic" ELSE boot
    /\ \/ /\ outstanding' = 0
          /\ committing' = 1
          /\ pc' = IF boot' = "panic" THEN pc ELSE [pc EXCEPT ![p] = "commit"]
       \/ /\ outstanding' # 0
          /\ pc' = IF boot' = "panic" THEN pc ELSE wakeup([pc EXCEPT ![p] = "idle"])
          /\ UNCHANGED committing
    /\ UNCHANGED <<dvars, buf, pin, lh, tail>>

(***************************************************************************)
(* commit(), run by the process whose end_op found no other operation.     *)
(***************************************************************************)
\* Fault: commit() writes the header before the log blocks.
commit_head_first(p) ==
    /\ Running
    /\ pc[p] = "commit"
    /\ pc' = [pc EXCEPT ![p] = IF Len(lh) > 0 THEN "write_head" ELSE "end_commit"]
    /\ tail' = 0
    /\ UNCHANGED <<dvars, buf, pin, lh, outstanding, committing, wrote, boot>>

commit(p) ==
    /\ Running
    /\ pc[p] = "commit"
    /\ pc' = [pc EXCEPT ![p] = IF Len(lh) > 0 THEN "write_log" ELSE "end_commit"]
    /\ tail' = 0
    /\ UNCHANGED <<dvars, buf, pin, lh, outstanding, committing, wrote, boot>>

\* One iteration: cache block to log block; after the last one, write_head.
write_log(p) ==
    /\ Running
    /\ pc[p] = "write_log"
    /\ \/ /\ tail < Len(lh)
          /\ logblk' = [logblk EXCEPT ![tail + 1] = Content(lh[tail + 1])]
          /\ buf' = [buf EXCEPT ![lh[tail + 1]] = Content(lh[tail + 1])]
          /\ tail' = tail + 1
          /\ UNCHANGED pc
       \/ /\ tail = Len(lh)
          /\ pc' = [pc EXCEPT ![p] = "write_head"]
          /\ UNCHANGED <<logblk, buf, tail>>
    /\ UNCHANGED <<disk, dhead, pin, lh, outstanding, committing, wrote, boot>>

\* The point at which the transaction commits.
write_head(p) ==
    /\ Running
    /\ pc[p] = "write_head"
    /\ dhead' = lh
    /\ tail' = 0
    /\ pc' = [pc EXCEPT ![p] = "install_trans"]
    /\ UNCHANGED <<disk, logblk, buf, pin, lh, outstanding, committing, wrote, boot>>

\* Fault: install_trans never calls bunpin.
install_block_pinned(recovering) ==
    LET b == lh[tail + 1] IN
    /\ tail < Len(lh)
    /\ disk' = [disk EXCEPT ![b] = logblk[tail + 1]]
    /\ buf' = [buf EXCEPT ![b] = logblk[tail + 1]]
    /\ pin' = pin
    /\ tail' = tail + 1

\* One iteration of the loop of install_trans: log block to home block.
install_block(recovering) ==
    LET b == lh[tail + 1] IN
    /\ tail < Len(lh)
    /\ disk' = [disk EXCEPT ![b] = logblk[tail + 1]]
    /\ buf' = [buf EXCEPT ![b] = logblk[tail + 1]]
    /\ pin' = IF recovering THEN pin ELSE [pin EXCEPT ![b] = @ - 1]
    /\ tail' = tail + 1

install_trans(p) ==
    /\ Running
    /\ pc[p] = "install_trans"
    /\ \/ /\ install_block(FALSE)
          /\ UNCHANGED pc
       \/ /\ tail = Len(lh)
          /\ pc' = [pc EXCEPT ![p] = "clear"]
          /\ UNCHANGED <<disk, buf, pin, tail>>
    /\ UNCHANGED <<logblk, dhead, lh, outstanding, committing, wrote, boot>>

\* log.lh.n = 0; write_head().
clear_head ==
    /\ lh' = <<>>
    /\ dhead' = <<>>

clear(p) ==
    /\ Running
    /\ pc[p] = "clear"
    /\ clear_head
    /\ pc' = [pc EXCEPT ![p] = "end_commit"]
    /\ UNCHANGED <<disk, logblk, buf, pin, outstanding, committing, wrote, tail, boot>>

\* Fault: end_op does not call wakeup after its commit.
end_commit_silent(p) ==
    /\ Running
    /\ pc[p] = "end_commit"
    /\ committing' = 0
    /\ pc' = [pc EXCEPT ![p] = "idle"]
    /\ UNCHANGED <<dvars, buf, pin, lh, outstanding, wrote, tail, boot>>

\* The second critical section of end_op.
end_commit(p) ==
    /\ Running
    /\ pc[p] = "end_commit"
    /\ committing' = 0
    /\ pc' = wakeup([pc EXCEPT ![p] = "idle"])
    /\ UNCHANGED <<dvars, buf, pin, lh, outstanding, wrote, tail, boot>>

(***************************************************************************)
(* Crash and recovery.  Memory is lost, the disk stays.                    *)
(***************************************************************************)
Crash ==
    /\ buf' = [b \in Blocks |-> Absent]
    /\ pin' = [b \in Blocks |-> 0]
    /\ lh' = <<>>
    /\ outstanding' = 0
    /\ committing' = 0
    /\ pc' = [p \in Procs |-> "idle"]
    /\ wrote' = [p \in Procs |-> {}]
    /\ tail' = 0
    /\ boot' = "read_head"
    /\ UNCHANGED dvars

read_head ==
    /\ boot = "read_head"
    /\ lh' = dhead
    /\ tail' = 0
    /\ boot' = "install_trans"
    /\ UNCHANGED <<dvars, buf, pin, outstanding, committing, pc, wrote>>

recover_install ==
    /\ boot = "install_trans"
    /\ \/ /\ install_block(TRUE)
          /\ UNCHANGED boot
       \/ /\ tail = Len(lh)
          /\ boot' = "clear"
          /\ UNCHANGED <<disk, buf, pin, tail>>
    /\ UNCHANGED <<logblk, dhead, lh, outstanding, committing, pc, wrote>>

recover_clear ==
    /\ boot = "clear"
    /\ clear_head
    /\ boot' = "up"
    /\ UNCHANGED <<disk, logblk, buf, pin, outstanding, committing, pc, wrote, tail>>

Recover == read_head \/ recover_install \/ recover_clear

Step(p) ==
    \/ begin_op(p)
    \/ \E b \in Blocks, v \in Vals : log_write(p, b, v)
    \/ end_op(p)
    \/ commit(p)
    \/ write_log(p)
    \/ write_head(p)
    \/ install_trans(p)
    \/ clear(p)
    \/ end_commit(p)

Next ==
    \/ \E p \in Procs : Step(p)
    \/ \E b \in Blocks : bread(b) \/ bget_recycle(b)
    \/ Recover
    \/ Crash

Spec == Init /\ [][Next]_vars

\* The scheduler lets every process take its kernel steps, and a file-system
\* operation reaches its end_op; nothing obliges a process to start one.
Fairness ==
    /\ WF_vars(Recover)
    /\ \A p \in Procs : /\ WF_vars(end_op(p))
                         /\ WF_vars(\/ commit(p) \/ write_log(p) \/ write_head(p)
                                    \/ install_trans(p) \/ clear(p) \/ end_commit(p))

FairSpec == Spec /\ Fairness

(***************************************************************************)
(* Properties.                                                             *)
(***************************************************************************)
\* The state of log.c, the buffers it uses and the disk has the declared types.
TypeOK ==
    /\ disk \in [Blocks -> Vals]
    /\ logblk \in [1..LOGSIZE -> Vals]
    /\ dhead \in Seq(Blocks) /\ Len(dhead) <= LOGSIZE
    /\ buf \in [Blocks -> Vals \cup {Absent}]
    /\ pin \in [Blocks -> Int]
    /\ lh \in Seq(Blocks) /\ Len(lh) <= LOGSIZE
    /\ outstanding \in Int
    /\ committing \in {0, 1}
    /\ pc \in [Procs -> PCs]
    /\ wrote \in [Procs -> SUBSET Blocks]
    /\ tail \in 0..LOGSIZE
    /\ boot \in {"read_head", "install_trans", "clear", "up", "panic"}

\* The home blocks a crash now, followed by recover_from_log, would leave.
Recovered ==
    [b \in Blocks |-> IF b \in Named(dhead)
                      THEN logblk[CHOOSE i \in 1..Len(dhead) : dhead[i] = b]
                      ELSE disk[b]]

\* The home blocks as file-system code reads them through the cache.
Visible == IF boot \in {"up", "panic"} THEN [b \in Blocks |-> Content(b)] ELSE Recovered

Atomic == INSTANCE AtomicDisk WITH stable  <- Recovered,
                                   current <- Visible,
                                   active  <- {p \in Procs : pc[p] = "inop"}

\* commit() makes the writes of complete operations durable in one step (its
\* write_head), and a crash anywhere in commit() or recover_from_log() leaves
\* exactly the last committed state: log.c implements AtomicDisk.
AtomicCommit == Atomic!Spec

\* Between operations nothing is left to lose: once end_op has cleared
\* log.committing and nobody is between begin_op and end_op, a crash gives
\* back what readers saw.
QuiescentDurable ==
    Running /\ outstanding = 0 /\ committing = 0 => Recovered = Visible

\* bget may recycle any buffer that log.c has not pinned without losing a
\* write: such a buffer agrees with its home block.
RecyclableIsClean ==
    \A b \in Blocks : Running /\ pin[b] = 0 /\ buf[b] # Absent => buf[b] = disk[b]

\* Operations that write fewer than MAXOPBLOCKS blocks never reach a panic of
\* log.c: the space begin_op reserves for them is there when log_write needs it.
NoPanic == boot # "panic"

\* A process asleep in begin_op has somebody left to wake it: an operation
\* still to end or a commit still to finish.
SleeperHasWaker ==
    \A p \in Procs : Running /\ pc[p] = "asleep" => outstanding > 0 \/ committing = 1

\* end_op wakes every process that sleeps in begin_op (or the machine crashes).
SleeperWoken == \A p \in Procs : pc[p] = "asleep" ~> pc[p] # "asleep"

(***************************************************************************)
(* The inductive invariant behind AtomicCommit.                            *)
(***************************************************************************)
CommitPCs == {"commit", "write_log", "write_head", "install_trans", "clear", "end_commit"}

Injective(h) == \A i, j \in 1..Len(h) : h[i] = h[j] => i = j

\* Who is in the log: outstanding counts the open operations, at most one
\* process commits, and it does so while no operation is open.
CommitterInv ==
    /\ outstanding = Cardinality({p \in Procs : pc[p] = "inop"})
    /\ \A p, q \in Procs : pc[p] \in CommitPCs /\ pc[q] \in CommitPCs => p = q
    /\ committing = 1 <=> \E p \in Procs : pc[p] \in CommitPCs
    /\ committing = 1 => \A p \in Procs : pc[p] # "inop"
    /\ boot \notin {"up", "panic"} => \A p \in Procs : pc[p] = "idle"

\* The header on the disk names a transaction exactly from write_head to clear.
HeaderInv ==
    /\ Injective(lh) /\ Injective(dhead)
    /\ boot \in {"up", "panic"} => dhead = IF \E p \in Procs : pc[p] \in {"install_trans", "clear"}
                              THEN lh ELSE <<>>
    /\ boot \in {"install_trans", "clear"} => lh = dhead
    /\ \A p \in Procs : pc[p] = "end_commit" => lh = <<>>
    /\ Running /\ outstanding = 0 /\ committing = 0 => lh = <<>>

\* The log blocks and the home blocks keep up with the loops that copy them.
CopyInv ==
    /\ \A p \in Procs :
        /\ pc[p] \in {"write_log", "install_trans"} => tail <= Len(lh)
        /\ pc[p] = "write_log" => \A i \in 1..tail : logblk[i] = Content(lh[i])
        /\ pc[p] \in {"write_head", "install_trans"} =>
               \A i \in 1..Len(lh) : logblk[i] = Content(lh[i])
        /\ pc[p] = "install_trans" => \A i \in 1..tail : disk[lh[i]] = logblk[i]
        /\ pc[p] = "clear" => \A i \in 1..Len(lh) : disk[lh[i]] = logblk[i]
    /\ boot = "install_trans" => /\ tail <= Len(lh)
                                 /\ \A i \in 1..tail : disk[lh[i]] = logblk[i]
    /\ boot = "clear" => \A i \in 1..Len(lh) : disk[lh[i]] = logblk[i]

\* A block is pinned once from its first log_write until it is installed.
Unsaved(b) ==
    /\ boot = "up"
    /\ \E i \in 1..Len(lh) :
        /\ lh[i] = b
        /\ \A p \in Procs : /\ pc[p] = "install_trans" => i > tail
                            /\ pc[p] # "clear"

PinInv ==
    boot # "panic" =>
        \A b \in Blocks :
            /\ pin[b] = IF Unsaved(b) THEN 1 ELSE 0
            /\ Unsaved(b) => buf[b] # Absent
            /\ ~Unsaved(b) => buf[b] \in {Absent, disk[b]}

\* At every step of commit() and of recover_from_log() the header, the log
\* blocks, the home blocks, the pinned buffers and the process states agree on
\* how far the transaction has got.
LogInv == TypeOK /\ CommitterInv /\ HeaderInv /\ CopyInv /\ PinInv

(***************************************************************************)
(* The inductive invariant behind NoPanic.                                 *)
(***************************************************************************)
\* The blocks that the open operations may still add to the transaction.
Reserved == {r \in Procs \X (1..MAXOPBLOCKS) :
                pc[r[1]] = "inop" /\ r[2] > Cardinality(wrote[r[1]])}

\* The log has room for all that its open operations may still write, whatever
\* begin_op admitted in the meantime and however much log_write absorbed.
SpaceInv ==
    /\ NoPanic
    /\ Len(lh) + Cardinality(Reserved) <= LOGSIZE
    /\ \A p \in Procs :
        /\ IsFiniteSet(wrote[p]) /\ Cardinality(wrote[p]) <= OPBLOCKS
        /\ wrote[p] \subseteq Named(lh)
        /\ pc[p] # "inop" => wrote[p] = {}
=============================================================================
