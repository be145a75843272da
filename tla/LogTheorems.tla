---------------------------- MODULE LogTheorems ----------------------------
(***************************************************************************)
(* What the invariant of LogProofs gives: Log implements AtomicDisk, and   *)
(* the reservation of begin_op suffices.                                   *)
(***************************************************************************)
EXTENDS LogProofs

\* With a clear header, recovery would change nothing.
LEMMA RecoveredClear ==
    ASSUME dhead = <<>>
    PROVE  Recovered = [b \in Blocks |-> disk[b]]
BY DEF Recovered, Named

\* With a header in place, recovery gives each block it names its log block.
RecoveredMeaning ==
    /\ \A i \in 1..Len(dhead) : Recovered[dhead[i]] = logblk[i]
    /\ \A b \in Blocks : b \notin Named(dhead) => Recovered[b] = disk[b]
    /\ Recovered \in [Blocks -> Vals]

\* A header without duplicates determines what recovery leaves.
LEMMA RecoveredAt == TypeOK /\ Injective(dhead) => RecoveredMeaning
<1> SUFFICES ASSUME TypeOK, Injective(dhead) PROVE RecoveredMeaning
    OBVIOUS
<1>1. ASSUME NEW b \in Blocks, NEW i \in 1..Len(dhead), dhead[i] = b
      PROVE  (CHOOSE j \in 1..Len(dhead) : dhead[j] = b) = i
    BY <1>1 DEF Injective
<1>2. \A i \in 1..Len(dhead) : dhead[i] \in Blocks /\ logblk[i] \in Vals
    BY LogAssumption DEF TypeOK
<1>3. \A i \in 1..Len(dhead) : Recovered[dhead[i]] = logblk[i]
    BY <1>1, <1>2 DEF Recovered, Named
<1>4. \A b \in Blocks : b \notin Named(dhead) => Recovered[b] = disk[b]
    BY DEF Recovered
<1>5. \A b \in Blocks : Recovered[b] \in Vals
    BY <1>2, <1>3, <1>4 DEF Named, TypeOK
<1> QED
    BY <1>3, <1>4, <1>5 DEF Recovered, RecoveredMeaning

Active == {p \in Procs : pc[p] = "inop"}

\* A step that keeps the three abstract variables is a stutter of AtomicDisk.
LEMMA AtomicStutter ==
    ASSUME UNCHANGED Recovered, UNCHANGED Visible, UNCHANGED Active
    PROVE  [Atomic!Next]_(Atomic!vars)
BY DEF Atomic!vars, Active

\* A step that keeps the disk blocks and headers keeps what recovery gives.
LEMMA SameRecovered ==
    ASSUME UNCHANGED dvars PROVE UNCHANGED Recovered
BY DEF dvars, Recovered, Named

\* A step that changes no block as read through the cache, on a running
\* machine, keeps what readers see.
LEMMA SameVisible ==
    ASSUME boot \in {"up", "panic"}, boot' \in {"up", "panic"},
           \A b \in Blocks : Content(b)' = Content(b)
    PROVE  UNCHANGED Visible
BY DEF Visible

\* Each step of log.c, of the cache, of a crash or of recovery is one step of
\* AtomicDisk or leaves it where it is.
LEMMA AtomicStep == LogInv /\ LogInv' /\ [Next]_vars => [Atomic!Next]_(Atomic!vars)
<1> SUFFICES ASSUME LogInv, LogInv', [Next]_vars PROVE [Atomic!Next]_(Atomic!vars)
    OBVIOUS
<1>0. /\ TypeOK /\ CommitterInv /\ HeaderInv /\ CopyInv /\ PinInv
      /\ TypeOK' /\ HeaderInv'
      /\ pc \in [Procs -> PCs] /\ committing \in {0, 1}
      /\ lh \in Seq(Blocks) /\ Len(lh) \in Nat /\ Len(lh) <= LOGSIZE
      /\ buf \in [Blocks -> Vals \cup {Absent}] /\ disk \in [Blocks -> Vals]
      /\ logblk \in [1..LOGSIZE -> Vals] /\ tail \in Nat /\ LOGSIZE \in Nat
      /\ Absent \notin Vals
    BY LogAssumption DEF LogInv, TypeOK
<1> USE DEF CommitPCs
<1>1. ASSUME NEW p \in Procs, pc[p] \in CommitPCs
      PROVE  /\ \A q \in Procs : q # p => pc[q] \notin CommitPCs
             /\ \A q \in Procs : pc[q] # "inop"
    BY <1>0, <1>1 DEF CommitterInv
<1>2. ASSUME NEW p \in Procs, begin_op(p) PROVE [Atomic!Next]_(Atomic!vars)
    <2>1. /\ UNCHANGED dvars /\ UNCHANGED <<disk, buf, boot>> /\ boot = "up"
        BY <1>2 DEF begin_op, Running, dvars
    <2>2. UNCHANGED Recovered /\ UNCHANGED Visible
        BY <2>1, SameRecovered, SameVisible DEF Content
    <2>3. CASE MustWait
        <3>1. UNCHANGED Active
            BY <1>0, <1>2, <2>3 DEF begin_op, Active
        <3> QED
            BY <2>2, <3>1, AtomicStutter
    <2>4. CASE ~MustWait
        <3>1. Active' = Active \cup {p} /\ p \notin Active
            BY <1>0, <1>2, <2>4 DEF begin_op, Active
        <3>2. Atomic!Begin(p)
            BY <2>2, <3>1 DEF Atomic!Begin, Active
        <3> QED
            BY <3>2 DEF Atomic!Next
    <2> QED
        BY <2>3, <2>4
<1>3. ASSUME NEW p \in Procs, NEW b \in Blocks, NEW v \in Vals, log_write(p, b, v)
      PROVE  [Atomic!Next]_(Atomic!vars)
    <2>1. /\ UNCHANGED dvars /\ disk' = disk /\ pc' = pc /\ boot = "up"
          /\ boot' \in {"up", "panic"} /\ buf' = [buf EXCEPT ![b] = v] /\ pc[p] = "inop"
        BY <1>3 DEF log_write, Running, dvars
    <2>2. UNCHANGED Recovered /\ UNCHANGED Active /\ p \in Active
        BY <2>1, SameRecovered DEF Active
    <2>3. Visible' = [Visible EXCEPT ![b] = v]
        BY <1>0, <2>1 DEF Visible, Content
    <2>4. Atomic!Write(p, b, v)
        BY <2>2, <2>3 DEF Atomic!Write, Active
    <2> QED
        BY <2>4 DEF Atomic!Next
<1>4. ASSUME NEW p \in Procs, end_op(p) PROVE [Atomic!Next]_(Atomic!vars)
    <2>1. UNCHANGED dvars /\ UNCHANGED <<disk, buf, boot>> /\ boot = "up" /\ pc[p] = "inop"
        BY <1>0, <1>4 DEF end_op, Running, dvars, CommitterInv
    <2>2. UNCHANGED Recovered /\ UNCHANGED Visible
        BY <2>1, SameRecovered, SameVisible DEF Content
    <2>3. pc' \in {[pc EXCEPT ![p] = "commit"], wakeup([pc EXCEPT ![p] = "idle"])}
        BY <1>4, <2>1 DEF end_op
    <2>4. Active' = Active \ {p} /\ p \in Active
        BY <1>0, <2>1, <2>3 DEF Active, wakeup
    <2>5. Atomic!End(p)
        BY <2>2, <2>4 DEF Atomic!End, Active
    <2> QED
        BY <2>5 DEF Atomic!Next
<1>5. ASSUME NEW p \in Procs, commit(p) PROVE [Atomic!Next]_(Atomic!vars)
    <2>1. UNCHANGED dvars /\ UNCHANGED <<disk, buf, boot>> /\ boot = "up"
        BY <1>5 DEF commit, Running, dvars
    <2>2. UNCHANGED Recovered /\ UNCHANGED Visible
        BY <2>1, SameRecovered, SameVisible DEF Content
    <2>3. UNCHANGED Active
        BY <1>0, <1>5 DEF commit, Active
    <2> QED
        BY <2>2, <2>3, AtomicStutter
<1>6. ASSUME NEW p \in Procs, write_log(p) PROVE [Atomic!Next]_(Atomic!vars)
    <2>1. UNCHANGED <<disk, dhead, boot, lh>> /\ boot = "up" /\ pc[p] = "write_log"
        BY <1>6 DEF write_log, Running
    <2>2. dhead = <<>>
        BY <1>0, <1>1, <2>1 DEF HeaderInv
    <2>3. UNCHANGED Recovered
        BY <2>1, <2>2 DEF Recovered, Named
    <2>4. buf' = buf \/ \E x \in Blocks : buf' = [buf EXCEPT ![x] = Content(x)]
        BY <1>0, <1>6 DEF write_log
    <2>5. \A b \in Blocks : Content(b)' = Content(b)
        BY <1>0, <2>1, <2>4 DEF Content
    <2>6. UNCHANGED Visible
        BY <2>1, <2>5, SameVisible
    <2>7. UNCHANGED Active
        BY <1>0, <1>6 DEF write_log, Active
    <2> QED
        BY <2>3, <2>6, <2>7, AtomicStutter
<1>7. ASSUME NEW p \in Procs, write_head(p) PROVE [Atomic!Next]_(Atomic!vars)
    <2>1. /\ UNCHANGED <<disk, logblk, buf, boot, lh>> /\ boot = "up" /\ dhead' = lh
          /\ pc[p] = "write_head" /\ pc' = [pc EXCEPT ![p] = "install_trans"]
        BY <1>7 DEF write_head, Running
    <2>2. UNCHANGED Visible
        BY <2>1, SameVisible DEF Content
    <2>3. Active = {} /\ Active' = {}
        BY <1>0, <1>1, <2>1 DEF Active
    <2>4. \A i \in 1..Len(lh) : logblk[i] = Content(lh[i])
        BY <1>0, <2>1 DEF CopyInv
    <2>5. \A b \in Blocks : b \notin Named(lh) => Content(b) = disk[b]
        BY <1>0, <2>1 DEF PinInv, Unsaved, Named, Content
    <2>6. /\ \A i \in 1..Len(lh) : Recovered'[lh[i]] = logblk[i]
          /\ \A b \in Blocks : b \notin Named(lh) => Recovered'[b] = disk[b]
          /\ Recovered' \in [Blocks -> Vals]
        <3>1. (TypeOK /\ Injective(dhead) => RecoveredMeaning)'
            BY RecoveredAt, PTL
        <3> QED
            BY <1>0, <2>1, <3>1 DEF HeaderInv, RecoveredMeaning
    <2>7. \A b \in Blocks : Recovered'[b] = Content(b)
        BY <2>4, <2>5, <2>6 DEF Named
    <2>8. Recovered' = Visible
        BY <2>1, <2>6, <2>7 DEF Visible
    <2>9. Atomic!Commit
        BY <2>2, <2>3, <2>8 DEF Atomic!Commit, Active
    <2> QED
        BY <2>9 DEF Atomic!Next
<1>8. ASSUME NEW r \in BOOLEAN, install_block(r), dhead = lh, UNCHANGED <<lh, logblk, dhead>>
      PROVE  UNCHANGED Recovered
    <2>1. PICK x \in Blocks : /\ \A b \in Blocks : b # x => disk'[b] = disk[b]
                              /\ x \in Named(dhead)
        BY <1>0, <1>8 DEF install_block, Named
    <2> QED
        BY <1>8, <2>1 DEF Recovered, Named
<1>9. ASSUME NEW p \in Procs, install_trans(p) PROVE [Atomic!Next]_(Atomic!vars)
    <2>1. UNCHANGED <<logblk, dhead, boot, lh>> /\ boot = "up" /\ pc[p] = "install_trans"
        BY <1>9 DEF install_trans, Running
    <2>2. dhead = lh
        BY <1>0, <2>1 DEF HeaderInv
    <2>3. UNCHANGED Active
        BY <1>0, <1>9 DEF install_trans, Active
    <2>4. CASE install_block(FALSE)
        <3>1. /\ disk' = [disk EXCEPT ![lh[tail + 1]] = logblk[tail + 1]]
              /\ buf' = [buf EXCEPT ![lh[tail + 1]] = logblk[tail + 1]]
              /\ tail < Len(lh)
            BY <2>4 DEF install_block
        <3>2. /\ logblk[tail + 1] = Content(lh[tail + 1])
              /\ lh[tail + 1] \in Blocks /\ logblk[tail + 1] \in Vals
            BY <1>0, <2>1, <3>1 DEF CopyInv
        <3>3. \A b \in Blocks : Content(b)' = Content(b)
            BY <1>0, <3>1, <3>2 DEF Content
        <3> QED
            BY <1>8, <2>1, <2>2, <2>3, <2>4, <3>3, SameVisible, AtomicStutter
    <2>5. CASE UNCHANGED <<disk, buf, pin, tail>>
        <3>1. UNCHANGED Recovered
            BY <2>1, <2>5, SameRecovered DEF dvars
        <3> QED
            BY <2>1, <2>3, <2>5, <3>1, SameVisible, AtomicStutter DEF Content
    <2> QED
        BY <1>9, <2>4, <2>5 DEF install_trans
<1>10. ASSUME boot = "clear" \/ (boot = "up" /\ \E p \in Procs : pc[p] = "clear"),
              UNCHANGED <<disk, logblk>>, dhead' = <<>>
       PROVE  UNCHANGED Recovered /\ \A b \in Blocks : Recovered[b] = disk[b]
    <2>1. dhead = lh /\ \A i \in 1..Len(lh) : disk[lh[i]] = logblk[i]
        BY <1>0, <1>10 DEF HeaderInv, CopyInv
    <2>2. RecoveredMeaning
        BY <1>0, RecoveredAt DEF HeaderInv
    <2>3. \A b \in Blocks : Recovered[b] = disk[b]
        BY <2>1, <2>2 DEF RecoveredMeaning, Named
    <2>4. Recovered' = [b \in Blocks |-> disk[b]]
        BY <1>10 DEF Recovered, Named
    <2> QED
        BY <2>2, <2>3, <2>4 DEF RecoveredMeaning
<1>11. ASSUME NEW p \in Procs, clear(p) PROVE [Atomic!Next]_(Atomic!vars)
    <2>1. /\ UNCHANGED <<disk, logblk, buf, boot>> /\ boot = "up" /\ pc[p] = "clear"
          /\ dhead' = <<>>
        BY <1>11 DEF clear, clear_head, Running
    <2>2. UNCHANGED Recovered
        BY <1>10, <2>1
    <2>3. UNCHANGED Active
        BY <1>0, <1>11 DEF clear, Active
    <2> QED
        BY <2>1, <2>2, <2>3, SameVisible, AtomicStutter DEF Content
<1>12. ASSUME NEW p \in Procs, end_commit(p) PROVE [Atomic!Next]_(Atomic!vars)
    <2>1. UNCHANGED dvars /\ UNCHANGED <<disk, buf, boot>> /\ boot = "up"
        BY <1>12 DEF end_commit, Running, dvars
    <2>2. UNCHANGED Active
        BY <1>0, <1>12 DEF end_commit, Active, wakeup
    <2> QED
        BY <2>1, <2>2, SameRecovered, SameVisible, AtomicStutter DEF Content
<1>13. ASSUME NEW b \in Blocks, bread(b) \/ bget_recycle(b) PROVE [Atomic!Next]_(Atomic!vars)
    <2>1. UNCHANGED dvars /\ UNCHANGED <<disk, pc, boot>> /\ boot = "up"
        BY <1>13 DEF bread, bget_recycle, dvars, Running
    <2>2. \/ buf[b] = Absent /\ buf' = [buf EXCEPT ![b] = disk[b]]
          \/ buf[b] = disk[b] /\ buf' = [buf EXCEPT ![b] = Absent]
        BY <1>0, <1>13, <2>1 DEF bread, bget_recycle, PinInv
    <2>3. \A x \in Blocks : Content(x)' = Content(x)
        BY <1>0, <2>1, <2>2 DEF Content
    <2>4. UNCHANGED Active
        BY <2>1 DEF Active
    <2> QED
        BY <2>1, <2>3, <2>4, SameRecovered, SameVisible, AtomicStutter
<1>14. ASSUME read_head PROVE [Atomic!Next]_(Atomic!vars)
    <2>1. UNCHANGED dvars /\ boot \notin {"up", "panic"} /\ boot' \notin {"up", "panic"} /\ pc' = pc
        BY <1>14 DEF read_head
    <2>2. UNCHANGED Recovered /\ UNCHANGED Active
        BY <2>1, SameRecovered DEF Active
    <2> QED
        BY <2>1, <2>2, AtomicStutter DEF Visible
<1>15. ASSUME recover_install PROVE [Atomic!Next]_(Atomic!vars)
    <2>1. /\ boot = "install_trans" /\ boot' \in {"install_trans", "clear"}
          /\ UNCHANGED <<logblk, dhead, lh, pc>> /\ dhead = lh
        BY <1>0, <1>15 DEF recover_install, HeaderInv
    <2>2. UNCHANGED Recovered
        BY <1>8, <1>15, <2>1, SameRecovered DEF recover_install, dvars
    <2>3. UNCHANGED Active
        BY <2>1 DEF Active
    <2> QED
        BY <2>1, <2>2, <2>3, AtomicStutter DEF Visible
<1>16. ASSUME recover_clear PROVE [Atomic!Next]_(Atomic!vars)
    <2>1. /\ boot = "clear" /\ boot' = "up" /\ UNCHANGED <<disk, logblk, buf, pc>>
          /\ dhead' = <<>>
        BY <1>16 DEF recover_clear, clear_head
    <2>2. UNCHANGED Recovered /\ \A b \in Blocks : Recovered[b] = disk[b]
        BY <1>10, <2>1
    <2>3. \A b \in Blocks : Content(b)' = disk[b]
        BY <1>0, <2>1 DEF PinInv, Unsaved, Content
    <2>4. UNCHANGED Visible
        BY <2>1, <2>2, <2>3 DEF Visible, Recovered
    <2>5. UNCHANGED Active
        BY <2>1 DEF Active
    <2> QED
        BY <2>2, <2>4, <2>5, AtomicStutter
<1>17. ASSUME Crash PROVE [Atomic!Next]_(Atomic!vars)
    <2>1. UNCHANGED dvars /\ boot' = "read_head"
        BY <1>17 DEF Crash
    <2>2. UNCHANGED Recovered /\ Visible' = Recovered
        BY <2>1, SameRecovered DEF Visible
    <2>3. Active' = {}
        BY <1>17 DEF Crash, Active
    <2>4. Atomic!Crash
        BY <2>2, <2>3 DEF Atomic!Crash, Active
    <2> QED
        BY <2>4 DEF Atomic!Next
<1>18. CASE UNCHANGED vars
    BY <1>18, AtomicStutter, SameRecovered DEF vars, dvars, Active, Visible, Content
<1> QED
    BY <1>2, <1>3, <1>4, <1>5, <1>6, <1>7, <1>9, <1>11, <1>12, <1>13, <1>14, <1>15, <1>16,
       <1>17, <1>18 DEF Next, Step, Recover

\* log.c implements AtomicDisk: whatever the number of processes, the size of
\* the log and the moment of a crash, the writes of complete operations reach
\* the disk all together or not at all.
THEOREM AtomicCommitCorrect == Spec => AtomicCommit
<1>1. Init => Atomic!Init
    <2> SUFFICES ASSUME Init PROVE Atomic!Init
        OBVIOUS
    <2>1. Recovered = [b \in Blocks |-> disk[b]] /\ Recovered \in [Blocks -> Vals]
        BY RecoveredClear DEF Init
    <2>2. Visible = Recovered /\ {p \in Procs : pc[p] = "inop"} = {}
        BY DEF Init, Visible
    <2> QED
        BY <2>1, <2>2 DEF Atomic!Init
<1> QED
    BY <1>1, AtomicStep, LogInvariant, PTL DEF Spec, AtomicCommit, Atomic!Spec

-----------------------------------------------------------------------------
(* No operation that writes fewer than MAXOPBLOCKS blocks reaches a panic of *)
(* log.c.  The argument counts the blocks that open operations may still add *)
(* (Reserved); SpaceInv says that they fit.                                  *)

\* The reservations form a finite set.
LEMMA ReservedFinite == IsFiniteSet(Reserved) /\ Cardinality(Reserved) \in Nat
<1>1. IsFiniteSet(1..MAXOPBLOCKS)
    BY LogAssumption, FS_Interval
<1>2. IsFiniteSet(Procs \X (1..MAXOPBLOCKS))
    BY <1>1, LogAssumption, FS_Product
<1>3. Reserved \subseteq Procs \X (1..MAXOPBLOCKS)
    BY DEF Reserved
<1> QED
    BY <1>2, <1>3, FS_Subset, FS_CardinalityType

\* Fewer reservations and no more blocks in the transaction still fit.
LEMMA FewerReserved ==
    ASSUME SpaceInv, TypeOK, Reserved' \subseteq Reserved,
           Len(lh') \in Nat, Len(lh') <= Len(lh)
    PROVE  Len(lh') + Cardinality(Reserved') <= LOGSIZE
<1>1. Cardinality(Reserved') \in Nat /\ Cardinality(Reserved') <= Cardinality(Reserved)
    BY ReservedFinite, FS_Subset, FS_CardinalityType
<1>2. Len(lh) \in Nat
    BY DEF TypeOK
<1> QED
    BY <1>1, <1>2, ReservedFinite, LogAssumption DEF SpaceInv

\* A step that leaves the operations and the transaction alone.
LEMMA SameSpace ==
    ASSUME SpaceInv, TypeOK, UNCHANGED <<lh, wrote>>, boot' # "panic",
           \A q \in Procs : pc'[q] = "inop" <=> pc[q] = "inop"
    PROVE  SpaceInv'
<1>1. Reserved' = Reserved
    BY DEF Reserved
<1> QED
    BY <1>1 DEF SpaceInv, NoPanic, Named

\* begin_op admits an operation only if the reservations of all of them fit.
LEMMA BeginSpace ==
    ASSUME LogInv, LogInv', SpaceInv, NEW p \in Procs, begin_op(p)
    PROVE  SpaceInv'
<1>0. /\ pc \in [Procs -> PCs] /\ Len(lh) \in Nat /\ UNCHANGED <<lh, wrote, boot>>
      /\ TypeOK
    BY DEF LogInv, TypeOK, begin_op
<1>1. CASE MustWait
    <2>1. \A q \in Procs : pc'[q] = "inop" <=> pc[q] = "inop"
        BY <1>0, <1>1 DEF begin_op
    <2> QED
        BY <1>0, <2>1, SameSpace DEF SpaceInv, NoPanic
<1>2. CASE ~MustWait
    <2>1. outstanding' = outstanding + 1 /\ pc' = [pc EXCEPT ![p] = "inop"]
        BY <1>2 DEF begin_op
    <2>2. outstanding' = Cardinality(InOp')
        BY DEF LogInv, CommitterInv, InOp
    <2> DEFINE Slots == 1..MAXOPBLOCKS
    <2>3. IsFiniteSet(Slots) /\ Cardinality(Slots) = MAXOPBLOCKS
        BY LogAssumption, FS_Interval
    <2>4. IsFiniteSet(InOp')
        BY LogAssumption, FS_Subset DEF InOp
    <2>5. /\ IsFiniteSet(InOp' \X Slots)
          /\ Cardinality(InOp' \X Slots) = outstanding' * MAXOPBLOCKS
        BY <2>2, <2>3, <2>4, FS_Product
    <2>6. Reserved' \subseteq InOp' \X Slots
        BY DEF Reserved, InOp
    <2>7. /\ Cardinality(Reserved') \in Nat
          /\ Cardinality(Reserved') <= (outstanding + 1) * MAXOPBLOCKS
        BY <2>1, <2>5, <2>6, FS_Subset, FS_CardinalityType
    <2>8. Len(lh) + (outstanding + 1) * MAXOPBLOCKS <= LOGSIZE
        BY <1>0, <1>2, LogAssumption DEF MustWait, LogInv, TypeOK
    <2>9. (outstanding + 1) * MAXOPBLOCKS \in Int
        BY LogAssumption DEF LogInv, TypeOK
    <2>10. Len(lh') + Cardinality(Reserved') <= LOGSIZE
        <3> HIDE DEF Slots
        <3> DEFINE n == (outstanding + 1) * MAXOPBLOCKS
        <3> SUFFICES Len(lh) + Cardinality(Reserved') <= LOGSIZE
            BY <1>0
        <3>1. n \in Int /\ Cardinality(Reserved') <= n /\ Len(lh) + n <= LOGSIZE
            BY <2>7, <2>8, <2>9
        <3> HIDE DEF n
        <3> QED
            BY <1>0, <2>7, <3>1, LogAssumption
    <2>11. \A q \in Procs : pc'[q] # "inop" => pc[q] # "inop"
        BY <1>0, <2>1
    <2> QED
        BY <1>0, <2>10, <2>11 DEF SpaceInv, NoPanic, Named
<1> QED
    BY <1>1, <1>2

\* log_write finds room, and takes one of the blocks reserved for its operation
\* when the block is new to the transaction.
LEMMA WriteSpace ==
    ASSUME OPBLOCKS < MAXOPBLOCKS, LogInv, SpaceInv,
           NEW p \in Procs, NEW b \in Blocks, NEW v \in Vals, log_write(p, b, v)
    PROVE  SpaceInv'
<1> DEFINE k == Cardinality(wrote[p])
           w == wrote[p] \cup {b}
<1>0. /\ TypeOK /\ wrote \in [Procs -> SUBSET Blocks] /\ lh \in Seq(Blocks) /\ Len(lh) \in Nat
      /\ pc[p] = "inop" /\ pc' = pc /\ wrote' = [wrote EXCEPT ![p] = w]
      /\ Cardinality(w) <= OPBLOCKS
    BY DEF LogInv, TypeOK, log_write
<1>1. IsFiniteSet(wrote[p]) /\ k \in Nat /\ k <= OPBLOCKS
    BY FS_CardinalityType DEF SpaceInv
<1>2. IsFiniteSet(w) /\ Cardinality(w) \in Nat /\ Cardinality(w) = IF b \in wrote[p] THEN k ELSE k + 1
    BY <1>1, FS_AddElement, FS_CardinalityType
<1>3. Len(lh) < LOGSIZE
    <2>1. <<p, MAXOPBLOCKS>> \in Reserved
        BY <1>0, <1>1, LogAssumption DEF Reserved
    <2>2. Cardinality(Reserved) # 0
        BY <2>1, ReservedFinite, FS_EmptySet
    <2> QED
        BY <1>0, <2>2, ReservedFinite, LogAssumption DEF SpaceInv
<1>4. outstanding >= 1
    <2>1. p \in InOp
        BY <1>0 DEF InOp
    <2>2. Cardinality(InOp) # 0
        BY <2>1, InOpFinite, FS_EmptySet
    <2> QED
        BY <2>2, InOpFinite DEF LogInv, CommitterInv, InOp
<1>5. boot' # "panic"
    BY <1>0, <1>3, <1>4, LogAssumption DEF log_write, TooBig, Running, LogInv, TypeOK
<1>6. \A q \in Procs : wrote'[q] = IF q = p THEN w ELSE wrote[q]
    BY <1>0
<1>7. CASE b \in Named(lh)
    <2>1. lh' = lh
        BY <1>7 DEF log_write
    <2>2. Reserved' \subseteq Reserved
        BY <1>0, <1>1, <1>2, <1>6 DEF Reserved
    <2>3. Len(lh') + Cardinality(Reserved') <= LOGSIZE
        BY <1>0, <2>1, <2>2, FewerReserved
    <2> QED
        BY <1>0, <1>2, <1>5, <1>6, <1>7, <2>1, <2>3 DEF SpaceInv, NoPanic, Named
<1>8. CASE b \notin Named(lh)
    <2>1. lh' = Append(lh, b) /\ Len(lh') = Len(lh) + 1
        BY <1>0, <1>5, <1>8 DEF log_write
    <2>2. b \notin wrote[p]
        BY <1>8 DEF SpaceInv
    <2>3. Cardinality(w) = k + 1 /\ k + 1 \in 1..MAXOPBLOCKS
        BY <1>0, <1>1, <1>2, <2>2, LogAssumption
    <2>4. <<p, k + 1>> \in Reserved
        BY <1>0, <1>1, <2>3 DEF Reserved
    <2>5. Reserved' \subseteq Reserved \ {<<p, k + 1>>}
        BY <1>0, <1>1, <1>6, <2>3 DEF Reserved
    <2>6. /\ IsFiniteSet(Reserved \ {<<p, k + 1>>})
          /\ Cardinality(Reserved \ {<<p, k + 1>>}) = Cardinality(Reserved) - 1
        BY <2>4, ReservedFinite, FS_RemoveElement
    <2>7. /\ Cardinality(Reserved') \in Nat
          /\ Cardinality(Reserved') <= Cardinality(Reserved) - 1
        BY <2>5, <2>6, FS_Subset, FS_CardinalityType
    <2>8. Len(lh') + Cardinality(Reserved') <= LOGSIZE
        BY <1>0, <2>1, <2>7, ReservedFinite, LogAssumption DEF SpaceInv
    <2>9. Named(lh') = Named(lh) \cup {b}
        BY <1>0, <2>1 DEF Named
    <2> QED
        BY <1>0, <1>2, <1>5, <1>6, <2>8, <2>9 DEF SpaceInv, NoPanic
<1> QED
    BY <1>7, <1>8

\* end_op gives up what its operation did not use.
LEMMA EndSpace ==
    ASSUME LogInv, SpaceInv, NEW p \in Procs, end_op(p)
    PROVE  SpaceInv'
<1>0. /\ TypeOK /\ wrote \in [Procs -> SUBSET Blocks] /\ pc \in [Procs -> PCs]
      /\ Len(lh) \in Nat /\ lh' = lh /\ pc[p] = "inop"
      /\ wrote' = [wrote EXCEPT ![p] = {}]
    BY DEF LogInv, TypeOK, end_op
<1>1. committing # 1
    BY <1>0 DEF LogInv, CommitterInv
<1>2. boot' = boot
    BY <1>1 DEF end_op
<1>3. \A q \in Procs : /\ pc'[q] = "inop" <=> pc[q] = "inop" /\ q # p
                       /\ wrote'[q] = IF q = p THEN {} ELSE wrote[q]
    BY <1>0, <1>2 DEF end_op, wakeup, SpaceInv, NoPanic
<1>4. Reserved' \subseteq Reserved
    BY <1>3 DEF Reserved
<1>5. Len(lh') + Cardinality(Reserved') <= LOGSIZE
    BY <1>0, <1>4, FewerReserved
<1>6. IsFiniteSet({}) /\ Cardinality({}) = 0
    BY FS_EmptySet
<1> QED
    BY <1>0, <1>2, <1>3, <1>5, <1>6, LogAssumption DEF SpaceInv, NoPanic, Named

\* While no operation is open, any transaction the header can name fits.
LEMMA IdleSpace ==
    ASSUME TypeOK', boot' # "panic",
           \A q \in Procs : pc'[q] # "inop" /\ wrote'[q] = {}
    PROVE  SpaceInv'
<1>1. Reserved' = {}
    BY DEF Reserved
<1>2. IsFiniteSet({}) /\ Cardinality({}) = 0
    BY FS_EmptySet
<1>3. Len(lh') \in Nat /\ Len(lh') <= LOGSIZE
    BY DEF TypeOK
<1>4. Len(lh') + Cardinality(Reserved') <= LOGSIZE
    BY <1>1, <1>2, <1>3
<1>5. \A q \in Procs : /\ IsFiniteSet(wrote'[q]) /\ Cardinality(wrote'[q]) <= OPBLOCKS
                       /\ wrote'[q] \subseteq Named(lh')
    <2> SUFFICES ASSUME NEW q \in Procs
                 PROVE  /\ IsFiniteSet(wrote'[q]) /\ Cardinality(wrote'[q]) <= OPBLOCKS
                        /\ wrote'[q] \subseteq Named(lh')
        OBVIOUS
    <2>1. wrote'[q] = {}
        OBVIOUS
    <2>2. OPBLOCKS \in Nat
        BY LogAssumption
    <2>3. 0 <= OPBLOCKS
        BY <2>2
    <2>4. IsFiniteSet(wrote'[q]) /\ Cardinality(wrote'[q]) <= OPBLOCKS
        BY <1>2, <2>1, <2>3
    <2>5. wrote'[q] \subseteq Named(lh')
        BY <2>1
    <2> QED
        BY <2>4, <2>5
<1> QED
    BY <1>4, <1>5 DEF SpaceInv, NoPanic, Named

\* At boot nothing is reserved and the transaction is empty.
LEMMA SpaceInit == Init => SpaceInv
<1> SUFFICES ASSUME Init PROVE SpaceInv
    OBVIOUS
<1>1. Reserved = {} /\ IsFiniteSet({}) /\ Cardinality({}) = 0
    BY FS_EmptySet DEF Init, Reserved
<1>2. Len(lh) = 0
    BY DEF Init
<1> QED
    BY <1>1, <1>2, LogAssumption DEF Init, SpaceInv, NoPanic

\* Every step of log.c, a crash and recovery keep the space that is reserved.
LEMMA SpaceNext ==
    ASSUME OPBLOCKS < MAXOPBLOCKS, LogInv, LogInv', SpaceInv, [Next]_vars
    PROVE  SpaceInv'
<1>0. /\ TypeOK /\ TypeOK' /\ pc \in [Procs -> PCs] /\ boot # "panic"
      /\ wrote \in [Procs -> SUBSET Blocks]
    BY DEF LogInv, TypeOK, SpaceInv, NoPanic
<1>1. ASSUME NEW p \in Procs, Step(p) PROVE SpaceInv'
    <2>1. CASE begin_op(p)
        BY <2>1, BeginSpace
    <2>2. CASE \E b \in Blocks, v \in Vals : log_write(p, b, v)
        BY <2>2, WriteSpace
    <2>3. CASE end_op(p)
        BY <2>3, EndSpace
    <2>4. CASE commit(p) \/ write_log(p) \/ write_head(p) \/ install_trans(p)
        <3>1. /\ UNCHANGED <<lh, wrote, boot>>
              /\ \A q \in Procs : pc'[q] = "inop" <=> pc[q] = "inop"
            BY <1>0, <2>4 DEF commit, write_log, write_head, install_trans
        <3> QED
            BY <1>0, <3>1, SameSpace
    <2>5. CASE clear(p)
        <3>1. \A q \in Procs : pc[q] # "inop"
            BY <2>5 DEF LogInv, CommitterInv, CommitPCs, clear
        <3>2. boot' = boot /\ \A q \in Procs : pc'[q] # "inop" /\ wrote'[q] = {}
            BY <1>0, <2>5, <3>1 DEF clear, SpaceInv
        <3> QED
            BY <1>0, <3>2, IdleSpace
    <2>6. CASE end_commit(p)
        <3>1. /\ UNCHANGED <<lh, wrote, boot>>
              /\ \A q \in Procs : pc'[q] = "inop" <=> pc[q] = "inop"
            BY <1>0, <2>6 DEF end_commit, wakeup
        <3> QED
            BY <1>0, <3>1, SameSpace
    <2> QED
        BY <1>1, <2>1, <2>2, <2>3, <2>4, <2>5, <2>6 DEF Step
<1>2. ASSUME NEW b \in Blocks, bread(b) \/ bget_recycle(b) PROVE SpaceInv'
    <2>1. UNCHANGED <<lh, wrote, boot, pc>>
        BY <1>2 DEF bread, bget_recycle
    <2> QED
        BY <1>0, <2>1, SameSpace
<1>3. CASE Recover
    <2>1. boot \in {"read_head", "install_trans", "clear"}
        BY <1>3 DEF Recover, read_head, recover_install, recover_clear
    <2>2. \A q \in Procs : pc[q] # "inop"
        BY <2>1 DEF LogInv, CommitterInv
    <2>3. UNCHANGED <<pc, wrote>> /\ boot' # "panic"
        BY <1>0, <1>3 DEF Recover, read_head, recover_install, recover_clear
    <2> QED
        BY <1>0, <2>2, <2>3, IdleSpace DEF SpaceInv
<1>4. CASE Crash
    <2>1. boot' # "panic" /\ \A q \in Procs : pc'[q] # "inop" /\ wrote'[q] = {}
        BY <1>4 DEF Crash
    <2> QED
        BY <1>0, <2>1, IdleSpace
<1>5. CASE UNCHANGED vars
    <2>1. UNCHANGED <<lh, wrote, boot, pc>>
        BY <1>5 DEF vars
    <2> QED
        BY <1>0, <2>1, SameSpace
<1> QED
    BY <1>1, <1>2, <1>3, <1>4, <1>5 DEF Next

\* The space begin_op reserves is there: whatever operations run together,
\* log.lh and what they may still write fit into the log.
THEOREM SpaceInvariant == OPBLOCKS < MAXOPBLOCKS => (Spec => []SpaceInv)
<1> SUFFICES ASSUME OPBLOCKS < MAXOPBLOCKS PROVE Spec => []SpaceInv
    OBVIOUS
<1>1. LogInv /\ LogInv' /\ SpaceInv /\ [Next]_vars => SpaceInv'
    BY SpaceNext
<1> QED
    BY <1>1, SpaceInit, LogInvariant, PTL DEF Spec

\* No operation that writes fewer than MAXOPBLOCKS blocks makes log_write or
\* end_op panic, for any number of processes and blocks and any log.
THEOREM NoPanicCorrect == OPBLOCKS < MAXOPBLOCKS => (Spec => []NoPanic)
<1> SUFFICES ASSUME OPBLOCKS < MAXOPBLOCKS PROVE Spec => []NoPanic
    OBVIOUS
<1>1. SpaceInv => NoPanic
    BY DEF SpaceInv
<1> QED
    BY <1>1, SpaceInvariant, PTL
=============================================================================
