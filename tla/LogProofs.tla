----------------------------- MODULE LogProofs -----------------------------
(***************************************************************************)
(* LogInv is an inductive invariant of Log for every choice of processes,  *)
(* blocks, contents and log size.                                          *)
(***************************************************************************)
EXTENDS Log, FiniteSetTheorems, TLAPS

\* The initial state of log.c is well typed.
LEMMA TypeInit == Init => TypeOK
<1> SUFFICES ASSUME Init PROVE TypeOK
    OBVIOUS
<1>1. buf \in [Blocks -> Vals \cup {Absent}] /\ pin \in [Blocks -> Int]
    BY DEF Init
<1>2. pc \in [Procs -> PCs] /\ wrote \in [Procs -> SUBSET Blocks]
    BY DEF Init, PCs
<1> QED
    BY <1>1, <1>2, LogAssumption DEF Init, TypeOK

\* Every action of log.c keeps its state well typed.
LEMMA TypeNext == TypeOK /\ [Next]_vars => TypeOK'
<1> SUFFICES ASSUME TypeOK, [Next]_vars PROVE TypeOK'
    OBVIOUS
<1> USE LogAssumption DEF TypeOK, PCs, dvars
<1>1. ASSUME NEW p \in Procs, begin_op(p) PROVE TypeOK'
    <2>1. pc' \in [Procs -> PCs]
        BY <1>1 DEF begin_op
    <2> QED
        BY <1>1, <2>1 DEF begin_op
<1>2. ASSUME NEW p \in Procs, NEW b \in Blocks, NEW v \in Vals, log_write(p, b, v) PROVE TypeOK'
    <2>1. lh' \in Seq(Blocks) /\ Len(lh') <= LOGSIZE
        <3>1. lh' = lh \/ (lh' = Append(lh, b) /\ ~TooBig)
            BY <1>2 DEF log_write, Running
        <3>2. CASE lh' = Append(lh, b) /\ ~TooBig
            <4>1. Len(lh) \in Nat /\ Len(lh) < LOGSIZE
                BY <3>2 DEF TooBig
            <4>2. lh' \in Seq(Blocks) /\ Len(lh') = Len(lh) + 1
                BY <3>2
            <4> QED
                BY <4>1, <4>2
        <3> QED
            BY <3>1, <3>2
    <2>2. buf' \in [Blocks -> Vals \cup {Absent}]
        BY <1>2 DEF log_write
    <2>4. pin' \in [Blocks -> Int]
        BY <1>2 DEF log_write
    <2>3. wrote' \in [Procs -> SUBSET Blocks]
        BY <1>2 DEF log_write
    <2> QED
        BY <1>2, <2>1, <2>2, <2>3, <2>4 DEF log_write
<1>3. ASSUME NEW p \in Procs, end_op(p) PROVE TypeOK'
    BY <1>3 DEF end_op, wakeup
<1>4. ASSUME NEW p \in Procs, commit(p) PROVE TypeOK'
    BY <1>4 DEF commit
<1>5. ASSUME NEW p \in Procs, write_log(p) PROVE TypeOK'
    <2>1. CASE tail < Len(lh)
        <3>1. Content(lh[tail + 1]) \in Vals /\ tail' = tail + 1
            BY <1>5, <2>1 DEF write_log, Content
        <3>2. tail' \in 0..LOGSIZE /\ tail + 1 \in 1..LOGSIZE
            BY <2>1, <3>1
        <3>3. logblk' \in [1..LOGSIZE -> Vals]
            BY <1>5, <2>1, <3>1, <3>2 DEF write_log
        <3>4. buf' \in [Blocks -> Vals \cup {Absent}]
            BY <1>5, <2>1, <3>1 DEF write_log
        <3> QED
            BY <1>5, <2>1, <3>2, <3>3, <3>4 DEF write_log
    <2>2. CASE ~(tail < Len(lh))
        BY <1>5, <2>2 DEF write_log
    <2> QED
        BY <2>1, <2>2
<1>6. ASSUME NEW p \in Procs, write_head(p) PROVE TypeOK'
    BY <1>6 DEF write_head
<1>7. ASSUME NEW r \in BOOLEAN, install_block(r)
      PROVE  /\ disk' \in [Blocks -> Vals]
             /\ buf' \in [Blocks -> Vals \cup {Absent}]
             /\ pin' \in [Blocks -> Int]
             /\ tail' \in 0..LOGSIZE
    <2>1. lh[tail + 1] \in Blocks /\ logblk[tail + 1] \in Vals
        BY <1>7 DEF install_block
    <2> QED
        BY <1>7, <2>1 DEF install_block
<1>8. ASSUME NEW p \in Procs, install_trans(p) PROVE TypeOK'
    <2>1. CASE install_block(FALSE) /\ UNCHANGED pc
        BY <1>7, <1>8, <2>1 DEF install_trans
    <2>2. CASE /\ pc' = [pc EXCEPT ![p] = "clear"]
               /\ UNCHANGED <<disk, buf, pin, tail>>
        BY <1>8, <2>2 DEF install_trans
    <2> QED
        BY <1>8, <2>1, <2>2 DEF install_trans
<1>9. ASSUME NEW p \in Procs, clear(p) PROVE TypeOK'
    BY <1>9 DEF clear, clear_head
<1>10. ASSUME NEW p \in Procs, end_commit(p) PROVE TypeOK'
    BY <1>10 DEF end_commit, wakeup
<1>11. ASSUME NEW b \in Blocks, bread(b) PROVE TypeOK'
    BY <1>11 DEF bread
<1>12. ASSUME NEW b \in Blocks, bget_recycle(b) PROVE TypeOK'
    BY <1>12 DEF bget_recycle
<1>13. ASSUME read_head PROVE TypeOK'
    BY <1>13 DEF read_head
<1>14. ASSUME recover_install PROVE TypeOK'
    <2>1. CASE install_block(TRUE) /\ UNCHANGED boot
        BY <1>7, <1>14, <2>1 DEF recover_install
    <2>2. CASE boot' = "clear" /\ UNCHANGED <<disk, buf, pin, tail>>
        BY <1>14, <2>2 DEF recover_install
    <2> QED
        BY <1>14, <2>1, <2>2 DEF recover_install
<1>15. ASSUME recover_clear PROVE TypeOK'
    BY <1>15 DEF recover_clear, clear_head
<1>16. ASSUME Crash PROVE TypeOK'
    BY <1>16 DEF Crash
<1>17. CASE UNCHANGED vars
    BY <1>17 DEF vars
<1> QED
    BY <1>1, <1>2, <1>3, <1>4, <1>5, <1>6, <1>8, <1>9, <1>10, <1>11, <1>12, <1>13,
       <1>14, <1>15, <1>16, <1>17 DEF Next, Step, Recover

-----------------------------------------------------------------------------
InOp == {p \in Procs : pc[p] = "inop"}

\* The processes inside an operation form a finite set.
LEMMA InOpFinite == IsFiniteSet(InOp) /\ Cardinality(InOp) \in Nat
BY LogAssumption, FS_Subset, FS_CardinalityType DEF InOp

\* A step that moves no process into or out of an operation, and keeps
\* log.outstanding, keeps the count exact.
LEMMA SameInOp ==
    ASSUME outstanding = Cardinality(InOp), outstanding' = outstanding,
           \A q \in Procs : pc'[q] = "inop" <=> pc[q] = "inop"
    PROVE  outstanding' = Cardinality(InOp')
<1>1. InOp' = InOp
    BY DEF InOp
<1> QED
    BY <1>1

\* Who is in the log, preserved by every action of log.c.
LEMMA CommitterNext == TypeOK /\ CommitterInv /\ Next => CommitterInv'
<1> SUFFICES ASSUME TypeOK, CommitterInv, Next PROVE CommitterInv'
    OBVIOUS
<1>0. outstanding = Cardinality(InOp) /\ pc \in [Procs -> PCs] /\ committing \in {0, 1}
    BY DEF CommitterInv, InOp, TypeOK
<1> USE DEF CommitPCs
<1>1. ASSUME NEW p \in Procs, begin_op(p) PROVE CommitterInv'
    <2>1. CASE MustWait
        <3>1. pc' = [pc EXCEPT ![p] = "asleep"] /\ UNCHANGED <<outstanding, committing, boot>>
            BY <1>1, <2>1 DEF begin_op
        <3>2. outstanding' = Cardinality(InOp')
            BY <1>0, <1>1, <3>1, SameInOp DEF begin_op
        <3> QED
            BY <1>0, <1>1, <3>1, <3>2 DEF begin_op, CommitterInv, InOp, Running
    <2>2. CASE ~MustWait
        <3>1. /\ pc' = [pc EXCEPT ![p] = "inop"]
              /\ outstanding' = outstanding + 1
              /\ UNCHANGED <<committing, boot>>
              /\ committing = 0
            BY <1>0, <1>1, <2>2 DEF begin_op, MustWait
        <3>2. InOp' = InOp \cup {p} /\ p \notin InOp
            BY <1>0, <1>1, <3>1 DEF begin_op, InOp
        <3>3. outstanding' = Cardinality(InOp')
            BY <1>0, <3>1, <3>2, InOpFinite, FS_AddElement
        <3> QED
            BY <1>0, <1>1, <3>1, <3>3 DEF begin_op, CommitterInv, InOp, Running
    <2> QED
        BY <2>1, <2>2
<1>2. ASSUME NEW p \in Procs, NEW b \in Blocks, NEW v \in Vals, log_write(p, b, v)
      PROVE  CommitterInv'
    <2>1. boot' \in {"up", "panic"} /\ UNCHANGED <<outstanding, committing, pc>>
        BY <1>2 DEF log_write, Running
    <2> QED
        BY <2>1 DEF CommitterInv
<1>3. ASSUME NEW p \in Procs, end_op(p) PROVE CommitterInv'
    <2>1. committing = 0 /\ boot' = "up" /\ outstanding' = outstanding - 1
        BY <1>0, <1>3 DEF end_op, CommitterInv, Running
    <2>2. \/ /\ outstanding' = 0
             /\ committing' = 1
             /\ pc' = [pc EXCEPT ![p] = "commit"]
          \/ /\ outstanding' # 0
             /\ committing' = 0
             /\ pc' = wakeup([pc EXCEPT ![p] = "idle"])
        BY <1>3, <2>1 DEF end_op
    <2>3. InOp' = InOp \ {p} /\ p \in InOp
        BY <1>0, <1>3, <2>2 DEF end_op, InOp, wakeup
    <2>4. outstanding' = Cardinality(InOp') /\ IsFiniteSet(InOp')
        BY <1>0, <2>1, <2>3, InOpFinite, FS_RemoveElement
    <2>5. CASE outstanding' = 0
        <3>1. InOp' = {}
            BY <2>4, <2>5, FS_EmptySet
        <3>2. pc' = [pc EXCEPT ![p] = "commit"] /\ committing' = 1
            BY <2>2, <2>5
        <3> QED
            BY <1>0, <2>1, <2>4, <3>1, <3>2 DEF CommitterInv, InOp
    <2>6. CASE outstanding' # 0
        <3>1. pc' = wakeup([pc EXCEPT ![p] = "idle"]) /\ committing' = 0
            BY <2>2, <2>6
        <3> QED
            BY <1>0, <2>1, <2>4, <3>1 DEF CommitterInv, InOp, wakeup
    <2> QED
        BY <2>5, <2>6
<1>4. ASSUME NEW p \in Procs, NEW next \in CommitPCs,
             pc[p] \in CommitPCs, pc' \in {pc, [pc EXCEPT ![p] = next]},
             Running, UNCHANGED <<outstanding, committing, boot>>
      PROVE  CommitterInv'
    <2>1. outstanding' = Cardinality(InOp')
        BY <1>0, <1>4, SameInOp
    <2> QED
        BY <1>0, <1>4, <2>1 DEF CommitterInv, InOp, Running
<1>5. ASSUME NEW p \in Procs,
             commit(p) \/ write_log(p) \/ write_head(p) \/ install_trans(p) \/ clear(p)
      PROVE  CommitterInv'
    BY <1>4, <1>5 DEF commit, write_log, write_head, install_trans, clear
<1>6. ASSUME NEW p \in Procs, end_commit(p) PROVE CommitterInv'
    <2>1. /\ pc' = wakeup([pc EXCEPT ![p] = "idle"])
          /\ UNCHANGED <<outstanding, boot>>
          /\ committing' = 0
          /\ pc[p] = "end_commit"
          /\ boot = "up"
        BY <1>6 DEF end_commit, Running
    <2>2. outstanding' = Cardinality(InOp')
        BY <1>0, <2>1, SameInOp DEF wakeup
    <2> QED
        BY <1>0, <2>1, <2>2 DEF CommitterInv, InOp, wakeup
<1>7. ASSUME NEW b \in Blocks, bread(b) \/ bget_recycle(b) PROVE CommitterInv'
    BY <1>7 DEF bread, bget_recycle, CommitterInv
<1>8. ASSUME Recover PROVE CommitterInv'
    <2>1. UNCHANGED <<outstanding, committing, pc>> /\ boot \notin {"up", "panic"}
        BY <1>8 DEF Recover, read_head, recover_install, recover_clear
    <2> QED
        BY <2>1 DEF CommitterInv
<1>9. ASSUME Crash PROVE CommitterInv'
    <2>1. InOp' = {}
        BY <1>9 DEF Crash, InOp
    <2>2. outstanding' = Cardinality(InOp')
        BY <1>9, <2>1, FS_EmptySet DEF Crash
    <2> QED
        BY <1>9, <2>2 DEF Crash, CommitterInv, InOp
<1> QED
    BY <1>1, <1>2, <1>3, <1>5, <1>6, <1>7, <1>8, <1>9 DEF Next, Step

-----------------------------------------------------------------------------
\* A step that leaves both headers alone, moves nobody into or out of the
\* part of commit() where the on-disk header is set, and closes no operation.
LEMMA SameHeader ==
    ASSUME HeaderInv, UNCHANGED <<lh, dhead>>,
           boot' = boot \/ (boot = "up" /\ boot' = "panic"),
           \A q \in Procs : pc'[q] \in {"install_trans", "clear"}
                              <=> pc[q] \in {"install_trans", "clear"},
           \A q \in Procs : pc'[q] = "end_commit" => pc[q] = "end_commit",
           boot' = "up" /\ outstanding' = 0 /\ committing' = 0 => lh = <<>>
    PROVE  HeaderInv'
<1>1. (\E q \in Procs : pc'[q] \in {"install_trans", "clear"})
      <=> (\E q \in Procs : pc[q] \in {"install_trans", "clear"})
    OBVIOUS
<1> QED
    BY <1>1 DEF HeaderInv, Injective, Running

\* The two headers, preserved by every action of log.c.
LEMMA HeaderNext == TypeOK /\ CommitterInv /\ HeaderInv /\ Next => HeaderInv'
<1> SUFFICES ASSUME TypeOK, CommitterInv, HeaderInv, Next PROVE HeaderInv'
    OBVIOUS
<1>0. /\ pc \in [Procs -> PCs] /\ committing \in {0, 1} /\ outstanding \in Int
      /\ lh \in Seq(Blocks) /\ dhead \in Seq(Blocks)
    BY DEF TypeOK
<1> USE DEF CommitPCs
<1>1. ASSUME NEW p \in Procs, begin_op(p) PROVE HeaderInv'
    <2>1. CASE MustWait
        BY <1>0, <1>1, <2>1, SameHeader DEF begin_op, Running, HeaderInv, dvars
    <2>2. CASE ~MustWait
        <3>1. outstanding \in Nat
            BY <1>0, InOpFinite DEF CommitterInv, InOp
        <3> QED
            BY <1>0, <1>1, <2>2, <3>1, SameHeader DEF begin_op, dvars, HeaderInv, Running
    <2> QED
        BY <2>1, <2>2
<1>2. ASSUME NEW p \in Procs, NEW b \in Blocks, NEW v \in Vals, log_write(p, b, v)
      PROVE  HeaderInv'
    <2>1. /\ \A q \in Procs : pc[q] \notin CommitPCs
          /\ UNCHANGED <<dhead, pc, outstanding, committing>>
          /\ boot = "up"
        BY <1>0, <1>2 DEF log_write, Running, CommitterInv, dvars
    <2>2. CASE boot' = "panic"
        BY <1>0, <1>2, <2>1, <2>2, SameHeader DEF log_write, Running
    <2>3. CASE boot' = "up" /\ b \in Named(lh)
        BY <1>0, <1>2, <2>1, <2>3, SameHeader DEF log_write, Running, HeaderInv
    <2>4. CASE boot' = "up" /\ b \notin Named(lh)
        <3>1. lh' = Append(lh, b) /\ outstanding >= 1
            BY <1>0, <1>2, <2>4 DEF log_write
        <3>2. Injective(lh')
            BY <1>0, <2>4, <3>1 DEF HeaderInv, Injective, Named
        <3> QED
            BY <1>0, <2>1, <2>4, <3>1, <3>2 DEF HeaderInv, Injective, Running
    <2> QED
        BY <1>2, <2>1, <2>2, <2>3, <2>4 DEF log_write
<1>3. ASSUME NEW p \in Procs, end_op(p) PROVE HeaderInv'
    <2>1. committing = 0 /\ boot' = boot /\ UNCHANGED <<lh, dhead>>
        BY <1>0, <1>3 DEF end_op, CommitterInv, Running, dvars
    <2>2. \/ committing' = 1 /\ pc' = [pc EXCEPT ![p] = "commit"]
          \/ outstanding' # 0 /\ pc' = wakeup([pc EXCEPT ![p] = "idle"])
        BY <1>3, <2>1 DEF end_op, Running
    <2>3. /\ \A q \in Procs : pc'[q] \in {"install_trans", "clear"}
                                 <=> pc[q] \in {"install_trans", "clear"}
          /\ \A q \in Procs : pc'[q] = "end_commit" => pc[q] = "end_commit"
        BY <1>0, <1>3, <2>2 DEF end_op, wakeup
    <2> QED
        BY <2>1, <2>2, <2>3, SameHeader DEF HeaderInv, Running
<1>4. ASSUME NEW p \in Procs, commit(p) PROVE HeaderInv'
    <2>1. committing = 1 /\ UNCHANGED <<lh, dhead, outstanding, committing, boot>>
        BY <1>0, <1>4 DEF commit, CommitterInv, dvars
    <2>2. CASE Len(lh) > 0
        BY <1>0, <1>4, <2>1, <2>2, SameHeader DEF commit, HeaderInv, Running
    <2>3. CASE Len(lh) = 0
        <3>1. lh = <<>>
            BY <1>0, <2>3
        <3>2. pc' = [pc EXCEPT ![p] = "end_commit"] /\ pc[p] = "commit"
            BY <1>4, <2>3 DEF commit
        <3> QED
            BY <1>0, <2>1, <3>1, <3>2 DEF HeaderInv, Injective
    <2> QED
        BY <1>0, <2>2, <2>3
<1>5. ASSUME NEW p \in Procs, write_log(p) PROVE HeaderInv'
    <2>1. committing = 1 /\ UNCHANGED <<lh, dhead, outstanding, committing, boot>>
        BY <1>0, <1>5 DEF write_log, CommitterInv
    <2>2. pc[p] = "write_log" /\ pc' \in {pc, [pc EXCEPT ![p] = "write_head"]}
        BY <1>5 DEF write_log
    <2> QED
        BY <1>0, <2>1, <2>2, SameHeader DEF HeaderInv, Running
<1>6. ASSUME NEW p \in Procs, write_head(p) PROVE HeaderInv'
    <2>1. committing = 1 /\ UNCHANGED <<lh, outstanding, committing, boot>>
        BY <1>0, <1>6 DEF write_head, CommitterInv
    <2>2. /\ pc[p] = "write_head" /\ pc' = [pc EXCEPT ![p] = "install_trans"]
          /\ dhead' = lh /\ boot = "up"
        BY <1>6 DEF write_head, Running
    <2>3. \A q \in Procs : pc'[q] # "end_commit"
        BY <1>0, <2>2 DEF CommitterInv
    <2> QED
        BY <1>0, <2>1, <2>2, <2>3 DEF HeaderInv, Injective
<1>7. ASSUME NEW p \in Procs, install_trans(p) PROVE HeaderInv'
    <2>1. committing = 1 /\ UNCHANGED <<lh, dhead, outstanding, committing, boot>>
        BY <1>0, <1>7 DEF install_trans, CommitterInv
    <2>2. pc[p] = "install_trans" /\ pc' \in {pc, [pc EXCEPT ![p] = "clear"]}
        BY <1>7 DEF install_trans
    <2> QED
        BY <1>0, <2>1, <2>2, SameHeader DEF HeaderInv, Running
<1>8. ASSUME NEW p \in Procs, clear(p) PROVE HeaderInv'
    <2>1. lh' = <<>> /\ dhead' = <<>> /\ UNCHANGED boot /\ boot = "up"
        BY <1>8 DEF clear, clear_head, Running
    <2>2. \A q \in Procs : pc'[q] \notin {"install_trans", "clear"}
        BY <1>0, <1>8 DEF clear, CommitterInv
    <2> QED
        BY <2>1, <2>2 DEF HeaderInv, Injective
<1>9. ASSUME NEW p \in Procs, end_commit(p) PROVE HeaderInv'
    <2>1. UNCHANGED <<lh, dhead, boot>> /\ lh = <<>>
        BY <1>9 DEF end_commit, HeaderInv, dvars
    <2>2. /\ \A q \in Procs : pc'[q] \in {"install_trans", "clear"}
                                 <=> pc[q] \in {"install_trans", "clear"}
          /\ \A q \in Procs : pc'[q] = "end_commit" => pc[q] = "end_commit"
        BY <1>0, <1>9 DEF end_commit, wakeup
    <2> QED
        BY <2>1, <2>2, SameHeader DEF HeaderInv, Running
<1>10. ASSUME NEW b \in Blocks, bread(b) \/ bget_recycle(b) PROVE HeaderInv'
    BY <1>10, SameHeader DEF bread, bget_recycle, HeaderInv, Running, dvars
<1>11. ASSUME read_head PROVE HeaderInv'
    BY <1>11 DEF read_head, HeaderInv, CommitterInv, Injective, dvars, Running
<1>12. ASSUME recover_install PROVE HeaderInv'
    <2>1. UNCHANGED <<lh, dhead, pc>> /\ boot = "install_trans" /\ boot' \in {boot, "clear"}
        BY <1>12 DEF recover_install
    <2> QED
        BY <2>1 DEF HeaderInv, Injective, Running
<1>13. ASSUME recover_clear PROVE HeaderInv'
    BY <1>13 DEF recover_clear, clear_head, HeaderInv, CommitterInv, Injective
<1>14. ASSUME Crash PROVE HeaderInv'
    BY <1>14 DEF Crash, HeaderInv, Injective, dvars, Running
<1> QED
    BY <1>1, <1>2, <1>3, <1>4, <1>5, <1>6, <1>7, <1>8, <1>9, <1>10, <1>11, <1>12, <1>13,
       <1>14 DEF Next, Step, Recover

-----------------------------------------------------------------------------
\* The copying loops of commit() and recover_from_log(), preserved by every action.
LEMMA CopyNext == TypeOK /\ CommitterInv /\ HeaderInv /\ CopyInv /\ PinInv /\ Next => CopyInv'
<1> SUFFICES ASSUME TypeOK, CommitterInv, HeaderInv, CopyInv, PinInv, Next PROVE CopyInv'
    OBVIOUS
<1>0. /\ pc \in [Procs -> PCs] /\ committing \in {0, 1}
      /\ lh \in Seq(Blocks) /\ Len(lh) \in Nat /\ Len(lh) <= LOGSIZE
      /\ buf \in [Blocks -> Vals \cup {Absent}] /\ disk \in [Blocks -> Vals]
      /\ logblk \in [1..LOGSIZE -> Vals] /\ tail \in Nat /\ LOGSIZE \in Nat
    BY LogAssumption DEF TypeOK
<1> USE DEF CommitPCs
<1>1. ASSUME NEW p \in Procs, pc[p] \in CommitPCs
      PROVE  \A q \in Procs : q # p => pc[q] \notin CommitPCs
    BY <1>1 DEF CommitterInv
<1>2. ASSUME NEW p \in Procs, begin_op(p) PROVE CopyInv'
    <2>1. UNCHANGED <<disk, logblk, lh, tail, buf, boot>>
        BY <1>2 DEF begin_op, dvars
    <2>2. \A q \in Procs : pc'[q] \in CommitPCs => pc'[q] = pc[q]
        BY <1>0, <1>2 DEF begin_op
    <2> QED
        BY <1>0, <2>1, <2>2 DEF CopyInv, Content
<1>3. ASSUME NEW p \in Procs, NEW b \in Blocks, NEW v \in Vals, log_write(p, b, v)
      PROVE  CopyInv'
    <2>1. boot' \in {"up", "panic"} /\ \A q \in Procs : pc'[q] \notin CommitPCs
        BY <1>0, <1>3 DEF log_write, Running, CommitterInv
    <2> QED
        BY <2>1 DEF CopyInv
<1>4. ASSUME NEW p \in Procs, end_op(p) PROVE CopyInv'
    <2>1. /\ boot' \in {"up", "panic"}
          /\ \A q \in Procs : pc'[q] \notin CommitPCs \/ pc'[q] = "commit"
        BY <1>0, <1>4 DEF end_op, wakeup, Running, CommitterInv
    <2> QED
        BY <2>1 DEF CopyInv
<1>5. ASSUME NEW p \in Procs, commit(p) PROVE CopyInv'
    <2>1. boot' = "up" /\ tail' = 0 /\ lh' = lh
        BY <1>5 DEF commit, Running
    <2>2. \A q \in Procs : pc'[q] \in CommitPCs => pc'[q] \in {"write_log", "end_commit"}
        BY <1>0, <1>1, <1>5 DEF commit
    <2> QED
        BY <1>0, <2>1, <2>2 DEF CopyInv
<1>6. ASSUME NEW p \in Procs, write_log(p) PROVE CopyInv'
    <2>1. boot' = "up" /\ UNCHANGED <<lh, disk>> /\ pc[p] = "write_log"
        BY <1>6 DEF write_log, Running
    <2>2. /\ tail <= Len(lh)
          /\ \A i \in 1..tail : logblk[i] = Content(lh[i])
        BY <2>1 DEF CopyInv
    <2>3. CASE tail < Len(lh)
        <3>1. /\ pc' = pc /\ tail' = tail + 1
              /\ logblk' = [logblk EXCEPT ![tail + 1] = Content(lh[tail + 1])]
              /\ buf' = [buf EXCEPT ![lh[tail + 1]] = Content(lh[tail + 1])]
            BY <1>0, <1>6, <2>3 DEF write_log
        <3>2. lh[tail + 1] \in Blocks /\ Content(lh[tail + 1]) \in Vals
            BY <1>0, <2>3 DEF Content
        <3>3. \A b \in Blocks : Content(b)' = Content(b)
            BY <1>0, <2>1, <3>1, <3>2, LogAssumption DEF Content
        <3>4. \A i \in 1..(tail + 1) : logblk'[i] = Content(lh[i])
            BY <1>0, <2>2, <2>3, <3>1
        <3>5. \A i \in 1..(tail + 1) : logblk'[i] = Content(lh[i])'
            BY <1>0, <2>1, <2>3, <3>3, <3>4
        <3>6. \A q \in Procs : pc'[q] \in CommitPCs => pc'[q] = "write_log"
            BY <1>0, <1>1, <2>1, <3>1
        <3> QED
            BY <1>0, <2>1, <2>3, <3>1, <3>5, <3>6 DEF CopyInv
    <2>4. CASE tail = Len(lh)
        <3>1. pc' = [pc EXCEPT ![p] = "write_head"] /\ UNCHANGED <<logblk, buf, tail>>
            BY <1>0, <1>6, <2>4 DEF write_log
        <3>2. \A q \in Procs : pc'[q] \in CommitPCs => pc'[q] = "write_head"
            BY <1>0, <1>1, <2>1, <3>1
        <3> QED
            BY <1>0, <2>1, <2>2, <2>4, <3>1, <3>2 DEF CopyInv, Content
    <2> QED
        BY <1>0, <2>2, <2>3, <2>4
<1>7. ASSUME NEW p \in Procs, write_head(p) PROVE CopyInv'
    <2>1. /\ boot' = "up" /\ tail' = 0 /\ UNCHANGED <<lh, disk, logblk, buf>>
          /\ pc[p] = "write_head" /\ pc' = [pc EXCEPT ![p] = "install_trans"]
        BY <1>7 DEF write_head, Running
    <2>2. \A i \in 1..Len(lh) : logblk[i] = Content(lh[i])
        BY <2>1 DEF CopyInv
    <2>3. \A q \in Procs : pc'[q] \in CommitPCs => pc'[q] = "install_trans"
        BY <1>0, <1>1, <2>1
    <2> QED
        BY <1>0, <2>1, <2>2, <2>3 DEF CopyInv, Content
<1>8. ASSUME NEW r \in BOOLEAN, install_block(r), UNCHANGED <<lh, logblk>>,
             \A i \in 1..tail : disk[lh[i]] = logblk[i]
      PROVE  /\ tail' = tail + 1 /\ tail' <= Len(lh)
             /\ \A i \in 1..tail' : disk'[lh[i]] = logblk[i]
             /\ \A i \in 1..Len(lh) : logblk[i] = Content(lh[i])
                                        => logblk[i] = Content(lh[i])'
    <2>1. /\ tail < Len(lh) /\ tail' = tail + 1
          /\ disk' = [disk EXCEPT ![lh[tail + 1]] = logblk[tail + 1]]
          /\ buf' = [buf EXCEPT ![lh[tail + 1]] = logblk[tail + 1]]
        BY <1>8 DEF install_block
    <2>2. \A i \in 1..Len(lh) : lh[i] \in Blocks /\ (lh[i] = lh[tail + 1] => i = tail + 1)
        BY <1>0, <2>1 DEF HeaderInv, Injective
    <2>3. \A i \in 1..tail' : disk'[lh[i]] = logblk[i]
        BY <1>0, <1>8, <2>1, <2>2
    <2>4. ASSUME NEW i \in 1..Len(lh), logblk[i] = Content(lh[i])
          PROVE  logblk[i] = Content(lh[i])'
        <3>1. CASE i = tail + 1
            <4>1. logblk[i] \in Vals /\ buf'[lh[i]] = logblk[i] /\ lh' = lh
                BY <1>0, <1>8, <2>1, <2>2, <3>1
            <4> QED
                BY <4>1, LogAssumption DEF Content
        <3>2. CASE i # tail + 1
            <4>1. buf'[lh[i]] = buf[lh[i]] /\ disk'[lh[i]] = disk[lh[i]] /\ lh' = lh
                BY <1>0, <1>8, <2>1, <2>2, <3>2
            <4> QED
                BY <2>4, <4>1 DEF Content
        <3> QED
            BY <3>1, <3>2
    <2> QED
        BY <1>0, <2>1, <2>3, <2>4
<1>9. ASSUME NEW p \in Procs, install_trans(p) PROVE CopyInv'
    <2>1. boot' = "up" /\ UNCHANGED <<lh, logblk>> /\ pc[p] = "install_trans"
        BY <1>9 DEF install_trans, Running
    <2>2. /\ tail <= Len(lh)
          /\ \A i \in 1..Len(lh) : logblk[i] = Content(lh[i])
          /\ \A i \in 1..tail : disk[lh[i]] = logblk[i]
        BY <2>1 DEF CopyInv
    <2>3. CASE install_block(FALSE) /\ UNCHANGED pc
        <3>1. \A q \in Procs : pc'[q] \in CommitPCs => pc'[q] = "install_trans"
            BY <1>0, <1>1, <2>1, <2>3
        <3> QED
            BY <1>0, <1>8, <2>1, <2>2, <2>3, <3>1 DEF CopyInv
    <2>4. CASE /\ tail = Len(lh)
               /\ pc' = [pc EXCEPT ![p] = "clear"]
               /\ UNCHANGED <<disk, buf, pin, tail>>
        <3>1. \A q \in Procs : pc'[q] \in CommitPCs => pc'[q] = "clear"
            BY <1>0, <1>1, <2>1, <2>4
        <3> QED
            BY <1>0, <2>1, <2>2, <2>4, <3>1 DEF CopyInv
    <2> QED
        BY <1>9, <2>3, <2>4 DEF install_trans
<1>10. ASSUME NEW p \in Procs, clear(p) PROVE CopyInv'
    <2>1. boot' = "up" /\ \A q \in Procs : pc'[q] \in CommitPCs => pc'[q] = "end_commit"
        BY <1>0, <1>1, <1>10 DEF clear, Running
    <2> QED
        BY <2>1 DEF CopyInv
<1>11. ASSUME NEW p \in Procs, end_commit(p) PROVE CopyInv'
    <2>1. boot' = "up" /\ \A q \in Procs : pc'[q] \notin CommitPCs
        BY <1>0, <1>1, <1>11 DEF end_commit, Running, wakeup
    <2> QED
        BY <2>1 DEF CopyInv
<1>12. ASSUME NEW b \in Blocks, bread(b) \/ bget_recycle(b) PROVE CopyInv'
    <2>1. UNCHANGED <<disk, logblk, lh, tail, pc, boot>>
        BY <1>12 DEF bread, bget_recycle, dvars
    <2>2. /\ boot = "up"
          /\ \/ buf[b] = Absent /\ buf' = [buf EXCEPT ![b] = disk[b]]
             \/ buf[b] = disk[b] /\ buf' = [buf EXCEPT ![b] = Absent]
        BY <1>12 DEF bread, bget_recycle, PinInv, Running
    <2>3. \A x \in Blocks : Content(x)' = Content(x)
        BY <1>0, <2>1, <2>2 DEF Content
    <2>4. \A i \in 1..Len(lh) : Content(lh[i])' = Content(lh[i])
        BY <1>0, <2>1, <2>3
    <2>5. ASSUME NEW q \in Procs, pc[q] = "write_log"
          PROVE  tail <= Len(lh) /\ \A i \in 1..tail : logblk[i] = Content(lh[i])'
        BY <1>0, <2>4, <2>5 DEF CopyInv
    <2>6. ASSUME NEW q \in Procs, pc[q] \in {"write_head", "install_trans"}
          PROVE  \A i \in 1..Len(lh) : logblk[i] = Content(lh[i])'
        BY <1>0, <2>4, <2>6 DEF CopyInv
    <2> QED
        BY <1>0, <2>1, <2>2, <2>5, <2>6 DEF CopyInv
<1>13. ASSUME read_head PROVE CopyInv'
    BY <1>0, <1>13 DEF read_head, CommitterInv, CopyInv
<1>14. ASSUME recover_install PROVE CopyInv'
    <2>1. /\ boot = "install_trans" /\ UNCHANGED <<lh, logblk, pc>>
          /\ \A q \in Procs : pc[q] = "idle"
        BY <1>14 DEF recover_install, CommitterInv
    <2>2. tail <= Len(lh) /\ \A i \in 1..tail : disk[lh[i]] = logblk[i]
        BY <2>1 DEF CopyInv
    <2>3. CASE install_block(TRUE) /\ UNCHANGED boot
        BY <1>0, <1>8, <2>1, <2>2, <2>3 DEF CopyInv
    <2>4. CASE tail = Len(lh) /\ boot' = "clear" /\ UNCHANGED <<disk, buf, pin, tail>>
        BY <1>0, <2>1, <2>2, <2>4 DEF CopyInv
    <2> QED
        BY <1>14, <2>3, <2>4 DEF recover_install
<1>15. ASSUME recover_clear \/ Crash PROVE CopyInv'
    <2>1. boot' \in {"up", "read_head"} /\ \A q \in Procs : pc'[q] = "idle"
        BY <1>15 DEF recover_clear, Crash, CommitterInv
    <2> QED
        BY <2>1 DEF CopyInv
<1> QED
    BY <1>2, <1>3, <1>4, <1>5, <1>6, <1>7, <1>9, <1>10, <1>11, <1>12, <1>13, <1>14, <1>15
       DEF Next, Step, Recover

-----------------------------------------------------------------------------
InstallPCs == {"install_trans", "clear"}

\* A step that leaves the open transaction alone and nobody's place in the
\* installing part of commit() leaves the same blocks unsaved.
LEMMA SameUnsaved ==
    ASSUME UNCHANGED <<lh, boot>>,
           \A q \in Procs : pc[q] \in InstallPCs \/ pc'[q] \in InstallPCs => pc'[q] = pc[q],
           (\E q \in Procs : pc[q] = "install_trans") => UNCHANGED tail,
           NEW b \in Blocks
    PROVE  Unsaved(b)' <=> Unsaved(b)
<1>1. ASSUME Unsaved(b) PROVE Unsaved(b)'
    <2>1. PICK i \in 1..Len(lh) :
              lh[i] = b /\ \A q \in Procs : (pc[q] = "install_trans" => i > tail) /\ pc[q] # "clear"
        BY <1>1 DEF Unsaved
    <2>2. \A q \in Procs : (pc'[q] = "install_trans" => i > tail') /\ pc'[q] # "clear"
        BY <2>1 DEF InstallPCs
    <2> QED
        BY <1>1, <2>1, <2>2 DEF Unsaved
<1>2. ASSUME Unsaved(b)' PROVE Unsaved(b)
    <2>1. PICK i \in 1..Len(lh) :
              lh[i] = b /\ \A q \in Procs : (pc'[q] = "install_trans" => i > tail') /\ pc'[q] # "clear"
        BY <1>2 DEF Unsaved
    <2>2. \A q \in Procs : (pc[q] = "install_trans" => i > tail) /\ pc[q] # "clear"
        BY <2>1 DEF InstallPCs
    <2> QED
        BY <1>2, <2>1, <2>2 DEF Unsaved
<1> QED
    BY <1>1, <1>2

\* The pins of log.c, preserved by every action.
LEMMA PinNext == TypeOK /\ CommitterInv /\ HeaderInv /\ CopyInv /\ PinInv /\ Next => PinInv'
<1> SUFFICES ASSUME TypeOK, CommitterInv, HeaderInv, CopyInv, PinInv, Next PROVE PinInv'
    OBVIOUS
<1>0. /\ pc \in [Procs -> PCs] /\ committing \in {0, 1}
      /\ lh \in Seq(Blocks) /\ Len(lh) \in Nat /\ Len(lh) <= LOGSIZE
      /\ buf \in [Blocks -> Vals \cup {Absent}] /\ disk \in [Blocks -> Vals]
      /\ pin \in [Blocks -> Int]
      /\ logblk \in [1..LOGSIZE -> Vals] /\ tail \in Nat /\ LOGSIZE \in Nat
      /\ Absent \notin Vals
    BY LogAssumption DEF TypeOK
<1> USE DEF CommitPCs
<1>1. ASSUME NEW p \in Procs, pc[p] \in CommitPCs
      PROVE  \A q \in Procs : q # p => pc[q] \notin CommitPCs
    BY <1>1 DEF CommitterInv
<1>2. ASSUME UNCHANGED <<disk, buf, pin>>, boot # "panic",
             \A b \in Blocks : Unsaved(b)' <=> Unsaved(b)
      PROVE  PinInv'
    BY <1>2 DEF PinInv
<1>3. ASSUME NEW p \in Procs, begin_op(p) PROVE PinInv'
    <2>1. UNCHANGED <<disk, buf, pin, lh, boot, tail>> /\ boot # "panic"
        BY <1>3 DEF begin_op, dvars, Running
    <2>2. \A q \in Procs : pc[q] \in InstallPCs \/ pc'[q] \in InstallPCs => pc'[q] = pc[q]
        BY <1>0, <1>3 DEF begin_op, InstallPCs
    <2>3. \A b \in Blocks : Unsaved(b)' <=> Unsaved(b)
        BY <2>1, <2>2, SameUnsaved
    <2> QED
        BY <1>2, <2>1, <2>3
<1>4. ASSUME NEW p \in Procs, NEW b \in Blocks, NEW v \in Vals, log_write(p, b, v)
      PROVE  PinInv'
    <2>1. /\ boot = "up" /\ UNCHANGED <<disk, pc>>
          /\ \A q \in Procs : pc[q] \notin CommitPCs
          /\ buf' = [buf EXCEPT ![b] = v]
        BY <1>0, <1>4 DEF log_write, Running, CommitterInv, dvars
    <2>2. \A x \in Blocks : Unsaved(x) <=> x \in Named(lh)
        BY <1>0, <2>1 DEF Unsaved, Named
    <2>3. boot' = "up" => \A x \in Blocks : Unsaved(x)' <=> x \in Named(lh')
        BY <1>0, <2>1 DEF Unsaved, Named
    <2>4. CASE boot' = "panic"
        BY <2>4 DEF PinInv
    <2>5. CASE boot' = "up" /\ b \in Named(lh)
        <3>1. UNCHANGED <<lh, pin>>
            BY <1>4, <2>5 DEF log_write
        <3>2. \A x \in Blocks : Unsaved(x)' <=> Unsaved(x)
            BY <2>2, <2>3, <2>5, <3>1
        <3> QED
            BY <1>0, <2>1, <2>2, <2>5, <3>1, <3>2 DEF PinInv
    <2>6. CASE boot' = "up" /\ b \notin Named(lh)
        <3>1. lh' = Append(lh, b) /\ pin' = [pin EXCEPT ![b] = @ + 1]
            BY <1>4, <2>6 DEF log_write
        <3>2. \A x \in Blocks : x \in Named(lh') <=> x \in Named(lh) \/ x = b
            <4>1. /\ Len(lh') = Len(lh) + 1 /\ lh'[Len(lh) + 1] = b
                  /\ \A i \in 1..Len(lh) : lh'[i] = lh[i]
                BY <1>0, <3>1
            <4>2. \A i \in 1..Len(lh') : i \in 1..Len(lh) \/ i = Len(lh) + 1
                BY <1>0, <4>1
            <4>3. \A i \in 1..Len(lh) : i \in 1..Len(lh')
                BY <1>0, <4>1
            <4>4. Len(lh) + 1 \in 1..Len(lh')
                BY <1>0, <4>1
            <4> QED
                BY <4>1, <4>2, <4>3, <4>4 DEF Named
        <3>3. \A x \in Blocks : Unsaved(x)' <=> Unsaved(x) \/ x = b
            BY <2>2, <2>3, <2>6, <3>2
        <3>4. pin'[b] = 1 /\ buf'[b] # Absent /\ Unsaved(b)'
            BY <1>0, <2>1, <2>2, <2>6, <3>1, <3>3 DEF PinInv
        <3>5. \A x \in Blocks \ {b} : pin'[x] = pin[x] /\ buf'[x] = buf[x]
            BY <1>0, <2>1, <3>1
        <3> QED
            BY <2>1, <2>6, <3>3, <3>4, <3>5 DEF PinInv
    <2> QED
        BY <1>4, <2>1, <2>4, <2>5, <2>6 DEF log_write
<1>5. ASSUME NEW p \in Procs, end_op(p) PROVE PinInv'
    <2>1. UNCHANGED <<disk, buf, pin, lh, boot, tail>> /\ boot # "panic"
        BY <1>0, <1>5 DEF end_op, dvars, Running, CommitterInv
    <2>2. \A q \in Procs : pc[q] \in InstallPCs \/ pc'[q] \in InstallPCs => pc'[q] = pc[q]
        BY <1>0, <1>5 DEF end_op, wakeup, InstallPCs
    <2>3. \A b \in Blocks : Unsaved(b)' <=> Unsaved(b)
        BY <2>1, <2>2, SameUnsaved
    <2> QED
        BY <1>2, <2>1, <2>3
<1>6. ASSUME NEW p \in Procs, commit(p) PROVE PinInv'
    <2>1. UNCHANGED <<disk, buf, pin, lh, boot>> /\ boot # "panic"
        BY <1>6 DEF commit, dvars, Running
    <2>2. \A q \in Procs : pc[q] \in InstallPCs \/ pc'[q] \in InstallPCs => pc'[q] = pc[q]
        BY <1>0, <1>6 DEF commit, InstallPCs
    <2>3. \A q \in Procs : pc[q] # "install_trans"
        BY <1>0, <1>1, <1>6 DEF commit
    <2>4. \A b \in Blocks : Unsaved(b)' <=> Unsaved(b)
        BY <2>1, <2>2, <2>3, SameUnsaved
    <2> QED
        BY <1>2, <2>1, <2>4
<1>7. ASSUME NEW p \in Procs, write_log(p) PROVE PinInv'
    <2>1. UNCHANGED <<disk, pin, lh, boot>> /\ boot = "up" /\ pc[p] = "write_log"
        BY <1>7 DEF write_log, Running
    <2>2. \A q \in Procs : pc[q] \in InstallPCs \/ pc'[q] \in InstallPCs => pc'[q] = pc[q]
        BY <1>0, <1>7 DEF write_log, InstallPCs
    <2>3. \A q \in Procs : pc[q] # "install_trans" /\ pc[q] # "clear"
        BY <1>0, <1>1, <2>1
    <2>4. \A b \in Blocks : Unsaved(b)' <=> Unsaved(b)
        BY <2>1, <2>2, <2>3, SameUnsaved
    <2>5. buf' = buf
        <3>1. CASE tail < Len(lh)
            <4>1. Unsaved(lh[tail + 1]) /\ lh[tail + 1] \in Blocks
                BY <1>0, <2>1, <2>3, <3>1 DEF Unsaved
            <4>2. Content(lh[tail + 1]) = buf[lh[tail + 1]]
                BY <2>1, <4>1 DEF PinInv, Content
            <4> QED
                BY <1>0, <1>7, <3>1, <4>1, <4>2 DEF write_log
        <3>2. CASE ~(tail < Len(lh))
            BY <1>7, <3>2 DEF write_log
        <3> QED
            BY <3>1, <3>2
    <2> QED
        BY <1>2, <2>1, <2>4, <2>5
<1>8. ASSUME NEW p \in Procs, write_head(p) PROVE PinInv'
    <2>1. /\ UNCHANGED <<disk, pin, buf, lh, boot>> /\ boot = "up" /\ tail' = 0
          /\ pc[p] = "write_head" /\ pc' = [pc EXCEPT ![p] = "install_trans"]
        BY <1>8 DEF write_head, Running
    <2>2. \A q \in Procs : /\ pc[q] # "install_trans" /\ pc[q] # "clear"
                            /\ pc'[q] # "clear"
        BY <1>0, <1>1, <2>1
    <2>3. \A b \in Blocks : Unsaved(b)' <=> Unsaved(b)
        BY <1>0, <2>1, <2>2 DEF Unsaved
    <2> QED
        BY <1>2, <2>1, <2>3
<1>9. ASSUME NEW p \in Procs, install_trans(p) PROVE PinInv'
    <2>1. boot = "up" /\ UNCHANGED <<lh, boot>> /\ pc[p] = "install_trans"
        BY <1>9 DEF install_trans, Running
    <2>2. \A q \in Procs : q # p => pc[q] # "install_trans" /\ pc[q] # "clear"
        BY <1>0, <1>1, <2>1
    <2>3. \A x \in Blocks : Unsaved(x) <=> \E i \in 1..Len(lh) : lh[i] = x /\ i > tail
        BY <2>1, <2>2 DEF Unsaved
    <2>4. CASE install_block(FALSE) /\ UNCHANGED pc
        <3>0. PICK b \in Blocks : b = lh[tail + 1]
            BY <1>0, <2>4 DEF install_block
        <3>1. /\ tail < Len(lh) /\ tail' = tail + 1
              /\ disk' = [disk EXCEPT ![b] = logblk[tail + 1]]
              /\ buf' = [buf EXCEPT ![b] = logblk[tail + 1]]
              /\ pin' = [pin EXCEPT ![b] = @ - 1]
            BY <2>4, <3>0 DEF install_block
        <3>2. Unsaved(b)
            BY <1>0, <2>3, <3>0, <3>1
        <3>3. \A x \in Blocks : Unsaved(x)' <=> \E i \in 1..Len(lh) : lh[i] = x /\ i > tail + 1
            BY <2>1, <2>2, <2>4, <3>1 DEF Unsaved
        <3>4. \A i \in 1..Len(lh) : lh[i] = b => i = tail + 1
            BY <1>0, <3>0, <3>1 DEF HeaderInv, Injective
        <3>5. ~Unsaved(b)'
            BY <1>0, <3>3, <3>4
        <3>6. \A x \in Blocks : x # b => (Unsaved(x)' <=> Unsaved(x))
            BY <1>0, <2>3, <3>0, <3>1, <3>3
        <3>7. pin'[b] = 0 /\ buf'[b] = disk'[b]
            BY <1>0, <2>1, <3>1, <3>2 DEF PinInv
        <3>8. \A x \in Blocks : x # b => pin'[x] = pin[x] /\ buf'[x] = buf[x] /\ disk'[x] = disk[x]
            BY <1>0, <3>1
        <3> QED
            BY <2>1, <3>5, <3>6, <3>7, <3>8 DEF PinInv
    <2>5. CASE /\ tail = Len(lh)
               /\ pc' = [pc EXCEPT ![p] = "clear"]
               /\ UNCHANGED <<disk, buf, pin, tail>>
        <3>1. \A x \in Blocks : ~Unsaved(x)
            BY <1>0, <2>3, <2>5
        <3>2. \A x \in Blocks : ~Unsaved(x)'
            BY <1>0, <2>5 DEF Unsaved
        <3> QED
            BY <1>2, <2>1, <2>5, <3>1, <3>2
    <2> QED
        BY <1>9, <2>4, <2>5 DEF install_trans
<1>10. ASSUME NEW p \in Procs, clear(p) PROVE PinInv'
    <2>1. UNCHANGED <<disk, buf, pin>> /\ boot # "panic" /\ lh' = <<>> /\ pc[p] = "clear"
        BY <1>10 DEF clear, clear_head, Running
    <2>2. \A b \in Blocks : ~Unsaved(b) /\ ~Unsaved(b)'
        BY <2>1 DEF Unsaved
    <2> QED
        BY <1>2, <2>1, <2>2
<1>11. ASSUME NEW p \in Procs, end_commit(p) PROVE PinInv'
    <2>1. UNCHANGED <<disk, buf, pin, lh>> /\ boot # "panic" /\ lh = <<>>
        BY <1>11 DEF end_commit, dvars, Running, HeaderInv
    <2>2. \A b \in Blocks : ~Unsaved(b) /\ ~Unsaved(b)'
        BY <2>1 DEF Unsaved
    <2> QED
        BY <1>2, <2>1, <2>2
<1>12. ASSUME NEW b \in Blocks, bread(b) \/ bget_recycle(b) PROVE PinInv'
    <2>1. UNCHANGED <<disk, pin, lh, tail, pc, boot>> /\ boot = "up"
        BY <1>12 DEF bread, bget_recycle, dvars, Running
    <2>2. \A x \in Blocks : Unsaved(x)' <=> Unsaved(x)
        BY <2>1, SameUnsaved DEF Unsaved
    <2>3. ~Unsaved(b) /\ buf'[b] \in {Absent, disk[b]}
        BY <1>0, <1>12, <2>1 DEF bread, bget_recycle, PinInv
    <2>4. \A x \in Blocks : x # b => buf'[x] = buf[x]
        BY <1>0, <1>12 DEF bread, bget_recycle
    <2> QED
        BY <2>1, <2>2, <2>3, <2>4 DEF PinInv
<1>13. ASSUME read_head PROVE PinInv'
    BY <1>13 DEF read_head, PinInv, Unsaved, dvars
<1>14. ASSUME recover_install PROVE PinInv'
    <2>1. boot = "install_trans" /\ boot' \in {"install_trans", "clear"}
        BY <1>14 DEF recover_install
    <2>2. \A x \in Blocks : ~Unsaved(x) /\ ~Unsaved(x)'
        BY <2>1 DEF Unsaved
    <2>3. CASE install_block(TRUE)
        <3>1. /\ disk' = [disk EXCEPT ![lh[tail + 1]] = logblk[tail + 1]]
              /\ buf' = [buf EXCEPT ![lh[tail + 1]] = logblk[tail + 1]]
              /\ pin' = pin
            BY <2>3 DEF install_block
        <3>2. \A x \in Blocks : buf'[x] \in {Absent, disk'[x]}
            BY <1>0, <2>1, <2>2, <3>1 DEF PinInv
        <3> QED
            BY <2>1, <2>2, <3>1, <3>2 DEF PinInv
    <2>4. CASE UNCHANGED <<disk, buf, pin, tail>>
        BY <1>2, <2>1, <2>2, <2>4
    <2> QED
        BY <1>14, <2>3, <2>4 DEF recover_install
<1>15. ASSUME recover_clear PROVE PinInv'
    <2>1. UNCHANGED <<disk, buf, pin>> /\ boot = "clear" /\ lh' = <<>>
        BY <1>15 DEF recover_clear, clear_head
    <2>2. \A b \in Blocks : ~Unsaved(b) /\ ~Unsaved(b)'
        BY <2>1 DEF Unsaved
    <2> QED
        BY <1>2, <2>1, <2>2
<1>16. ASSUME Crash PROVE PinInv'
    BY <1>16 DEF Crash, PinInv, Unsaved
<1> QED
    BY <1>3, <1>4, <1>5, <1>6, <1>7, <1>8, <1>9, <1>10, <1>11, <1>12, <1>13, <1>14, <1>15,
       <1>16 DEF Next, Step, Recover

-----------------------------------------------------------------------------
\* The state the machine powers up in satisfies LogInv.
LEMMA LogInvInit == Init => LogInv
<1> SUFFICES ASSUME Init PROVE LogInv
    OBVIOUS
<1>1. {p \in Procs : pc[p] = "inop"} = {}
    BY DEF Init
<1>2. CommitterInv
    <2>1. Cardinality({p \in Procs : pc[p] = "inop"}) = 0
        BY <1>1, FS_EmptySet
    <2> QED
        BY <2>1 DEF Init, CommitterInv, CommitPCs
<1>3. HeaderInv /\ CopyInv
    BY DEF Init, HeaderInv, CopyInv, Injective, Running
<1>4. PinInv
    BY DEF Init, PinInv, Unsaved
<1> QED
    BY <1>2, <1>3, <1>4, TypeInit DEF LogInv

\* Every step of log.c, of the cache and of recovery preserves LogInv.
LEMMA LogInvNext == LogInv /\ [Next]_vars => LogInv'
<1> SUFFICES ASSUME LogInv, [Next]_vars PROVE LogInv'
    OBVIOUS
<1>1. CASE Next
    BY <1>1, TypeNext, CommitterNext, HeaderNext, CopyNext, PinNext DEF LogInv
<1>2. CASE UNCHANGED vars
    <2>1. TypeOK'
        BY TypeNext DEF LogInv
    <2>2. CommitterInv'
        BY <1>2 DEF vars, LogInv, CommitterInv
    <2>3. HeaderInv'
        BY <1>2 DEF vars, LogInv, HeaderInv, Running, Injective
    <2>4. CopyInv'
        BY <1>2 DEF vars, LogInv, CopyInv, Content
    <2>5. \A b \in Blocks : Unsaved(b)' <=> Unsaved(b)
        BY <1>2 DEF vars, Unsaved
    <2>6. PinInv'
        BY <1>2, <2>5 DEF vars, LogInv, PinInv
    <2> QED
        BY <2>1, <2>2, <2>3, <2>4, <2>6 DEF LogInv
<1> QED
    BY <1>1, <1>2

\* At every step of commit() and recovery the header, the log blocks, the home
\* blocks and the pinned buffers agree, whatever the sizes of the system.
THEOREM LogInvariant == Spec => []LogInv
BY LogInvInit, LogInvNext, PTL DEF Spec

\* The state of log.c stays well typed.
THEOREM LogTypeOK == Spec => []TypeOK
BY LogInvariant, PTL DEF LogInv

\* A buffer that bget may recycle never holds a write the disk lacks.
THEOREM RecyclableCorrect == Spec => []RecyclableIsClean
<1>1. LogInv => RecyclableIsClean
    BY DEF LogInv, PinInv, RecyclableIsClean, Running
<1> QED
    BY <1>1, LogInvariant, PTL

\* Once end_op has finished the commit, a crash loses nothing.
THEOREM QuiescentCorrect == Spec => []QuiescentDurable
<1>1. LogInv => QuiescentDurable
    <2> SUFFICES ASSUME LogInv, Running, outstanding = 0, committing = 0
                 PROVE  Recovered = Visible
        BY DEF QuiescentDurable
    <2>1. lh = <<>> /\ dhead = <<>>
        BY DEF LogInv, HeaderInv, CommitterInv, CommitPCs, Running
    <2>2. \A b \in Blocks : Content(b) = disk[b]
        BY <2>1 DEF LogInv, PinInv, Unsaved, Running, Content
    <2>3. Recovered = [b \in Blocks |-> disk[b]]
        BY <2>1 DEF Recovered, Named
    <2> QED
        BY <2>2, <2>3 DEF Visible, Running
<1> QED
    BY <1>1, LogInvariant, PTL

-----------------------------------------------------------------------------
\* outstanding is never negative.
LEMMA OutstandingNat == LogInv => outstanding \in Int /\ outstanding >= 0
<1> SUFFICES ASSUME LogInv PROVE outstanding \in Int /\ outstanding >= 0
    OBVIOUS
<1>1. Cardinality({p \in Procs : pc[p] = "inop"}) \in Nat
    BY InOpFinite DEF InOp
<1> QED
    BY <1>1 DEF LogInv, CommitterInv

\* Every step leaves a sleeper of begin_op something to wait for: end_op and
\* commit wake the sleepers when they leave nothing.
LEMMA SleeperNext == LogInv /\ SleeperHasWaker /\ [Next]_vars /\ LogInv' => SleeperHasWaker'
<1> SUFFICES ASSUME LogInv, SleeperHasWaker, [Next]_vars, LogInv',
                    NEW q \in Procs, boot' = "up", pc'[q] = "asleep"
             PROVE  outstanding' > 0 \/ committing' = 1
    BY DEF SleeperHasWaker, Running
<1>0. /\ TypeOK /\ CommitterInv /\ HeaderInv
      /\ outstanding \in Int /\ outstanding >= 0 /\ outstanding' >= 0
      /\ pc \in [Procs -> PCs] /\ committing \in {0, 1}
    <2>1. (LogInv => outstanding \in Int /\ outstanding >= 0)'
        BY OutstandingNat, PTL
    <2> QED
        BY <2>1, OutstandingNat DEF LogInv, TypeOK
<1>1. ASSUME UNCHANGED <<outstanding, committing>>, boot = "up", pc[q] = "asleep"
      PROVE  outstanding' > 0 \/ committing' = 1
    BY <1>1 DEF SleeperHasWaker, Running
<1>2. ASSUME NEW p \in Procs, begin_op(p) PROVE outstanding' > 0 \/ committing' = 1
    <2>1. CASE MustWait /\ UNCHANGED outstanding
        <3>1. committing' = committing /\ boot = "up"
            BY <1>2 DEF begin_op, Running
        <3>2. CASE outstanding = 0 /\ committing = 0
            <4>1. Len(lh) = 0
                BY <1>0, <3>1, <3>2 DEF HeaderInv, Running
            <4> QED
                BY <2>1, <3>2, <4>1, LogAssumption DEF MustWait
        <3> QED
            BY <1>0, <2>1, <3>1, <3>2
    <2>2. CASE outstanding' = outstanding + 1
        BY <1>0, <2>2
    <2> QED
        BY <1>2, <2>1, <2>2 DEF begin_op
<1>3. ASSUME NEW p \in Procs, end_op(p) PROVE outstanding' > 0 \/ committing' = 1
    BY <1>0, <1>3 DEF end_op
<1>4. ASSUME NEW p \in Procs, end_commit(p) PROVE outstanding' > 0 \/ committing' = 1
    BY <1>0, <1>4 DEF end_commit, wakeup
<1>5. ASSUME NEW p \in Procs,
             \/ \E b \in Blocks, v \in Vals : log_write(p, b, v)
             \/ commit(p) \/ write_log(p) \/ write_head(p) \/ install_trans(p) \/ clear(p)
      PROVE  outstanding' > 0 \/ committing' = 1
    BY <1>0, <1>1, <1>5
       DEF log_write, commit, write_log, write_head, install_trans, clear, Running
<1>6. ASSUME NEW b \in Blocks, bread(b) \/ bget_recycle(b)
      PROVE  outstanding' > 0 \/ committing' = 1
    BY <1>1, <1>6 DEF bread, bget_recycle
<1>7. ASSUME Recover \/ Crash PROVE FALSE
    BY <1>0, <1>7
       DEF Recover, read_head, recover_install, recover_clear, Crash, CommitterInv
<1>8. CASE UNCHANGED vars
    BY <1>1, <1>8 DEF vars
<1> QED
    BY <1>2, <1>3, <1>4, <1>5, <1>6, <1>7, <1>8 DEF Next, Step

\* No process is left asleep in begin_op without an operation or a commit that
\* will call wakeup(&log).  The reservation of MAXOPBLOCKS alone never puts a
\* process to sleep: when nothing is open, commit() has emptied the log.
THEOREM SleeperCorrect == Spec => []SleeperHasWaker
<1>1. Init => SleeperHasWaker
    BY DEF Init, SleeperHasWaker, Running
<1> QED
    BY <1>1, SleeperNext, LogInvariant, PTL DEF Spec
=============================================================================
