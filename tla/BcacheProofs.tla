---------------------------- MODULE BcacheProofs ----------------------------
(***************************************************************************)
(* Proofs about Bcache: for any number of processes, blocks and buffers    *)
(* (one for every process and every pin), refcnt counts the users of a     *)
(* buffer of kernel/bio.c, and bget finds a buffer.                        *)
(***************************************************************************)
EXTENDS Bcache, FiniteSetTheorems, WellFoundedInduction, TLAPS

TypeOK ==
    /\ lru \in [Bufs -> Bufs]
    /\ blockno \in [Bufs -> Blocks \cup {NoBlock}]
    /\ valid \in [Bufs -> {0, 1}]
    /\ refcnt \in [Bufs -> Int]
    /\ data \in [Bufs -> Vals \cup {NoVal}]
    /\ lock \in [Bufs -> Procs \cup {Nobody}]
    /\ pinned \in SUBSET Bufs
    /\ disk \in [Blocks -> Vals]
    /\ pc \in [Procs -> {"idle", "acquire", "asleep", "woken", "got", "read", "have",
                         "dirty", "written", "released"}]
    /\ want \in [Procs -> Blocks \cup {NoBlock}]
    /\ buf \in [Procs -> Bufs \cup {0}]

\* The list holds every buffer.
ListInv == \A b \in Bufs : \E j \in Bufs : lru[j] = b

\* A process between bget and brelse has a buffer of the block it asked for.
UserInv ==
    \A p \in Procs : IF pc[p] = "idle" THEN buf[p] = 0 /\ want[p] = NoBlock
                     ELSE buf[p] \in Bufs /\ want[p] \in Blocks /\ blockno[buf[p]] = want[p]

Holding(p) == pc[p] \in {"got", "read", "have", "dirty", "written"}

\* The lock of a buffer is held by one of its users; sleepers wait for a holder.
LockInv ==
    /\ \A p \in Procs : Holding(p) => lock[buf[p]] = p
    /\ \A b \in Bufs : lock[b] # Nobody => Holding(lock[b]) /\ buf[lock[b]] = b
    /\ \A p \in Procs : pc[p] = "asleep" => lock[buf[p]] # Nobody

Users(b) == {p \in Procs : buf[p] = b}

CountInv ==
    /\ \A b \in Bufs : refcnt[b] = Cardinality(Users(b)) + IF b \in pinned THEN 1 ELSE 0
    /\ Cardinality(pinned) <= MaxPins

\* A block has at most one buffer.
UniqueInv == \A b, c \in Bufs : blockno[b] = blockno[c] /\ blockno[b] # NoBlock => b = c

\* A valid buffer differs from the disk only while it is pinned or its holder has
\* changed it.
DataInv ==
    /\ \A b \in Bufs : valid[b] = 1 => blockno[b] \in Blocks /\ data[b] \in Vals
    /\ \A b \in pinned : valid[b] = 1
    /\ \A p \in Procs : Using(p) => valid[buf[p]] = 1
    /\ \A p \in Procs : pc[p] = "read" => valid[buf[p]] = 0
    /\ \A p \in Procs : pc[p] \in {"read", "written"} => data[buf[p]] = disk[blockno[buf[p]]]
    /\ \A b \in Bufs : valid[b] = 1 /\ b \notin pinned /\ (\A p \in Users(b) : pc[p] # "dirty")
                         => data[b] = disk[blockno[b]]

BcacheInv == TypeOK /\ ListInv /\ UserInv /\ LockInv /\ CountInv /\ UniqueInv /\ DataInv

-----------------------------------------------------------------------------
(* Sets of users.                                                            *)

\* The users of a buffer, and the pinned buffers, are finitely many.
LEMMA FiniteUsers ==
    ASSUME NEW b PROVE IsFiniteSet(Users(b)) /\ Cardinality(Users(b)) \in Nat
<1>1. Users(b) \in SUBSET Procs
    BY DEF Users
<1> QED
    BY <1>1, FS_Subset, FS_CardinalityType, BcacheAssumption

\* There are finitely many buffers.
LEMMA FiniteBufs ==
    ASSUME NEW S \in SUBSET Bufs PROVE IsFiniteSet(S) /\ Cardinality(S) \in Nat
<1>1. IsFiniteSet(Bufs)
    BY FS_Interval, BcacheAssumption DEF Bufs
<1> QED
    BY <1>1, FS_Subset, FS_CardinalityType

\* A buffer with refcnt 0 is nobody's (bget may recycle it).
LEMMA Unreferenced ==
    ASSUME TypeOK, CountInv, NEW b \in Bufs, refcnt[b] = 0
    PROVE  Users(b) = {} /\ b \notin pinned
<1>1. Cardinality(Users(b)) = 0 /\ b \notin pinned
    BY FiniteUsers DEF CountInv
<1> QED
    BY <1>1, FiniteUsers, FS_EmptySet

\* The buffer that bget recycles is one with refcnt 0.
LEMMA Recycled ==
    ASSUME TypeOK, Unused # {} PROVE LRU \in Bufs /\ refcnt[LRU] = 0
<1> DEFINE T == {NBUF - j : j \in Unused}
           Less == {ss \in Nat \X Nat : ss[1] < ss[2]}
<1>1. \A j \in Unused : j \in Bufs /\ j \in Int /\ NBUF - j \in Nat /\ refcnt[lru[j]] = 0
    BY BcacheAssumption DEF Unused, Bufs
<1>2. T \subseteq Nat /\ T # {}
    BY <1>1
<1>3. PICK x \in T : \A y \in T : <<y, x>> \notin Less
    <2> HIDE DEF T, Less
    <2>1. IsWellFoundedOn(Less, Nat)
        BY NatLessThanWellFounded DEF Less, OpToRel
    <2> QED
        BY <1>2, <2>1, WFMin
<1>4. \A y \in T : ~(y < x)
    <2> SUFFICES ASSUME NEW y \in T, y < x PROVE FALSE
        OBVIOUS
    <2> HIDE DEF T
    <2>1. y \in Nat /\ x \in Nat
        BY <1>2
    <2>2. <<y, x>> \in Less
        BY <2>1
    <2> QED
        BY <1>3, <2>2
<1>5. PICK j \in Unused : x = NBUF - j
    OBVIOUS
<1>6. \A m \in Unused : m <= j
    <2> SUFFICES ASSUME NEW m \in Unused PROVE m <= j
        OBVIOUS
    <2>1. NBUF - m \in T
        OBVIOUS
    <2>2. ~(NBUF - m < NBUF - j)
        BY <1>4, <1>5, <2>1
    <2> QED
        BY <1>1, <2>2, BcacheAssumption
<1>7. \E i \in Unused : \A m \in Unused : m <= i
    BY <1>6
<1>8. PICK i \in Unused : LRU = lru[i]
    BY <1>7 DEF LRU
<1> QED
    BY <1>1, <1>8 DEF TypeOK

\* A process that gets a buffer is one more user, and one that gives it back one
\* less; nobody else's buffer changes.
LEMMA UsersChange ==
    ASSUME TypeOK, NEW p \in Procs, NEW b, buf' = [buf EXCEPT ![p] = b], buf[p] # b
    PROVE  \A c : Cardinality(Users(c)') =
                    Cardinality(Users(c)) + (IF c = b THEN 1 ELSE 0) - (IF c = buf[p] THEN 1 ELSE 0)
<1> SUFFICES ASSUME NEW c
             PROVE  Cardinality(Users(c)') =
                      Cardinality(Users(c)) + (IF c = b THEN 1 ELSE 0) - (IF c = buf[p] THEN 1 ELSE 0)
    OBVIOUS
<1>1. CASE c = b
    <2>1. Users(c)' = Users(c) \cup {p} /\ p \notin Users(c)
        BY <1>1 DEF Users, TypeOK
    <2> QED
        BY <1>1, <2>1, FiniteUsers, FS_AddElement
<1>2. CASE c = buf[p]
    <2>1. Users(c)' = Users(c) \ {p} /\ p \in Users(c)
        BY <1>2 DEF Users, TypeOK
    <2> QED
        BY <1>2, <2>1, FiniteUsers, FS_RemoveElement
<1>3. CASE c # b /\ c # buf[p]
    <2>1. Users(c)' = Users(c)
        BY <1>3 DEF Users, TypeOK
    <2> QED
        BY <1>3, <2>1, FiniteUsers
<1> QED
    BY <1>1, <1>2, <1>3

-----------------------------------------------------------------------------
(* Init and every step keep BcacheInv.                                       *)

\* binit() leaves an empty cache.
LEMMA InvInit == Init => BcacheInv
<1> SUFFICES ASSUME Init PROVE BcacheInv
    OBVIOUS
<1> USE BcacheAssumption DEF Init
<1>1. TypeOK
    BY DEF TypeOK, Bufs
<1>2. ListInv
    <2> SUFFICES ASSUME NEW b \in Bufs PROVE \E j \in Bufs : lru[j] = b
        BY DEF ListInv
    <2>1. NBUF + 1 - b \in Bufs /\ lru[NBUF + 1 - b] = b
        BY DEF Bufs
    <2> QED
        BY <2>1
<1>3. CountInv
    <2>1. \A b \in Bufs : Users(b) = {}
        BY DEF Users, Bufs
    <2>2. Cardinality({}) = 0
        BY FS_EmptySet
    <2>3. \A b \in Bufs : refcnt[b] = 0 /\ b \notin pinned /\ Cardinality(Users(b)) = 0
        BY <2>1, <2>2
    <2>4. Cardinality(pinned) <= MaxPins
        BY <2>2
    <2> QED
        BY <2>3, <2>4 DEF CountInv
<1>4. UserInv /\ LockInv /\ UniqueInv /\ DataInv
    BY DEF UserInv, LockInv, UniqueInv, DataInv, Holding, Using
<1> QED
    BY <1>1, <1>2, <1>3, <1>4 DEF BcacheInv

\* Every variable keeps its type.
LEMMA TypeStep == ASSUME BcacheInv, [Next]_vars PROVE TypeOK'
<1> USE BcacheAssumption DEF BcacheInv, TypeOK, UserInv
<1>1. ASSUME NEW p \in Procs, NEW k \in Blocks, bget_hit(p, k) PROVE TypeOK'
    BY <1>1 DEF bget_hit, Begin, goto, At, Cached
<1>2. ASSUME NEW p \in Procs, NEW k \in Blocks, bget_recycle(p, k) PROVE TypeOK'
    BY <1>2, Recycled DEF bget_recycle, Begin, goto, At, Cached
<1>3. ASSUME NEW p \in Procs, acquiresleep(p) PROVE TypeOK'
    BY <1>3 DEF acquiresleep, goto, At, bufvars
<1>4. ASSUME NEW p \in Procs, bread(p) PROVE TypeOK'
    BY <1>4 DEF bread, goto, At
<1>5. ASSUME NEW p \in Procs, bread_valid(p) PROVE TypeOK'
    BY <1>5 DEF bread_valid, goto, At
<1>6. ASSUME NEW p \in Procs, NEW v \in Vals, modify(p, v) PROVE TypeOK'
    BY <1>6 DEF modify, goto, At
<1>7. ASSUME NEW p \in Procs, bwrite(p) PROVE TypeOK'
    <2>1. buf[p] \in Bufs /\ data[buf[p]] \in Vals /\ blockno[buf[p]] \in Blocks
        BY <1>7 DEF bwrite, At, DataInv, Using
    <2> QED
        BY <1>7, <2>1 DEF bwrite, goto, At, bufvars
<1>8. ASSUME NEW p \in Procs, bpin(p) PROVE TypeOK'
    BY <1>8 DEF bpin, goto, At
<1>9. ASSUME NEW p \in Procs, bunpin(p) PROVE TypeOK'
    BY <1>9 DEF bunpin, goto, At
<1>10. ASSUME NEW p \in Procs, releasesleep(p) PROVE TypeOK'
    BY <1>10 DEF releasesleep, goto, At, bufvars
<1>11. ASSUME NEW p \in Procs, brelse(p) PROVE TypeOK'
    <2>1. buf[p] \in Bufs
        BY <1>11 DEF brelse, At
    <2>2. \A j \in Bufs : j # 1 => j - 1 \in Bufs
        BY DEF Bufs
    <2>3. ToFront(buf[p]) \in [Bufs -> Bufs]
        BY <2>1, <2>2 DEF ToFront
    <2>4. 0 \in Int /\ 1 \in Int /\ \A i \in Int : i - 1 \in Int
        OBVIOUS
    <2> QED
        BY <1>11, <2>1, <2>3, <2>4 DEF brelse, goto, At
<1>12. CASE UNCHANGED vars
    BY <1>12 DEF vars, bufvars
<1> QED
    BY <1>1, <1>2, <1>3, <1>4, <1>5, <1>6, <1>7, <1>8, <1>9, <1>10, <1>11, <1>12 DEF Next, Step

\* brelse moves a buffer to the front and keeps the others.
LEMMA ListStep == ASSUME BcacheInv, [Next]_vars PROVE ListInv'
<1> USE DEF BcacheInv, ListInv
<1>1. ASSUME NEW p \in Procs, NEW k \in Blocks, bget_hit(p, k) PROVE ListInv'
    BY <1>1 DEF bget_hit, Begin, goto, At, Cached
<1>2. ASSUME NEW p \in Procs, NEW k \in Blocks, bget_recycle(p, k) PROVE ListInv'
    BY <1>2 DEF bget_recycle, Begin, goto, At, Cached
<1>3. ASSUME NEW p \in Procs, acquiresleep(p) PROVE ListInv'
    BY <1>3 DEF acquiresleep, goto, At, bufvars
<1>4. ASSUME NEW p \in Procs, bread(p) PROVE ListInv'
    BY <1>4 DEF bread, goto, At
<1>5. ASSUME NEW p \in Procs, bread_valid(p) PROVE ListInv'
    BY <1>5 DEF bread_valid, goto, At
<1>6. ASSUME NEW p \in Procs, NEW v \in Vals, modify(p, v) PROVE ListInv'
    BY <1>6 DEF modify, goto, At
<1>7. ASSUME NEW p \in Procs, bwrite(p) PROVE ListInv'
    BY <1>7 DEF bwrite, goto, At, bufvars
<1>8. ASSUME NEW p \in Procs, bpin(p) PROVE ListInv'
    BY <1>8 DEF bpin, goto, At
<1>9. ASSUME NEW p \in Procs, bunpin(p) PROVE ListInv'
    BY <1>9 DEF bunpin, goto, At
<1>10. ASSUME NEW p \in Procs, releasesleep(p) PROVE ListInv'
    BY <1>10 DEF releasesleep, goto, At, bufvars
<1>11. ASSUME NEW p \in Procs, brelse(p) PROVE ListInv'
    <2>0. CASE refcnt[buf[p]] # 1
        BY <1>11, <2>0 DEF brelse, goto, At
    <2>1. CASE refcnt[buf[p]] = 1
        <3> DEFINE b == buf[p]
                   place == CHOOSE j \in Bufs : lru[j] = b
        <3>1. b \in Bufs
            BY <1>11 DEF brelse, goto, At, UserInv
        <3>2. place \in Bufs /\ lru[place] = b
            BY <3>1
        <3>3. lru' = [j \in Bufs |-> IF j = 1 THEN b ELSE IF j <= place THEN lru[j - 1] ELSE lru[j]]
            BY <1>11, <2>1 DEF brelse, goto, At, ToFront
        <3> HIDE DEF place, b
        <3> SUFFICES ASSUME NEW c \in Bufs PROVE \E j \in Bufs : lru'[j] = c
            OBVIOUS
        <3>4. PICK i \in Bufs : lru[i] = c
            OBVIOUS
        <3>5. CASE c = b
            <4>1. 1 \in Bufs
                BY BcacheAssumption DEF Bufs
            <4> QED
                BY <3>3, <3>5, <4>1
        <3>6. CASE c # b /\ i < place
            <4>1. i + 1 \in Bufs /\ i + 1 # 1 /\ i + 1 <= place /\ (i + 1) - 1 = i
                BY <3>2, <3>6, BcacheAssumption DEF Bufs
            <4> QED
                BY <3>3, <3>4, <4>1
        <3>7. CASE c # b /\ i > place
            <4>1. i # 1 /\ ~(i <= place)
                BY <3>2, <3>7, BcacheAssumption DEF Bufs
            <4> QED
                BY <3>3, <3>4, <4>1
        <3>8. c # b => i < place \/ i > place
            BY <3>2, <3>4, BcacheAssumption DEF Bufs
        <3> QED
            BY <3>5, <3>6, <3>7, <3>8
    <2> QED
        BY <2>0, <2>1
<1>12. CASE UNCHANGED vars
    BY <1>12 DEF vars, bufvars
<1> QED
    BY <1>1, <1>2, <1>3, <1>4, <1>5, <1>6, <1>7, <1>8, <1>9, <1>10, <1>11, <1>12 DEF Next, Step

\* A buffer in use is not recycled, so its block stays the one asked for.
LEMMA UserStep == ASSUME BcacheInv, [Next]_vars PROVE UserInv'
<1> USE BcacheAssumption DEF BcacheInv, TypeOK, UserInv
<1>1. ASSUME NEW p \in Procs, NEW k \in Blocks, bget_hit(p, k) PROVE UserInv'
    BY <1>1 DEF bget_hit, Begin, goto, At, Cached
<1>2. ASSUME NEW p \in Procs, NEW k \in Blocks, bget_recycle(p, k) PROVE UserInv'
    <2>1. LRU \in Bufs /\ Users(LRU) = {}
        BY <1>2, Recycled, Unreferenced DEF bget_recycle
    <2>2. \A q \in Procs : buf[q] # LRU
        BY <2>1 DEF Users
    <2> QED
        BY <1>2, <2>1, <2>2 DEF bget_recycle, Begin, goto, At, Cached
<1>3. ASSUME NEW p \in Procs, acquiresleep(p) PROVE UserInv'
    BY <1>3 DEF acquiresleep, goto, At, bufvars
<1>4. ASSUME NEW p \in Procs, bread(p) PROVE UserInv'
    BY <1>4 DEF bread, goto, At
<1>5. ASSUME NEW p \in Procs, bread_valid(p) PROVE UserInv'
    BY <1>5 DEF bread_valid, goto, At
<1>6. ASSUME NEW p \in Procs, NEW v \in Vals, modify(p, v) PROVE UserInv'
    BY <1>6 DEF modify, goto, At
<1>7. ASSUME NEW p \in Procs, bwrite(p) PROVE UserInv'
    BY <1>7 DEF bwrite, goto, At, bufvars
<1>8. ASSUME NEW p \in Procs, bpin(p) PROVE UserInv'
    BY <1>8 DEF bpin, goto, At
<1>9. ASSUME NEW p \in Procs, bunpin(p) PROVE UserInv'
    BY <1>9 DEF bunpin, goto, At
<1>10. ASSUME NEW p \in Procs, releasesleep(p) PROVE UserInv'
    BY <1>10 DEF releasesleep, goto, At, bufvars
<1>11. ASSUME NEW p \in Procs, brelse(p) PROVE UserInv'
    BY <1>11 DEF brelse, goto, At
<1>12. CASE UNCHANGED vars
    BY <1>12 DEF vars, bufvars
<1> QED
    BY <1>1, <1>2, <1>3, <1>4, <1>5, <1>6, <1>7, <1>8, <1>9, <1>10, <1>11, <1>12 DEF Next, Step

\* The lock is passed from holder to holder.
LEMMA LockStep == ASSUME BcacheInv, [Next]_vars PROVE LockInv'
<1> USE BcacheAssumption DEF BcacheInv, TypeOK, UserInv, LockInv, Holding
<1>1. ASSUME NEW p \in Procs, NEW k \in Blocks, bget_hit(p, k) PROVE LockInv'
    BY <1>1 DEF bget_hit, Begin, goto, At, Cached
<1>2. ASSUME NEW p \in Procs, NEW k \in Blocks, bget_recycle(p, k) PROVE LockInv'
    <2>1. LRU \in Bufs /\ Users(LRU) = {}
        BY <1>2, Recycled, Unreferenced DEF bget_recycle
    <2>2. \A q \in Procs : buf[q] # LRU
        BY <2>1 DEF Users
    <2> QED
        BY <1>2, <2>1, <2>2 DEF bget_recycle, Begin, goto, At, Cached
<1>3. ASSUME NEW p \in Procs, acquiresleep(p) PROVE LockInv'
    BY <1>3 DEF acquiresleep, goto, At, bufvars
<1>4. ASSUME NEW p \in Procs, bread(p) PROVE LockInv'
    BY <1>4 DEF bread, goto, At
<1>5. ASSUME NEW p \in Procs, bread_valid(p) PROVE LockInv'
    BY <1>5 DEF bread_valid, goto, At
<1>6. ASSUME NEW p \in Procs, NEW v \in Vals, modify(p, v) PROVE LockInv'
    BY <1>6 DEF modify, goto, At
<1>7. ASSUME NEW p \in Procs, bwrite(p) PROVE LockInv'
    BY <1>7 DEF bwrite, goto, At, bufvars
<1>8. ASSUME NEW p \in Procs, bpin(p) PROVE LockInv'
    BY <1>8 DEF bpin, goto, At
<1>9. ASSUME NEW p \in Procs, bunpin(p) PROVE LockInv'
    BY <1>9 DEF bunpin, goto, At
<1>10. ASSUME NEW p \in Procs, releasesleep(p) PROVE LockInv'
    BY <1>10 DEF releasesleep, goto, At, bufvars
<1>11. ASSUME NEW p \in Procs, brelse(p) PROVE LockInv'
    BY <1>11 DEF brelse, goto, At
<1>12. CASE UNCHANGED vars
    BY <1>12 DEF vars, bufvars
<1> QED
    BY <1>1, <1>2, <1>3, <1>4, <1>5, <1>6, <1>7, <1>8, <1>9, <1>10, <1>11, <1>12 DEF Next, Step

\* refcnt follows the users and the pins.
LEMMA CountStep == ASSUME BcacheInv, [Next]_vars PROVE CountInv'
<1> USE BcacheAssumption DEF BcacheInv, TypeOK, UserInv, CountInv
<1>0. \A b : Cardinality(Users(b)) \in Nat
    BY FiniteUsers
<1>1. ASSUME NEW p \in Procs, NEW k \in Blocks, bget_hit(p, k) PROVE CountInv'
    <2>1. PICK b \in Bufs : refcnt' = [refcnt EXCEPT ![b] = refcnt[b] + 1] /\ Begin(p, k, b)
        BY <1>1 DEF bget_hit, Cached
    <2>2. buf[p] = 0 /\ b # 0 /\ 0 \notin Bufs
        BY <1>1 DEF bget_hit, At, Bufs
    <2>3. \A c \in Bufs : Cardinality(Users(c)') = Cardinality(Users(c)) + IF c = b THEN 1 ELSE 0
        <3>1. buf' = [buf EXCEPT ![p] = b] /\ buf[p] # b /\ TypeOK
            BY <2>1, <2>2 DEF Begin
        <3>2. \A c : Cardinality(Users(c)') =
                    Cardinality(Users(c)) + (IF c = b THEN 1 ELSE 0) - (IF c = buf[p] THEN 1 ELSE 0)
            BY ONLY <3>1, UsersChange, p \in Procs
        <3> QED
            BY <2>2, <3>2, <1>0
    <2> QED
        BY <2>1, <2>3, <1>0 DEF Begin
<1>2. ASSUME NEW p \in Procs, NEW k \in Blocks, bget_recycle(p, k) PROVE CountInv'
    <2>1. LRU \in Bufs /\ refcnt[LRU] = 0 /\ Users(LRU) = {} /\ LRU \notin pinned
        BY <1>2, Recycled, Unreferenced DEF bget_recycle
    <2>2. \A q \in Procs : buf[q] # LRU
        BY <2>1 DEF Users
    <2>3. buf[p] = 0 /\ LRU # 0 /\ 0 \notin Bufs
        BY <1>2, <2>1 DEF bget_recycle, At, Bufs
    <2>4. \A c \in Bufs : Cardinality(Users(c)') = Cardinality(Users(c)) + IF c = LRU THEN 1 ELSE 0
        <3>1. buf' = [buf EXCEPT ![p] = LRU] /\ buf[p] # LRU /\ TypeOK
            BY <1>2, <2>3 DEF bget_recycle, Begin
        <3>2. \A c : Cardinality(Users(c)') =
                    Cardinality(Users(c)) + (IF c = LRU THEN 1 ELSE 0) - (IF c = buf[p] THEN 1 ELSE 0)
            BY ONLY <3>1, UsersChange, p \in Procs
        <3> QED
            BY <2>3, <3>2, <1>0
    <2>5. Cardinality(Users(LRU)) = 0
        BY <2>1, FS_EmptySet
    <2>6. refcnt' = [refcnt EXCEPT ![LRU] = 1] /\ pinned' = pinned
        BY <1>2 DEF bget_recycle, Begin
    <2> HIDE DEF LRU
    <2> QED
        BY <2>1, <2>4, <2>5, <2>6, <1>0
<1>3. ASSUME NEW p \in Procs, acquiresleep(p) PROVE CountInv'
    BY <1>3 DEF acquiresleep, goto, At, bufvars, Users
<1>4. ASSUME NEW p \in Procs, bread(p) PROVE CountInv'
    BY <1>4 DEF bread, goto, At, Users
<1>5. ASSUME NEW p \in Procs, bread_valid(p) PROVE CountInv'
    BY <1>5 DEF bread_valid, goto, At, Users
<1>6. ASSUME NEW p \in Procs, NEW v \in Vals, modify(p, v) PROVE CountInv'
    BY <1>6 DEF modify, goto, At, Users
<1>7. ASSUME NEW p \in Procs, bwrite(p) PROVE CountInv'
    BY <1>7 DEF bwrite, goto, At, bufvars, Users
<1>8. ASSUME NEW p \in Procs, bpin(p) PROVE CountInv'
    <2>1. \A c : Users(c)' = Users(c)
        BY <1>8 DEF bpin, goto, At, Users
    <2>2. CASE buf[p] \in pinned /\ UNCHANGED <<refcnt, pinned>>
        BY <2>1, <2>2
    <2>3. CASE /\ buf[p] \notin pinned /\ Cardinality(pinned) < MaxPins
               /\ refcnt' = [refcnt EXCEPT ![buf[p]] = refcnt[buf[p]] + 1]
               /\ pinned' = pinned \cup {buf[p]}
        <3>1. buf[p] \in Bufs
            BY <1>8 DEF bpin, goto, At
        <3>2. Cardinality(pinned') = Cardinality(pinned) + 1 /\ Cardinality(pinned) \in Nat
            BY <2>3, FiniteBufs, FS_AddElement
        <3>3. Cardinality(pinned') <= MaxPins
            BY <2>3, <3>2
        <3>4. \A b \in Bufs : refcnt'[b] = Cardinality(Users(b)) + IF b \in pinned' THEN 1 ELSE 0
            BY <2>3, <3>1, <1>0
        <3> QED
            BY <2>1, <3>3, <3>4
    <2> QED
        BY <1>8, <2>2, <2>3 DEF bpin
<1>9. ASSUME NEW p \in Procs, bunpin(p) PROVE CountInv'
    <2>1. \A c : Users(c)' = Users(c)
        BY <1>9 DEF bunpin, goto, At, Users
    <2>2. CASE buf[p] \notin pinned
        BY <1>9, <2>1, <2>2 DEF bunpin
    <2>3. CASE buf[p] \in pinned
        <3>1. /\ buf[p] \in Bufs
              /\ refcnt' = [refcnt EXCEPT ![buf[p]] = refcnt[buf[p]] - 1]
              /\ pinned' = pinned \ {buf[p]}
            BY <1>9, <2>3 DEF bunpin, goto, At
        <3>2. Cardinality(pinned') = Cardinality(pinned) - 1 /\ Cardinality(pinned) \in Nat
            BY <2>3, <3>1, FiniteBufs, FS_RemoveElement
        <3>3. Cardinality(pinned') <= MaxPins
            BY <3>2
        <3>4. \A b \in Bufs : refcnt'[b] = Cardinality(Users(b)) + IF b \in pinned' THEN 1 ELSE 0
            BY <2>3, <3>1, <1>0
        <3> QED
            BY <2>1, <3>3, <3>4
    <2> QED
        BY <2>2, <2>3
<1>10. ASSUME NEW p \in Procs, releasesleep(p) PROVE CountInv'
    BY <1>10 DEF releasesleep, goto, At, bufvars, Users
<1>11. ASSUME NEW p \in Procs, brelse(p) PROVE CountInv'
    <2>1. buf[p] \in Bufs /\ buf[p] # 0 /\ 0 \notin Bufs
        BY <1>11 DEF brelse, At, Bufs
    <2>2. \A c \in Bufs : Cardinality(Users(c)') = Cardinality(Users(c)) - IF c = buf[p] THEN 1 ELSE 0
        <3>1. buf' = [buf EXCEPT ![p] = 0] /\ buf[p] # 0 /\ TypeOK
            BY <1>11, <2>1 DEF brelse
        <3>2. \A c : Cardinality(Users(c)') =
                    Cardinality(Users(c)) + (IF c = 0 THEN 1 ELSE 0) - (IF c = buf[p] THEN 1 ELSE 0)
            BY ONLY <3>1, UsersChange, p \in Procs
        <3> QED
            BY <2>1, <3>2, <1>0
    <2> QED
        BY <1>11, <2>1, <2>2, <1>0 DEF brelse
<1>12. CASE UNCHANGED vars
    BY <1>12 DEF vars, bufvars, Users
<1> QED
    BY <1>1, <1>2, <1>3, <1>4, <1>5, <1>6, <1>7, <1>8, <1>9, <1>10, <1>11, <1>12 DEF Next, Step

\* bget gives a block a buffer only if it has none.
LEMMA UniqueStep == ASSUME BcacheInv, [Next]_vars PROVE UniqueInv'
<1> USE BcacheAssumption DEF BcacheInv, TypeOK, UserInv, UniqueInv
<1>1. ASSUME NEW p \in Procs, NEW k \in Blocks, bget_hit(p, k) PROVE UniqueInv'
    BY <1>1 DEF bget_hit, Begin, goto, At, Cached
<1>2. ASSUME NEW p \in Procs, NEW k \in Blocks, bget_recycle(p, k) PROVE UniqueInv'
    <2>1. LRU \in Bufs /\ blockno' = [blockno EXCEPT ![LRU] = k]
        BY <1>2, Recycled DEF bget_recycle
    <2>2. \A b \in Bufs : blockno[b] # k
        BY <1>2 DEF bget_recycle, Cached
    <2> HIDE DEF LRU
    <2> QED
        BY <2>1, <2>2
<1>3. ASSUME NEW p \in Procs, acquiresleep(p) PROVE UniqueInv'
    BY <1>3 DEF acquiresleep, goto, At, bufvars
<1>4. ASSUME NEW p \in Procs, bread(p) PROVE UniqueInv'
    BY <1>4 DEF bread, goto, At
<1>5. ASSUME NEW p \in Procs, bread_valid(p) PROVE UniqueInv'
    BY <1>5 DEF bread_valid, goto, At
<1>6. ASSUME NEW p \in Procs, NEW v \in Vals, modify(p, v) PROVE UniqueInv'
    BY <1>6 DEF modify, goto, At
<1>7. ASSUME NEW p \in Procs, bwrite(p) PROVE UniqueInv'
    BY <1>7 DEF bwrite, goto, At, bufvars
<1>8. ASSUME NEW p \in Procs, bpin(p) PROVE UniqueInv'
    BY <1>8 DEF bpin, goto, At
<1>9. ASSUME NEW p \in Procs, bunpin(p) PROVE UniqueInv'
    BY <1>9 DEF bunpin, goto, At
<1>10. ASSUME NEW p \in Procs, releasesleep(p) PROVE UniqueInv'
    BY <1>10 DEF releasesleep, goto, At, bufvars
<1>11. ASSUME NEW p \in Procs, brelse(p) PROVE UniqueInv'
    BY <1>11 DEF brelse, goto, At
<1>12. CASE UNCHANGED vars
    BY <1>12 DEF vars, bufvars
<1> QED
    BY <1>1, <1>2, <1>3, <1>4, <1>5, <1>6, <1>7, <1>8, <1>9, <1>10, <1>11, <1>12 DEF Next, Step

\* Only the holder of the lock changes a buffer or its block.
LEMMA DataStep == ASSUME BcacheInv, [Next]_vars PROVE DataInv'
<1> USE BcacheAssumption DEF BcacheInv, TypeOK, UserInv, LockInv, Holding, UniqueInv, DataInv, Using, Users
<1>1. ASSUME NEW p \in Procs, NEW k \in Blocks, bget_hit(p, k) PROVE DataInv'
    BY <1>1 DEF bget_hit, Begin, goto, At, Cached
<1>2. ASSUME NEW p \in Procs, NEW k \in Blocks, bget_recycle(p, k) PROVE DataInv'
    <2>1. LRU \in Bufs /\ refcnt[LRU] = 0 /\ Users(LRU) = {} /\ LRU \notin pinned
        BY <1>2, Recycled, Unreferenced DEF bget_recycle
    <2>2. \A q \in Procs : buf[q] # LRU
        BY <2>1 DEF Users
    <2> QED
        BY <1>2, <2>1, <2>2 DEF bget_recycle, Begin, goto, At, Cached
<1>3. ASSUME NEW p \in Procs, acquiresleep(p) PROVE DataInv'
    BY <1>3 DEF acquiresleep, goto, At, bufvars
<1>4. ASSUME NEW p \in Procs, bread(p) PROVE DataInv'
    BY <1>4 DEF bread, goto, At
<1>5. ASSUME NEW p \in Procs, bread_valid(p) PROVE DataInv'
    BY <1>5 DEF bread_valid, goto, At
<1>6. ASSUME NEW p \in Procs, NEW v \in Vals, modify(p, v) PROVE DataInv'
    BY <1>6 DEF modify, goto, At
<1>7. ASSUME NEW p \in Procs, bwrite(p) PROVE DataInv'
    BY <1>7 DEF bwrite, goto, At, bufvars
<1>8. ASSUME NEW p \in Procs, bpin(p) PROVE DataInv'
    BY <1>8 DEF bpin, goto, At
<1>9. ASSUME NEW p \in Procs, bunpin(p) PROVE DataInv'
    BY <1>9 DEF bunpin, goto, At
<1>10. ASSUME NEW p \in Procs, releasesleep(p) PROVE DataInv'
    BY <1>10 DEF releasesleep, goto, At, bufvars
<1>11. ASSUME NEW p \in Procs, brelse(p) PROVE DataInv'
    BY <1>11 DEF brelse, goto, At
<1>12. CASE UNCHANGED vars
    BY <1>12 DEF vars, bufvars
<1> QED
    BY <1>1, <1>2, <1>3, <1>4, <1>5, <1>6, <1>7, <1>8, <1>9, <1>10, <1>11, <1>12 DEF Next, Step

-----------------------------------------------------------------------------
(* The theorems.                                                             *)

\* The cache is always consistent: list, users, locks, counts and contents.
THEOREM BcacheInvariant == Spec => []BcacheInv
<1>1. BcacheInv /\ [Next]_vars => BcacheInv'
    <2> SUFFICES ASSUME BcacheInv, [Next]_vars PROVE BcacheInv'
        OBVIOUS
    <2>1. TypeOK' /\ ListInv' /\ UserInv' /\ LockInv' /\ CountInv' /\ UniqueInv' /\ DataInv'
        BY TypeStep, ListStep, UserStep, LockStep, CountStep, UniqueStep, DataStep
    <2> QED
        BY <2>1 DEF BcacheInv
<1> QED
    BY <1>1, InvInit, PTL DEF Spec

\* refcnt counts the users of a buffer and its pin, and a block has at most one
\* buffer (bget, brelse, bpin and bunpin of bio.c).
THEOREM RefcntCorrect == Spec => []RefcntCounts
<1>1. BcacheInv => RefcntCounts
    <2> SUFFICES ASSUME BcacheInv PROVE RefcntCounts
        OBVIOUS
    <2>1. ASSUME NEW b \in Bufs
          PROVE  refcnt[b] = Cardinality({p \in Procs : buf[p] = b}) + Cardinality(pinned \cap {b})
        <3>1. Cardinality(pinned \cap {b}) = IF b \in pinned THEN 1 ELSE 0
            <4>1. CASE b \in pinned
                <5>1. pinned \cap {b} = {b}
                    BY <4>1
                <5> QED
                    BY <4>1, <5>1, FS_Singleton
            <4>2. CASE b \notin pinned
                <5>1. pinned \cap {b} = {}
                    BY <4>2
                <5> QED
                    BY <4>2, <5>1, FS_EmptySet
            <4> QED
                BY <4>1, <4>2
        <3> QED
            BY <3>1 DEF BcacheInv, CountInv, Users
    <2>2. ASSUME NEW k \in Blocks PROVE Cardinality(Cached(k)) <= 1
        <3>1. CASE Cached(k) = {}
            BY <3>1, FS_EmptySet
        <3>2. ASSUME NEW b \in Cached(k) PROVE Cardinality(Cached(k)) <= 1
            <4>1. Cached(k) = {b}
                BY <3>2, BcacheAssumption DEF Cached, BcacheInv, UniqueInv
            <4> QED
                BY <4>1, FS_Singleton
        <3> QED
            BY <3>1, <3>2
    <2> QED
        BY <2>1, <2>2 DEF RefcntCounts
<1> QED
    BY <1>1, BcacheInvariant, PTL

\* There is a buffer for an idle process: the others and the pins take at most
\* NBUF - 1 of them.
LEMMA ABufferIsUnused ==
    ASSUME BcacheInv, NEW p \in Procs, pc[p] = "idle" PROVE Unused # {}
<1> USE BcacheAssumption
<1> DEFINE active == {q \in Procs : pc[q] # "idle"}
           taken == {buf[q] : q \in active}
           f == [q \in active |-> buf[q]]
<1>1. IsFiniteSet(active) /\ Cardinality(active) <= Cardinality(Procs) - 1
    <2>1. active \in SUBSET (Procs \ {p})
        OBVIOUS
    <2>2. IsFiniteSet(Procs \ {p}) /\ Cardinality(Procs \ {p}) = Cardinality(Procs) - 1
        BY FS_RemoveElement
    <2> HIDE DEF active
    <2> QED
        BY <2>1, <2>2, FS_Subset
<1>2. IsFiniteSet(taken) /\ Cardinality(taken) <= Cardinality(active)
    <2>1. f \in Surjection(active, taken)
        BY DEF Surjection
    <2> HIDE DEF f, taken, active
    <2> QED
        BY <1>1, <2>1, FS_Surjection
<1>3. IsFiniteSet(pinned) /\ Cardinality(pinned) <= MaxPins
    BY FiniteBufs DEF BcacheInv, TypeOK, CountInv
<1>4. IsFiniteSet(taken \cup pinned) /\ Cardinality(taken \cup pinned) < NBUF
    <2> HIDE DEF taken, active
    <2>1. /\ IsFiniteSet(taken \cup pinned)
          /\ Cardinality(taken \cup pinned) =
               Cardinality(taken) + Cardinality(pinned) - Cardinality(taken \cap pinned)
        BY <1>2, <1>3, FS_Union
    <2>2. IsFiniteSet(taken \cap pinned)
        BY <1>2, FS_Subset
    <2>3. /\ Cardinality(taken) \in Nat /\ Cardinality(pinned) \in Nat
          /\ Cardinality(taken \cap pinned) \in Nat
          /\ Cardinality(active) \in Nat /\ Cardinality(Procs) \in Nat
        BY <1>1, <1>2, <1>3, <2>2, FS_CardinalityType
    <2> QED
        BY <1>1, <1>2, <1>3, <2>1, <2>3
<1>5. IsFiniteSet(Bufs) /\ Cardinality(Bufs) = NBUF
    BY FS_Interval DEF Bufs
<1>6. PICK b \in Bufs : b \notin taken \cup pinned
    <2> HIDE DEF taken, active
    <2>1. SUFFICES ASSUME Bufs \subseteq taken \cup pinned PROVE FALSE
        OBVIOUS
    <2>2. Cardinality(Bufs) <= Cardinality(taken \cup pinned)
        BY <1>4, <2>1, FS_Subset
    <2>3. Cardinality(taken \cup pinned) \in Nat
        BY <1>4, FS_CardinalityType
    <2> QED
        BY <1>4, <1>5, <2>2, <2>3
<1>7. Users(b) = {}
    BY <1>6 DEF Users, BcacheInv, UserInv, Bufs
<1>8. refcnt[b] = 0
    BY <1>6, <1>7, FS_EmptySet DEF BcacheInv, CountInv
<1>9. PICK j \in Bufs : lru[j] = b
    BY DEF BcacheInv, ListInv
<1> QED
    BY <1>8, <1>9 DEF Unused

\* bget never panics with "no buffers", and a process that sleeps on a buffer
\* sleeps on a lock that is held.
THEOREM BufferCorrect == Spec => []AlwaysABuffer
<1>1. BcacheInv => AlwaysABuffer
    BY ABufferIsUnused DEF AlwaysABuffer, At, BcacheInv, LockInv
<1> QED
    BY <1>1, BcacheInvariant, PTL
=============================================================================
