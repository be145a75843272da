-------------------------- MODULE BcacheRefinement --------------------------
(***************************************************************************)
(* The proof that Bcache implements BlockStore, from the invariant of      *)
(* BcacheProofs.                                                           *)
(***************************************************************************)
EXTENDS BcacheProofs

\* The value of a block is in its valid buffer, or else on the disk.
ValueOK ==
    \A k \in Blocks :
        /\ \A b \in Bufs : blockno[b] = k /\ valid[b] = 1 => Value(k) = data[b]
        /\ (\A b \in Bufs : blockno[b] = k => valid[b] # 1) => Value(k) = disk[k]

\* The invariant gives this form of Value.
LEMMA ValueIs == BcacheInv => ValueOK
<1> SUFFICES ASSUME BcacheInv, NEW k \in Blocks
             PROVE  /\ \A b \in Bufs : blockno[b] = k /\ valid[b] = 1 => Value(k) = data[b]
                    /\ (\A b \in Bufs : blockno[b] = k => valid[b] # 1) => Value(k) = disk[k]
    BY DEF ValueOK
<1>1. ASSUME NEW b \in Bufs, blockno[b] = k, valid[b] = 1 PROVE Value(k) = data[b]
    <2>1. \A c \in Cached(k) : c = b
        BY <1>1, BcacheAssumption DEF Cached, BcacheInv, UniqueInv
    <2>2. b \in Cached(k)
        BY <1>1 DEF Cached
    <2> QED
        BY <1>1, <2>1, <2>2 DEF Value
<1>2. ASSUME \A b \in Bufs : blockno[b] = k => valid[b] # 1 PROVE Value(k) = disk[k]
    BY <1>2 DEF Value, Cached
<1> QED
    BY <1>1, <1>2

\* The abstract state: what the processes that use a block see.
Held == [p \in Procs |-> IF Using(p) THEN want[p] ELSE NoBlock]
Copy == [p \in Procs |-> IF Using(p) THEN data[buf[p]] ELSE NoVal]
Contents == [k \in Blocks |-> Value(k)]

\* A step does not change what q sees.
SameView(q) == /\ Using(q)' <=> Using(q)
               /\ Using(q) => want'[q] = want[q] /\ data'[buf'[q]] = data[buf[q]]

\* A step that changes none of this is none of BlockStore.
LEMMA Stutter ==
    ASSUME \A k \in Blocks : Value(k)' = Value(k),
           \A q \in Procs : SameView(q)
    PROVE  UNCHANGED Store!vars
<1>1. Contents' = Contents
    BY DEF Contents
<1>2. Held' = Held
    BY DEF Held, SameView, Using
<1>3. Copy' = Copy
    BY DEF Copy, SameView, Using
<1> QED
    BY <1>1, <1>2, <1>3 DEF Store!vars, Contents, Held, Copy

\* p gets block k: nobody else has it, and p finds its value.
LEMMA Acquired ==
    ASSUME NEW p \in Procs, NEW k \in Blocks,
           \A c \in Blocks : Value(c)' = Value(c),
           \A q \in Procs \ {p} : SameView(q) /\ (Using(q) => want[q] # k),
           ~Using(p), Using(p)', want'[p] = k, data'[buf'[p]] = Value(k)
    PROVE  Store!Next
<1> USE BcacheAssumption
<1>1. Contents' = Contents
    BY DEF Contents
<1>2. Held[p] = NoBlock /\ \A q \in Procs : Held[q] # k
    BY DEF Held, SameView, Using
<1>3. Held' = [Held EXCEPT ![p] = k]
    BY DEF Held, SameView, Using
<1>4. Copy' = [Copy EXCEPT ![p] = Contents[k]]
    BY DEF Copy, Contents, SameView, Using
<1>5. Store!Acquire(p, k)
    BY <1>1, <1>2, <1>3, <1>4 DEF Store!Acquire, Contents, Held, Copy
<1> QED
    BY <1>5 DEF Store!Next

\* binit() gives an initial state of BlockStore.
LEMMA RefinedInit == ASSUME Init PROVE Store!Init
<1>1. \A k \in Blocks : Value(k) \in Vals
    BY BcacheAssumption DEF Init, Value, Cached
<1> QED
    BY <1>1 DEF Init, Store!Init, Using

\* Every step of the cache is one of BlockStore, or changes nothing there.
LEMMA RefinedStep ==
    ASSUME BcacheInv, BcacheInv', ValueOK, ValueOK', [Next]_vars
    PROVE  [Store!Next]_(Store!vars)
<1> DEFINE Goal == [Store!Next]_(Store!vars)
<1>0. ASSUME NEW p \in Procs, NEW q \in Procs, Holding(p), Holding(q), p # q
      PROVE  buf[p] # buf[q] /\ want[p] # want[q]
    BY <1>0, BcacheAssumption DEF BcacheInv, TypeOK, UserInv, LockInv, UniqueInv, Holding
<1>1. ASSUME NEW p \in Procs, NEW k \in Blocks, bget_hit(p, k) PROVE Goal
    <2>1. \A c \in Blocks : Value(c)' = Value(c)
        BY <1>1 DEF bget_hit, Begin, goto, At, Cached, Value, Cached
    <2>2. \A q \in Procs : SameView(q)
        BY <1>1 DEF bget_hit, Begin, goto, At, Cached, SameView, Using, BcacheInv, TypeOK
    <2> QED
        BY <2>1, <2>2, Stutter
<1>2. ASSUME NEW p \in Procs, NEW k \in Blocks, bget_recycle(p, k) PROVE Goal
    <2>1. LRU \in Bufs /\ Users(LRU) = {} /\ LRU \notin pinned
        BY <1>2, Recycled, Unreferenced DEF bget_recycle, BcacheInv
    <2>2. \A q \in Procs : buf[q] # LRU
        BY <2>1 DEF Users
    <2>3. valid[LRU] = 1 => blockno[LRU] \in Blocks /\ data[LRU] = disk[blockno[LRU]]
        BY <2>1 DEF BcacheInv, DataInv, Users
    <2>4. /\ blockno' = [blockno EXCEPT ![LRU] = k] /\ valid' = [valid EXCEPT ![LRU] = 0]
          /\ data' = data /\ disk' = disk
        BY <1>2 DEF bget_recycle, Begin
    <2>5. \A b \in Bufs : blockno[b] # k
        BY <1>2 DEF bget_recycle, Cached
    <2>6. ASSUME NEW c \in Blocks PROVE Value(c)' = Value(c)
        <3> HIDE DEF LRU
        <3>1. CASE \E b \in Bufs : b # LRU /\ blockno[b] = c /\ valid[b] = 1
            <4>1. PICK b \in Bufs : b # LRU /\ blockno[b] = c /\ valid[b] = 1
                BY <3>1
            <4>2. Value(c) = data[b]
                BY <4>1 DEF ValueOK
            <4>3. blockno'[b] = c /\ valid'[b] = 1
                BY <4>1, <2>4 DEF BcacheInv, TypeOK
            <4>4. Value(c)' = data'[b]
                BY <4>3 DEF ValueOK
            <4> QED
                BY <4>2, <4>4, <2>4
        <3>2. CASE \A b \in Bufs : b # LRU /\ blockno[b] = c => valid[b] # 1
            <4>1. \A b \in Bufs : blockno'[b] = c => valid'[b] # 1
                BY <3>2, <2>1, <2>4 DEF BcacheInv, TypeOK
            <4>2. Value(c)' = disk[c]
                BY <4>1, <2>4 DEF ValueOK
            <4>3. Value(c) = disk[c]
                BY <3>2, <2>1, <2>3 DEF ValueOK
            <4> QED
                BY <4>2, <4>3
        <3> QED
            BY <3>1, <3>2
    <2>7. \A q \in Procs : SameView(q)
        BY <1>2 DEF bget_recycle, Begin, goto, At, Cached, SameView, Using, BcacheInv, TypeOK
    <2> QED
        BY <2>6, <2>7, Stutter
<1>3. ASSUME NEW p \in Procs, acquiresleep(p) PROVE Goal
    <2>1. \A c \in Blocks : Value(c)' = Value(c)
        BY <1>3 DEF acquiresleep, goto, At, bufvars, Value, Cached
    <2>2. \A q \in Procs : SameView(q)
        BY <1>3 DEF acquiresleep, goto, At, bufvars, SameView, Using, BcacheInv, TypeOK
    <2> QED
        BY <2>1, <2>2, Stutter
<1>4. ASSUME NEW p \in Procs, bread(p) PROVE Goal
    <2>1. Holding(p) /\ buf[p] \in Bufs /\ want[p] \in Blocks /\ blockno[buf[p]] = want[p]
        BY <1>4 DEF bread, At, Holding, BcacheInv, UserInv
    <2>2. \A q \in Procs \ {p} : SameView(q) /\ (Using(q) => want[q] # want[p])
        <3>1. \A q \in Procs \ {p} : Using(q) => buf[q] # buf[p] /\ want[q] # want[p]
            BY <2>1, <1>0 DEF Using, Holding
        <3>2. \A q \in Procs \ {p} : Using(q) => buf[q] \in Bufs
            BY DEF Using, BcacheInv, UserInv
        <3>3. \A q \in Procs \ {p} : Using(q)' <=> Using(q)
            BY <1>4 DEF bread, goto, At, Using, BcacheInv, TypeOK
        <3>4. want' = want /\ buf' = buf
            BY <1>4 DEF bread, goto, At
        <3>5. \A b \in Bufs : b # buf[p] => data'[b] = data[b]
            BY <1>4 DEF bread, goto, At, BcacheInv, TypeOK
        <3> QED
            BY <3>1, <3>2, <3>3, <3>4, <3>5 DEF SameView
    <2>3. CASE valid[buf[p]] = 1
        <3>1. \A c \in Blocks : Value(c)' = Value(c)
            BY <1>4, <2>3 DEF bread, goto, At, Value, Cached
        <3>2. ~Using(p) /\ Using(p)' /\ want'[p] = want[p]
            BY <1>4, <2>3 DEF bread, goto, At, SameView, Using, BcacheInv, TypeOK
        <3>3. data'[buf'[p]] = Value(want[p])
            <4>1. data'[buf'[p]] = data[buf[p]]
                BY <1>4, <2>3 DEF bread, goto, At
            <4>2. Value(want[p]) = data[buf[p]]
                BY <2>1, <2>3 DEF ValueOK
            <4> QED
                BY <4>1, <4>2
        <3>4. Store!Next
            BY <2>1, <2>2, <3>1, <3>2, <3>3, Acquired
        <3> QED
            BY <3>4
    <2>4. CASE valid[buf[p]] # 1
        <3>1. ASSUME NEW c \in Blocks PROVE Value(c)' = Value(c)
            <4>1. \A b \in Bufs : valid[b] = 1 => data'[b] = data[b]
                BY <1>4, <2>4 DEF bread, goto, At, BcacheInv, TypeOK
            <4>2. blockno' = blockno /\ valid' = valid /\ disk' = disk
                BY <1>4 DEF bread
            <4> QED
                BY <4>1, <4>2 DEF ValueOK
        <3>2. \A q \in Procs : SameView(q)
            BY <1>4, <2>2, <2>4 DEF bread, goto, At, SameView, Using, BcacheInv, TypeOK
        <3> QED
            BY <3>1, <3>2, Stutter
    <2> QED
        BY <2>3, <2>4
<1>5. ASSUME NEW p \in Procs, bread_valid(p) PROVE Goal
    <2>1. Holding(p) /\ buf[p] \in Bufs /\ want[p] \in Blocks /\ blockno[buf[p]] = want[p]
        BY <1>5 DEF bread_valid, At, Holding, BcacheInv, UserInv
    <2>2. \A q \in Procs \ {p} : SameView(q) /\ (Using(q) => want[q] # want[p])
        <3>1. \A q \in Procs \ {p} : Using(q) => buf[q] # buf[p] /\ want[q] # want[p]
            BY <2>1, <1>0 DEF Using, Holding
        <3>2. \A q \in Procs \ {p} : Using(q) => buf[q] \in Bufs
            BY DEF Using, BcacheInv, UserInv
        <3>3. \A q \in Procs \ {p} : Using(q)' <=> Using(q)
            BY <1>5 DEF bread_valid, goto, At, Using, BcacheInv, TypeOK
        <3>4. want' = want /\ buf' = buf
            BY <1>5 DEF bread_valid, goto, At
        <3>5. \A b \in Bufs : b # buf[p] => data'[b] = data[b]
            BY <1>5 DEF bread_valid, goto, At, BcacheInv, TypeOK
        <3> QED
            BY <3>1, <3>2, <3>3, <3>4, <3>5 DEF SameView
    <2>3. valid[buf[p]] = 0 /\ data[buf[p]] = disk[want[p]]
        BY <1>5, <2>1 DEF bread_valid, At, BcacheInv, DataInv
    <2>4. /\ valid' = [valid EXCEPT ![buf[p]] = 1]
          /\ blockno' = blockno /\ data' = data /\ disk' = disk
        BY <1>5 DEF bread_valid
    <2>5. \A b \in Bufs : blockno[b] = want[p] => b = buf[p]
        BY <2>1, BcacheAssumption DEF BcacheInv, UniqueInv
    <2>6. Value(want[p]) = disk[want[p]]
        BY <2>1, <2>3, <2>5 DEF ValueOK
    <2>7. ASSUME NEW c \in Blocks PROVE Value(c)' = Value(c)
        <3>1. CASE c = want[p]
            <4>1. blockno'[buf[p]] = c /\ valid'[buf[p]] = 1 /\ data'[buf[p]] = disk[c]
                BY <3>1, <2>1, <2>3, <2>4 DEF BcacheInv, TypeOK
            <4>2. Value(c)' = data'[buf[p]]
                BY <2>1, <4>1 DEF ValueOK
            <4> QED
                BY <3>1, <2>6, <4>1, <4>2
        <3>2. CASE c # want[p]
            <4>1. \A b \in Bufs : blockno[b] = c => valid'[b] = valid[b]
                BY <3>2, <2>1, <2>4 DEF BcacheInv, TypeOK
            <4> QED
                BY <2>4, <4>1 DEF ValueOK
        <3> QED
            BY <3>1, <3>2
    <2>8. ~Using(p) /\ Using(p)' /\ want'[p] = want[p]
        BY <1>5 DEF bread_valid, goto, At, SameView, Using, BcacheInv, TypeOK
    <2>9. data'[buf'[p]] = Value(want[p])
        BY <1>5, <2>3, <2>6 DEF bread_valid
    <2>10. Store!Next
        BY <2>1, <2>2, <2>7, <2>8, <2>9, Acquired
    <2> QED
        BY <2>10
<1>6. ASSUME NEW p \in Procs, NEW v \in Vals, modify(p, v) PROVE Goal
    <2>1. Holding(p) /\ buf[p] \in Bufs /\ want[p] \in Blocks /\ blockno[buf[p]] = want[p]
        BY <1>6 DEF modify, At, Holding, BcacheInv, UserInv
    <2>2. Using(p) /\ valid[buf[p]] = 1
        BY <1>6 DEF modify, At, Using, BcacheInv, DataInv
    <2>3. /\ data' = [data EXCEPT ![buf[p]] = v]
          /\ blockno' = blockno /\ valid' = valid /\ disk' = disk /\ want' = want /\ buf' = buf
        BY <1>6 DEF modify
    <2>4. data'[buf[p]] = v /\ \A b \in Bufs : b # buf[p] => data'[b] = data[b]
        BY <2>1, <2>3 DEF BcacheInv, TypeOK
    <2>5. ASSUME NEW c \in Blocks, c = want[p] PROVE Value(c)' = v
        BY <2>1, <2>2, <2>3, <2>4, <2>5 DEF ValueOK
    <2>6. ASSUME NEW c \in Blocks, c # want[p] PROVE Value(c)' = Value(c)
        <3>1. \A b \in Bufs : blockno[b] = c => data'[b] = data[b]
            BY <2>1, <2>4, <2>6
        <3> QED
            BY <2>3, <3>1 DEF ValueOK
    <2>7. Contents' = [Contents EXCEPT ![want[p]] = v]
        BY <2>1, <2>5, <2>6 DEF Contents
    <2>8. \A q \in Procs : Using(q)' <=> Using(q)
        BY <1>6 DEF modify, goto, At, Using, BcacheInv, TypeOK
    <2>9. Held' = Held /\ Held[p] = want[p]
        BY <2>2, <2>3, <2>8 DEF Held
    <2>10. \A q \in Procs : Using(q) /\ q # p => data'[buf[q]] = data[buf[q]]
        BY <2>1, <2>4, <1>0 DEF Using, Holding, BcacheInv, UserInv
    <2>11. Copy' = [Copy EXCEPT ![p] = v]
        BY <2>2, <2>3, <2>4, <2>8, <2>10 DEF Copy
    <2>12. Store!Change(p, v)
        BY <2>1, <2>7, <2>9, <2>11, BcacheAssumption DEF Store!Change, Contents, Held, Copy
    <2> QED
        BY <2>12 DEF Store!Next
<1>7. ASSUME NEW p \in Procs, bwrite(p) PROVE Goal
    <2>1. buf[p] \in Bufs /\ blockno[buf[p]] \in Blocks /\ valid[buf[p]] = 1
        BY <1>7 DEF bwrite, At, Using, BcacheInv, UserInv, DataInv
    <2>2. /\ disk' = [disk EXCEPT ![blockno[buf[p]]] = data[buf[p]]]
          /\ blockno' = blockno /\ valid' = valid /\ data' = data
        BY <1>7 DEF bwrite, bufvars
    <2>3. ASSUME NEW c \in Blocks PROVE Value(c)' = Value(c)
        <3>1. CASE c = blockno[buf[p]]
            <4>1. Value(c) = data[buf[p]]
                BY <3>1, <2>1 DEF ValueOK
            <4>2. blockno'[buf[p]] = c /\ valid'[buf[p]] = 1 /\ data'[buf[p]] = data[buf[p]]
                BY <3>1, <2>1, <2>2
            <4>3. Value(c)' = data'[buf[p]]
                BY <2>1, <4>2 DEF ValueOK
            <4> QED
                BY <4>1, <4>2, <4>3
        <3>2. CASE c # blockno[buf[p]]
            <4>1. disk'[c] = disk[c]
                BY <3>2, <2>2 DEF BcacheInv, TypeOK
            <4>2. CASE \E b \in Bufs : blockno[b] = c /\ valid[b] = 1
                <5>1. PICK b \in Bufs : blockno[b] = c /\ valid[b] = 1
                    BY <4>2
                <5>2. Value(c) = data[b]
                    BY <5>1 DEF ValueOK
                <5>3. Value(c)' = data'[b]
                    BY <5>1, <2>2 DEF ValueOK
                <5> QED
                    BY <5>2, <5>3, <2>2
            <4>3. CASE \A b \in Bufs : blockno[b] = c => valid[b] # 1
                <5>1. Value(c) = disk[c]
                    BY <4>3 DEF ValueOK
                <5>2. Value(c)' = disk'[c]
                    BY <4>3, <2>2 DEF ValueOK
                <5> QED
                    BY <5>1, <5>2, <4>1
            <4> QED
                BY <4>2, <4>3
        <3> QED
            BY <3>1, <3>2
    <2>4. \A q \in Procs : SameView(q)
        BY <1>7 DEF bwrite, goto, At, bufvars, SameView, Using, BcacheInv, TypeOK
    <2> QED
        BY <2>3, <2>4, Stutter
<1>8. ASSUME NEW p \in Procs, bpin(p) PROVE Goal
    <2>1. \A c \in Blocks : Value(c)' = Value(c)
        BY <1>8 DEF bpin, goto, At, Value, Cached
    <2>2. \A q \in Procs : SameView(q)
        BY <1>8 DEF bpin, goto, At, SameView, Using, BcacheInv, TypeOK
    <2> QED
        BY <2>1, <2>2, Stutter
<1>9. ASSUME NEW p \in Procs, bunpin(p) PROVE Goal
    <2>1. \A c \in Blocks : Value(c)' = Value(c)
        BY <1>9 DEF bunpin, goto, At, Value, Cached
    <2>2. \A q \in Procs : SameView(q)
        BY <1>9 DEF bunpin, goto, At, SameView, Using, BcacheInv, TypeOK
    <2> QED
        BY <2>1, <2>2, Stutter
<1>10. ASSUME NEW p \in Procs, releasesleep(p) PROVE Goal
    <2>1. Using(p) /\ want[p] \in Blocks
        BY <1>10 DEF releasesleep, At, Using, BcacheInv, UserInv
    <2>2. Contents' = Contents
        BY <1>10 DEF releasesleep, bufvars, Contents, Value, Cached
    <2>3. ~Using(p)' /\ \A q \in Procs \ {p} : Using(q)' <=> Using(q)
        BY <1>10 DEF releasesleep, At, Using, BcacheInv, TypeOK
    <2>4. want' = want /\ data' = data /\ buf' = buf
        BY <1>10 DEF releasesleep, bufvars
    <2>5. Held[p] # NoBlock /\ Held' = [Held EXCEPT ![p] = NoBlock]
        BY <2>1, <2>3, <2>4, BcacheAssumption DEF Held
    <2>6. Copy' = [Copy EXCEPT ![p] = NoVal]
        BY <2>3, <2>4 DEF Copy
    <2>7. Store!Release(p)
        BY <2>2, <2>5, <2>6 DEF Store!Release, Contents, Held, Copy
    <2> QED
        BY <2>7 DEF Store!Next
<1>11. ASSUME NEW p \in Procs, brelse(p) PROVE Goal
    <2>1. \A c \in Blocks : Value(c)' = Value(c)
        BY <1>11 DEF brelse, goto, At, Value, Cached
    <2>2. \A q \in Procs : SameView(q)
        BY <1>11 DEF brelse, goto, At, SameView, Using, BcacheInv, TypeOK
    <2> QED
        BY <2>1, <2>2, Stutter
<1>12. CASE UNCHANGED vars
    <2>1. \A c \in Blocks : Value(c)' = Value(c)
        BY <1>12 DEF vars, bufvars, Value, Cached
    <2>2. \A q \in Procs : SameView(q)
        BY <1>12 DEF vars, bufvars, SameView, Using
    <2> QED
        BY <2>1, <2>2, Stutter
<1> QED
    BY <1>1, <1>2, <1>3, <1>4, <1>5, <1>6, <1>7, <1>8, <1>9, <1>10, <1>11, <1>12 DEF Next, Step

\* The buffer cache implements BlockStore: bread gives exclusive access to the
\* current contents of the block asked for, and no change is lost.
THEOREM CacheCorrect == Spec => CacheIsTransparent
<1>1. BcacheInv => ValueOK
    BY ValueIs
<1>2. BcacheInv /\ BcacheInv' /\ ValueOK /\ ValueOK' /\ [Next]_vars => [Store!Next]_(Store!vars)
    BY RefinedStep
<1>3. Init => Store!Init
    BY RefinedInit
<1> QED
    BY <1>1, <1>2, <1>3, BcacheInvariant, PTL DEF Spec, CacheIsTransparent, Store!Spec
=============================================================================
