---------------------------- MODULE VirtioProofs ----------------------------
(***************************************************************************)
(* Proofs about VirtioDisk, for any number of processes, descriptors and   *)
(* values of a ring index: descriptors are free or in one chain, no        *)
(* completion is missed, and kernel/virtio_disk.c implements DiskRequests. *)
(***************************************************************************)
EXTENDS VirtioDisk, FiniteSetTheorems, WellFoundedInduction, TLAPS

\* The entries between two indices of a ring.
Dist(from, to) == (to - from) % UINT16
At(ring, from, k) == ring[(from + k) % NUM]

Avails == Dist(seen, avail.idx)
Avail(k) == At(avail.ring, seen, k)
Useds == Dist(used_idx, used.idx)
Used(k) == At(used.ring, used_idx, k)

\* The chain of the request of p.
Second(p) == desc[idx[p]].next
Third(p) == desc[Second(p)].next
Links(p) == {idx[p], Second(p), Third(p)}

\* Requests the device has not carried out, and those whose caller may return.
Unserved == Waiting \ served
Done == {p \in Waiting : bdisk[p] = 0}

TypeOK ==
    /\ free \in SUBSET Descs
    /\ desc \in [Descs -> [addr : Procs \cup Descs \cup {NoBuf}, next : Descs,
                           flag : {0, 1}]]
    /\ info \in [Descs -> [b : Procs \cup {NoBuf}, status : {0, 255}]]
    /\ avail \in [ring : [Descs -> Descs], idx : 0..UINT16 - 1]
    /\ used \in [ring : [Descs -> Descs], idx : 0..UINT16 - 1]
    /\ used_idx \in 0..UINT16 - 1 /\ seen \in 0..UINT16 - 1
    /\ lock \in {0, 1} /\ irq \in {0, 1}
    /\ bdisk \in [Procs -> {0, 1}]
    /\ pc \in [Procs -> {"idle", "retry", "no_desc", "wait", "woken"}]
    /\ idx \in [Procs -> Descs]
    /\ taken \in SUBSET Descs /\ served \in SUBSET Procs

\* A request is a chain of three descriptors: command, data and status.
Formed(p) ==
    /\ idx[p] # Second(p) /\ idx[p] # Third(p) /\ Second(p) # Third(p)
    /\ desc[idx[p]].flag = 1 /\ desc[Second(p)].flag = 1 /\ desc[Third(p)].flag = 0
    /\ desc[Second(p)].addr = p /\ desc[Third(p)].addr = idx[p]
    /\ info[idx[p]].b = p

\* The chains are apart from each other and from the free descriptors.
ChainInv ==
    /\ \A p \in Waiting : Formed(p) /\ Links(p) \cap free = {}
    /\ \A p, q \in Waiting : p # q => Links(p) \cap Links(q) = {}

\* Every other descriptor is free.
FreeInv ==
    /\ IsFiniteSet(Waiting)
    /\ Cardinality(free) + 3 * Cardinality(Waiting) = NUM

\* The device carries out a transfer between its call and its return.
ServeInv ==
    /\ \A p \in Procs \ Waiting : p \notin served /\ bdisk[p] = 0
    /\ Done \subseteq served

\* A request that is not served is in the avail ring or with the device; one that
\* is, and is not done, is in the used ring.  None is in two places.
AvailInv ==
    /\ \A k \in 0..Avails - 1 : /\ \E p \in Unserved : Avail(k) = idx[p]
                                /\ Avail(k) \notin taken
    /\ \A j, k \in 0..Avails - 1 : Avail(j) = Avail(k) => j = k
    /\ \A h \in taken : \E p \in Unserved : h = idx[p]

UsedInv ==
    /\ \A k \in 0..Useds - 1 : \E p \in Waiting \cap served :
           Used(k) = idx[p] /\ bdisk[p] = 1 /\ info[idx[p]].status = 0
    /\ \A j, k \in 0..Useds - 1 : Used(j) = Used(k) => j = k

\* Hence the rings never overflow.
CountInv ==
    Avails + Cardinality(taken) + Useds + Cardinality(Done) = Cardinality(Waiting)

IntrInv == used_idx # used.idx => irq = 1 \/ lock = 1

VirtioInv ==
    /\ TypeOK /\ ChainInv /\ FreeInv /\ ServeInv
    /\ AvailInv /\ UsedInv /\ CountInv /\ IntrInv

-----------------------------------------------------------------------------
(* Arithmetic of indices that wrap around.                                   *)

\* One step around the circle of U values at most: what % computes.
LEMMA Wrap ==
    ASSUME NEW U \in Nat \ {0}, NEW r \in 0..U - 1, NEW k \in 0..U - 1
    PROVE  /\ (r + k) % U = IF r + k < U THEN r + k ELSE r + k - U
           /\ (k - r) % U = IF r <= k THEN k - r ELSE k - r + U
<1>1. ASSUME r + k < U PROVE (r + k) % U = r + k
    BY <1>1
<1>2. ASSUME r + k >= U PROVE (r + k) % U = r + k - U
    BY <1>2
<1>3. ASSUME r <= k PROVE (k - r) % U = k - r
    BY <1>3
<1>4. ASSUME r > k PROVE (k - r) % U = k - r + U
    BY <1>4
<1> QED
    BY <1>1, <1>2, <1>3, <1>4

\* Quotient and remainder are unique.
LEMMA Remainder ==
    ASSUME NEW P \in Nat \ {0}, NEW q \in Int, NEW r \in 0..P - 1
    PROVE  (q * P + r) % P = r
OBVIOUS

\* A multiple of P can be left out under % P.
LEMMA Multiple ==
    ASSUME NEW P \in Nat \ {0}, NEW x \in Int, NEW U \in Nat, U % P = 0
    PROVE  (x + U) % P = x % P
<1> DEFINE q == x \div P
           m == U \div P
           r == x % P
<1>1. /\ q \in Int /\ m \in Int /\ r \in 0..P - 1
      /\ x = P * q + r
      /\ U = P * m
    OBVIOUS
<1> HIDE DEF q, m, r
<1>2. x + U = (q + m) * P + r
    BY <1>1
<1>3. (x + U) % P = r
    BY <1>1, <1>2, Remainder
<1> QED
    BY <1>3 DEF r

\* Fewer than P places apart, two counters name different places.
LEMMA Apart ==
    ASSUME NEW P \in Nat \ {0}, NEW x \in Int, NEW d \in 1..P - 1
    PROVE  (x + d) % P # x % P
<1> DEFINE q == x \div P
           r == x % P
<1>1. q \in Int /\ r \in 0..P - 1 /\ x = P * q + r
    OBVIOUS
<1> HIDE DEF q, r
<1>2. CASE r + d < P
    <2>1. (q * P + (r + d)) % P = r + d
        BY <1>1, <1>2, Remainder
    <2>2. x + d = q * P + (r + d)
        BY <1>1
    <2> QED
        BY <2>1, <2>2, <1>1 DEF r
<1>3. CASE r + d >= P
    <2>1. q + 1 \in Int /\ r + d - P \in 0..P - 1
        BY <1>1, <1>3
    <2>2. ((q + 1) * P + (r + d - P)) % P = r + d - P
        BY <2>1, Remainder
    <2>3. x + d = (q + 1) * P + (r + d - P)
        BY <1>1
    <2> QED
        BY <2>2, <2>3, <1>1 DEF r
<1> QED
    BY <1>1, <1>2, <1>3

\* The sizes, without what they have to do with each other.
LEMMA Sizes ==
    NUM \in Nat \ {0} /\ NUM >= 3 /\ UINT16 \in Nat /\ NUM <= UINT16 /\ 0 \in Descs
<1>1. ASSUME UINT16 < NUM PROVE FALSE
    BY <1>1, VirtioAssumption
<1> QED
    BY <1>1, VirtioAssumption DEF Descs

\* How many entries lie between two indices.
LEMMA Between ==
    ASSUME NEW from \in 0..UINT16 - 1, NEW to \in 0..UINT16 - 1
    PROVE  /\ Dist(from, to) \in 0..UINT16 - 1
           /\ Dist(from, to) = 0 <=> from = to
           /\ to = (from + Dist(from, to)) % UINT16
           /\ Inc(to) \in 0..UINT16 - 1 /\ Inc(from) \in 0..UINT16 - 1
           /\ Dist(from, to) + 1 < UINT16 => Dist(from, Inc(to)) = Dist(from, to) + 1
           /\ Dist(from, to) > 0 => Dist(Inc(from), to) = Dist(from, to) - 1
<1> USE Sizes
<1>1. UINT16 \in Nat \ {0} /\ 1 \in 0..UINT16 - 1
    OBVIOUS
<1>2. Dist(from, to) = IF from <= to THEN to - from ELSE to - from + UINT16
    BY <1>1, Wrap DEF Dist
<1>3. Dist(from, to) \in 0..UINT16 - 1 /\ (Dist(from, to) = 0 <=> from = to)
    BY <1>2
<1>4. (from + Dist(from, to)) % UINT16 = IF from + Dist(from, to) < UINT16
                                         THEN from + Dist(from, to)
                                         ELSE from + Dist(from, to) - UINT16
    BY <1>1, <1>3, Wrap
<1>5. to = (from + Dist(from, to)) % UINT16
    BY <1>2, <1>4
<1>6. Inc(to) = IF to + 1 < UINT16 THEN to + 1 ELSE to + 1 - UINT16
    BY <1>1, Wrap DEF Inc
<1>7. Inc(from) = IF from + 1 < UINT16 THEN from + 1 ELSE from + 1 - UINT16
    BY <1>1, Wrap DEF Inc
<1>8. Inc(to) \in 0..UINT16 - 1 /\ Inc(from) \in 0..UINT16 - 1
    BY <1>6, <1>7
<1>9. Dist(from, Inc(to)) = IF from <= Inc(to) THEN Inc(to) - from
                                               ELSE Inc(to) - from + UINT16
    BY <1>1, <1>8, Wrap, Zenon DEF Dist
<1>10. Dist(Inc(from), to) = IF Inc(from) <= to THEN to - Inc(from)
                                                ELSE to - Inc(from) + UINT16
    BY <1>1, <1>8, Wrap, Zenon DEF Dist
<1>11. Dist(from, to) + 1 < UINT16 => Dist(from, Inc(to)) = Dist(from, to) + 1
    BY <1>2, <1>6, <1>9
<1>12. Dist(from, to) > 0 => Dist(Inc(from), to) = Dist(from, to) - 1
    BY <1>2, <1>7, <1>10
<1> QED
    BY <1>3, <1>5, <1>8, <1>11, <1>12

\* Indices that wrap around name the same places as indices that do not.
LEMMA Places ==
    ASSUME NEW c \in 0..UINT16 - 1, NEW k \in 0..UINT16 - 1
    PROVE  /\ ((c + k) % UINT16) % NUM = (c + k) % NUM
           /\ \A m \in Nat : (((c + k) % UINT16) + m) % NUM = (c + k + m) % NUM
<1>1. (c + k) % UINT16 \in {c + k, c + k - UINT16}
    BY Sizes, Wrap
<1>2. ASSUME NEW m \in Nat PROVE (((c + k) % UINT16) + m) % NUM = (c + k + m) % NUM
    <2>1. CASE (c + k) % UINT16 = c + k
        BY <2>1
    <2>2. CASE (c + k) % UINT16 = c + k - UINT16
        <3> DEFINE x == c + k - UINT16 + m
        <3>1. x \in Int /\ x + UINT16 = c + k + m /\ ((c + k) % UINT16) + m = x
            BY <2>2, Sizes
        <3>2. (x + UINT16) % NUM = x % NUM
            BY <3>1, Sizes, VirtioAssumption, Multiple, Zenon
        <3> QED
            BY <3>1, <3>2
    <2> QED
        BY <1>1, <2>1, <2>2
<1>3. ((c + k) % UINT16) + 0 = (c + k) % UINT16 /\ c + k + 0 = c + k
    BY <1>1, Sizes
<1> QED
    BY <1>2, <1>3

\* An entry is added at the end; the others stay.
LEMMA RingPut ==
    ASSUME NEW from \in 0..UINT16 - 1, NEW to \in 0..UINT16 - 1, Dist(from, to) < NUM,
           NEW ring \in [Descs -> Descs], NEW v \in Descs
    PROVE  LET r == [ring EXCEPT ![to % NUM] = v] IN
           /\ r \in [Descs -> Descs]
           /\ \A k \in 0..Dist(from, to) - 1 : At(r, from, k) = At(ring, from, k)
           /\ At(r, from, Dist(from, to)) = v
<1> DEFINE d == Dist(from, to)
           r == [ring EXCEPT ![to % NUM] = v]
<1>1. d \in 0..NUM - 1 /\ to = (from + d) % UINT16 /\ d \in 0..UINT16 - 1
    BY Between, Sizes
<1> HIDE DEF d
<1>2. to % NUM = (from + d) % NUM
    BY <1>1, Places
<1>3. \A k \in Nat : (from + k) % NUM \in Descs
    BY Sizes DEF Descs
<1>4. At(r, from, d) = v
    BY <1>1, <1>2, <1>3 DEF At
<1>5. ASSUME NEW k \in 0..d - 1 PROVE At(r, from, k) = At(ring, from, k)
    <2> DEFINE x == from + k
               e == d - k
    <2>1. x \in Int /\ e \in 1..NUM - 1 /\ x + e = from + d /\ k \in Nat
        BY <1>1, Sizes
    <2> HIDE DEF e
    <2>2. (x + e) % NUM # x % NUM
        BY <2>1, Apart, Sizes, Zenon
    <2>3. (from + k) % NUM # to % NUM
        BY <1>2, <2>1, <2>2
    <2> QED
        BY <1>3, <2>1, <2>3 DEF At
<1> QED
    BY <1>4, <1>5 DEF d

\* The first entry is removed; the others move up.
LEMMA RingGet ==
    ASSUME NEW from \in 0..UINT16 - 1, NEW ring \in [Descs -> Descs]
    PROVE  /\ At(ring, from, 0) = ring[from % NUM]
           /\ \A k \in Nat : At(ring, Inc(from), k) = At(ring, from, k + 1)
           /\ \A k \in Nat : At(ring, from, k) \in Descs
<1>1. from + 0 = from
    BY Sizes
<1>2. ASSUME NEW k \in Nat PROVE At(ring, Inc(from), k) = At(ring, from, k + 1)
    <2>1. 1 \in 0..UINT16 - 1 /\ from + 1 + k = from + (k + 1)
        BY Sizes
    <2>2. (Inc(from) + k) % NUM = (from + 1 + k) % NUM
        BY <2>1, Places DEF Inc
    <2> QED
        BY <2>1, <2>2 DEF At
<1>3. \A k \in Nat : (from + k) % NUM \in Descs
    BY Sizes DEF Descs
<1> QED
    BY <1>1, <1>2, <1>3 DEF At
-----------------------------------------------------------------------------
(* What the steps of the driver and the device do under the invariant.       *)

\* alloc_desc() finds a free descriptor if there is one.
LEMMA LowestFree == ASSUME NEW S \in SUBSET Descs, S # {} PROVE Lowest(S) \in S
<1> DEFINE Less == {ss \in Nat \X Nat : ss[1] < ss[2]}
<1>1. S \subseteq Nat
    BY Sizes DEF Descs
<1>2. PICK x \in S : \A y \in S : <<y, x>> \notin Less
    <2> HIDE DEF Less
    <2>1. IsWellFoundedOn(Less, Nat)
        BY NatLessThanWellFounded DEF Less, OpToRel
    <2> QED
        BY <1>1, <2>1, WFMin
<1>3. \A y \in S : x <= y
    <2> SUFFICES ASSUME NEW y \in S, y < x PROVE FALSE
        BY <1>1
    <2>1. <<y, x>> \in Less
        BY <1>1
    <2> QED
        BY <1>2, <2>1
<1> QED
    BY <1>3 DEF Lowest

\* alloc3_desc() takes three descriptors.
LEMMA Allocated ==
    ASSUME TypeOK, Cardinality(free) >= 3, NEW a, a = alloc3_desc
    PROVE  /\ a[1] \in free /\ a[2] \in free /\ a[3] \in free
           /\ a[1] # a[2] /\ a[1] # a[3] /\ a[2] # a[3]
           /\ Cardinality(free \ {a[1], a[2], a[3]}) = Cardinality(free) - 3
<1> DEFINE d0 == Lowest(free)
           d1 == Lowest(free \ {d0})
           d2 == Lowest(free \ {d0, d1})
<1>0. a[1] = d0 /\ a[2] = d1 /\ a[3] = d2
    BY DEF alloc3_desc
<1>1. IsFiniteSet(free) /\ free \in SUBSET Descs /\ Cardinality(free) \in Nat
    <2>1. IsFiniteSet(Descs)
        BY Sizes, FS_Interval DEF Descs
    <2> QED
        BY <2>1, FS_Subset, FS_CardinalityType DEF TypeOK
<1>2. d0 \in free
    BY <1>1, LowestFree, FS_EmptySet
<1>3. IsFiniteSet(free \ {d0}) /\ Cardinality(free \ {d0}) = Cardinality(free) - 1
    BY <1>1, <1>2, FS_RemoveElement
<1>4. d1 \in free \ {d0}
    <2>1. free \ {d0} # {}
        BY <1>1, <1>3, FS_EmptySet
    <2> QED
        BY <1>1, <2>1, LowestFree
<1> HIDE DEF d0, d1
<1> DEFINE S1 == free \ {d0}
           S2 == free \ {d0, d1}
<1>5. /\ S2 = S1 \ {d1} /\ d1 \in S1
      /\ IsFiniteSet(S1) /\ Cardinality(S1) = Cardinality(free) - 1
    BY <1>3, <1>4
<1>6. IsFiniteSet(S2) /\ Cardinality(S2) = Cardinality(free) - 2
    <2> HIDE DEF S1, S2
    <2>1. IsFiniteSet(S1 \ {d1}) /\ Cardinality(S1 \ {d1}) = Cardinality(S1) - 1
        BY <1>5, FS_RemoveElement
    <2> QED
        BY <1>1, <1>5, <2>1
<1>7. d2 \in S2
    <2>1. S2 # {}
        BY <1>1, <1>6, FS_EmptySet
    <2> QED
        BY <1>1, <2>1, LowestFree
<1> HIDE DEF d2
<1>8. free \ {d0, d1, d2} = S2 \ {d2}
    OBVIOUS
<1>9. Cardinality(free \ {d0, d1, d2}) = Cardinality(free) - 3
    <2> HIDE DEF S2
    <2>1. Cardinality(S2 \ {d2}) = Cardinality(S2) - 1
        BY <1>6, <1>7, FS_RemoveElement
    <2> QED
        BY <1>1, <1>6, <1>8, <2>1
<1> QED
    BY <1>0, <1>2, <1>4, <1>7, <1>9

\* The rings hold a part of the requests, so none of them is full.
LEMMA RingsNotFull ==
    ASSUME TypeOK, FreeInv, CountInv
    PROVE  /\ Avails \in Nat /\ Avails < NUM /\ Avails + 1 < UINT16
           /\ Useds \in Nat /\ Useds < NUM /\ Useds + 1 < UINT16
           /\ IsFiniteSet(free) /\ Cardinality(free) \in Nat
           /\ IsFiniteSet(taken) /\ Cardinality(taken) \in Nat
           /\ IsFiniteSet(Done) /\ Cardinality(Done) \in Nat
           /\ Cardinality(Waiting) \in Nat
<1>1. IsFiniteSet(Descs)
    BY Sizes, FS_Interval DEF Descs
<1>2. IsFiniteSet(free) /\ IsFiniteSet(taken)
    BY <1>1, FS_Subset DEF TypeOK
<1>3. IsFiniteSet(Done)
    BY FS_Subset DEF FreeInv, Done
<1>4. /\ Cardinality(free) \in Nat /\ Cardinality(taken) \in Nat
      /\ Cardinality(Done) \in Nat /\ Cardinality(Waiting) \in Nat
    BY <1>2, <1>3, FS_CardinalityType DEF FreeInv
<1>5. Avails \in Nat /\ Useds \in Nat
    <2>1. /\ used_idx \in 0..UINT16 - 1 /\ used.idx \in 0..UINT16 - 1
          /\ seen \in 0..UINT16 - 1 /\ avail.idx \in 0..UINT16 - 1
        BY DEF TypeOK
    <2>2. Avails \in 0..UINT16 - 1 /\ Useds \in 0..UINT16 - 1
        BY <2>1, Between DEF Avails, Useds
    <2> QED
        BY <2>2, Sizes
<1> QED
    BY <1>2, <1>3, <1>4, <1>5, Sizes DEF FreeInv, CountInv

\* free_chain() walks the three descriptors of the request.
LEMMA ChainIs == ASSUME ChainInv, NEW p \in Waiting PROVE Chain(idx[p]) = Links(p)
<1>1. desc[idx[p]].flag = 1 /\ desc[Second(p)].flag = 1
    BY DEF ChainInv, Formed
<1> QED
    BY <1>1 DEF Chain, Links, Second, Third

\* DeviceFinish(h) carries out the transfer of the process whose head h is.

\* A chain whose descriptors are not written stays as it is.
LEMMA Kept ==
    ASSUME NEW p, idx'[p] = idx[p], \A d \in Links(p) : desc'[d] = desc[d]
    PROVE  /\ Second(p)' = Second(p) /\ Third(p)' = Third(p) /\ Links(p)' = Links(p)
           /\ info'[idx[p]].b = info[idx[p]].b => Formed(p)' = Formed(p)
<1>1. Second(p)' = Second(p)
    BY DEF Second, Links
<1>2. Third(p)' = Third(p)
    BY <1>1 DEF Third, Links
<1>3. Links(p)' = Links(p)
    BY <1>1, <1>2 DEF Links
<1>4. ASSUME info'[idx[p]].b = info[idx[p]].b PROVE Formed(p)' = Formed(p)
    BY <1>1, <1>2, <1>4 DEF Formed, Links
<1> QED
    BY <1>1, <1>2, <1>3, <1>4

\* Two requests have different heads, which are not free.
LEMMA Heads ==
    ASSUME VirtioInv, NEW p \in Waiting
    PROVE  /\ idx[p] \in Links(p) /\ Links(p) \subseteq Descs \ free
           /\ \A q \in Waiting : idx[p] = idx[q] => p = q
<1>1. \A q \in Waiting : idx[q] \in Links(q) /\ Links(q) \subseteq Descs
    BY DEF Links, Second, Third, VirtioInv, TypeOK, Waiting
<1> QED
    BY <1>1 DEF VirtioInv, ChainInv

\* What a step does that moves no request: at most it clears free descriptors.
Quiet ==
    /\ UNCHANGED <<Waiting, free, info, avail, used_idx, bdisk, idx>>
    /\ UNCHANGED <<used, seen, taken, served>>
    /\ \A d \in Descs \ free : desc'[d] = desc[d]

\* The steps that move no request.
LEMMA QuietSteps ==
    ASSUME TypeOK
    PROVE  /\ \A p \in Procs :
                  virtio_disk_rw_full(p) \/ virtio_disk_rw_again(p) \/ kill(p) => Quiet
           /\ virtio_disk_intr \/ virtio_disk_intr_end \/ UNCHANGED vars => Quiet
<1>1. ASSUME NEW p \in Procs, virtio_disk_rw_full(p) PROVE Quiet
    <2>1. Waiting' = Waiting
        BY <1>1 DEF virtio_disk_rw_full, Begins, WakeFree, Waiting, TypeOK
    <2>2. \A d \in Descs \ free : desc'[d] = desc[d]
        BY <1>1 DEF virtio_disk_rw_full
    <2> QED
        BY <1>1, <2>1, <2>2 DEF virtio_disk_rw_full, device, Quiet
<1>2. ASSUME NEW p \in Procs, virtio_disk_rw_again(p) PROVE Quiet
    <2>1. Waiting' = Waiting
        BY <1>2 DEF virtio_disk_rw_again, Waiting, TypeOK
    <2> QED
        BY <1>2, <2>1 DEF virtio_disk_rw_again, device, Quiet
<1>3. ASSUME NEW p \in Procs, kill(p) PROVE Quiet
    <2>1. Waiting' = Waiting
        BY <1>3 DEF kill, Waiting, TypeOK
    <2> QED
        BY <1>3, <2>1 DEF kill, device, Quiet
<1>4. ASSUME virtio_disk_intr \/ virtio_disk_intr_end \/ UNCHANGED vars PROVE Quiet
    <2>1. UNCHANGED <<driver, used, seen, taken, served>>
        BY <1>4 DEF virtio_disk_intr, virtio_disk_intr_end, vars, device
    <2> QED
        BY <2>1 DEF driver, Quiet, Waiting
<1> QED
    BY <1>1, <1>2, <1>3, <1>4

\* Every other step moves one request.
LEMMA Moves ==
    ASSUME VirtioInv, [Next]_vars
    PROVE  \/ Quiet \/ virtio_disk_intr_loop \/ DeviceTake
           \/ \E p \in Procs : virtio_disk_rw(p) \/ virtio_disk_rw_done(p)
           \/ \E h \in Descs : DeviceFinish(h)
BY QuietSteps DEF Next, Intr, Device, VirtioInv

\* virtio_disk_rw(): a chain of free descriptors is published.
LEMMA Calls ==
    ASSUME TypeOK, NEW p \in Procs, virtio_disk_rw(p)
    PROVE  /\ p \notin Waiting /\ Waiting' = Waiting \cup {p}
           /\ UNCHANGED <<used_idx, used, seen, taken, served>>
           /\ bdisk'[p] = 1 /\ Formed(p)'
           /\ \A q \in Procs : q # p => idx'[q] = idx[q] /\ bdisk'[q] = bdisk[q]
           /\ idx'[p] \in Links(p)' /\ Links(p)' \subseteq free /\ free' = free \ Links(p)'
           /\ Cardinality(free') = Cardinality(free) - 3
           /\ \A d \in Descs \ Links(p)' : desc'[d] = desc[d] /\ info'[d] = info[d]
           /\ avail' = [ring |-> [avail.ring EXCEPT ![avail.idx % NUM] = idx'[p]],
                        idx |-> Inc(avail.idx)]
<1> DEFINE a == alloc3_desc
<1>1. /\ a[1] \in free /\ a[2] \in free /\ a[3] \in free
      /\ a[1] # a[2] /\ a[1] # a[3] /\ a[2] # a[3]
      /\ Cardinality(free \ {a[1], a[2], a[3]}) = Cardinality(free) - 3
    BY Allocated DEF virtio_disk_rw
<1> HIDE DEF a
<1>2. /\ desc' = [desc EXCEPT ![a[1]] = [addr |-> p, next |-> a[2], flag |-> 1],
                              ![a[2]] = [addr |-> p, next |-> a[3], flag |-> 1],
                              ![a[3]] = [addr |-> a[1], next |-> 0, flag |-> 0]]
      /\ info' = [info EXCEPT ![a[1]] = [b |-> p, status |-> 255]]
      /\ idx' = [idx EXCEPT ![p] = a[1]]
      /\ free' = free \ {a[1], a[2], a[3]}
      /\ avail' = [ring |-> [avail.ring EXCEPT ![avail.idx % NUM] = a[1]],
                   idx |-> Inc(avail.idx)]
      /\ bdisk' = [bdisk EXCEPT ![p] = 1]
      /\ UNCHANGED <<used_idx, used, seen, taken, served>>
    BY DEF virtio_disk_rw, device, a
<1>3. p \notin Waiting /\ Waiting' = Waiting \cup {p}
    BY DEF virtio_disk_rw, Begins, Waiting, TypeOK
<1>4. /\ free \subseteq Descs
      /\ desc \in [Descs -> [addr : Procs \cup Descs \cup {NoBuf}, next : Descs,
                             flag : {0, 1}]]
      /\ info \in [Descs -> [b : Procs \cup {NoBuf}, status : {0, 255}]]
      /\ idx \in [Procs -> Descs] /\ bdisk \in [Procs -> {0, 1}]
    BY DEF TypeOK
<1>5. /\ desc'[a[1]] = [addr |-> p, next |-> a[2], flag |-> 1]
      /\ desc'[a[2]] = [addr |-> p, next |-> a[3], flag |-> 1]
      /\ desc'[a[3]] = [addr |-> a[1], next |-> 0, flag |-> 0]
      /\ \A d \in Descs \ {a[1], a[2], a[3]} : desc'[d] = desc[d]
    BY <1>1, <1>2, <1>4
<1>6. /\ info'[a[1]].b = p /\ \A d \in Descs \ {a[1]} : info'[d] = info[d]
      /\ idx'[p] = a[1] /\ \A q \in Procs : q # p => idx'[q] = idx[q]
      /\ bdisk'[p] = 1 /\ \A q \in Procs : q # p => bdisk'[q] = bdisk[q]
    BY <1>1, <1>2, <1>4
<1>7. Second(p)' = a[2] /\ Third(p)' = a[3]
    BY <1>5, <1>6 DEF Second, Third
<1>8. Links(p)' = {a[1], a[2], a[3]}
    BY <1>6, <1>7 DEF Links
<1>9. Formed(p)'
    BY <1>1, <1>5, <1>6, <1>7 DEF Formed
<1> QED
    BY <1>1, <1>2, <1>3, <1>5, <1>6, <1>8, <1>9, Zenon

\* virtio_disk_rw() returns: its chain is free again.
LEMMA Returns ==
    ASSUME VirtioInv, NEW p \in Procs, virtio_disk_rw_done(p)
    PROVE  /\ p \in Done /\ Waiting' = Waiting \ {p}
           /\ UNCHANGED <<avail, used_idx, bdisk, used, seen, taken>>
           /\ served' = served \ {p}
           /\ free' = free \cup Links(p)
           /\ \A q \in Procs : q # p => idx'[q] = idx[q]
           /\ \A d \in Descs \ Links(p) : desc'[d] = desc[d] /\ info'[d] = info[d]
<1>1. p \in Waiting /\ Waiting' = Waiting \ {p} /\ p \in Done
    BY DEF virtio_disk_rw_done, WakeFree, Waiting, Done, VirtioInv, TypeOK
<1>2. Chain(idx[p]) = Links(p) /\ idx[p] \in Links(p)
    BY <1>1, ChainIs, Heads DEF VirtioInv
<1>3. idx' = [idx EXCEPT ![p] = 0] /\ info' = [info EXCEPT ![idx[p]].b = NoBuf]
    BY DEF virtio_disk_rw_done
<1>4. \A q \in Procs : q # p => idx'[q] = idx[q]
    BY <1>3 DEF VirtioInv, TypeOK
<1>5. \A d \in Descs \ Links(p) : info'[d] = info[d]
    BY <1>2, <1>3 DEF VirtioInv, TypeOK
<1>6. \A d \in Descs \ Links(p) : desc'[d] = desc[d]
    BY <1>2 DEF virtio_disk_rw_done
<1> QED
    BY <1>1, <1>2, <1>4, <1>5, <1>6 DEF virtio_disk_rw_done

\* DeviceTake moves the head of a chain from the avail ring to the device.
LEMMA Takes ==
    ASSUME DeviceTake
    PROVE  /\ UNCHANGED <<Waiting, free, desc, info, avail, used_idx, bdisk, idx>>
           /\ UNCHANGED <<used, served>>
           /\ seen # avail.idx /\ seen' = Inc(seen)
           /\ taken' = taken \cup {avail.ring[seen % NUM]}
BY DEF DeviceTake, driver, Waiting

\* DeviceFinish(h) carries out the transfer of the process whose head h is.
LEMMA Finishes ==
    ASSUME VirtioInv, NEW h \in Descs, DeviceFinish(h)
    PROVE  \E p \in Unserved :
               /\ h = idx[p] /\ h \in taken
               /\ served' = served \cup {p} /\ taken' = taken \ {h}
               /\ info' = [info EXCEPT ![h].status = 0]
               /\ used' = [ring |-> [used.ring EXCEPT ![used.idx % NUM] = h],
                           idx |-> Inc(used.idx)]
               /\ irq' = 1
               /\ UNCHANGED <<free, desc, avail, used_idx, bdisk, pc, idx, seen, lock>>
               /\ UNCHANGED Waiting
<1>1. h \in taken
    BY Zenon DEF DeviceFinish
<1>2. PICK p \in Unserved : h = idx[p]
    <2>1. AvailInv
        BY DEF VirtioInv
    <2> QED
        BY <1>1, <2>1 DEF AvailInv
<1>3. desc[desc[h].next].addr = p /\ desc[desc[desc[h].next].next].addr = h
    BY <1>2 DEF VirtioInv, ChainInv, Formed, Unserved, Second, Third
<1>4. /\ taken' = taken \ {h} /\ irq' = 1
      /\ served' = served \cup {desc[desc[h].next].addr}
      /\ info' = [info EXCEPT ![desc[desc[desc[h].next].next].addr].status = 0]
      /\ used' = [ring |-> [used.ring EXCEPT ![used.idx % NUM] = h], idx |-> Inc(used.idx)]
      /\ UNCHANGED <<free, desc, avail, used_idx, bdisk, pc, idx, seen, lock>>
    BY Zenon DEF DeviceFinish
<1>5. Waiting' = Waiting
    BY <1>4, Zenon DEF Waiting
<1> QED
    BY <1>1, <1>2, <1>3, <1>4, <1>5, Zenon

\* The interrupt handler finds the process whose request is finished.
LEMMA Handles ==
    ASSUME VirtioInv, virtio_disk_intr_loop
    PROVE  \E p \in Waiting \cap served :
               /\ Used(0) = idx[p] /\ bdisk[p] = 1
               /\ bdisk' = [bdisk EXCEPT ![p] = 0]
               /\ pc' = [pc EXCEPT ![p] = "woken"]
               /\ used_idx # used.idx /\ used_idx' = Inc(used_idx)
               /\ UNCHANGED <<Waiting, free, desc, info, avail, idx, device, lock>>
<1> DEFINE b == info[used.ring[used_idx % NUM]].b
<1>1. /\ bdisk' = [bdisk EXCEPT ![b] = 0]
      /\ pc' = [pc EXCEPT ![b] = IF @ = "wait" THEN "woken" ELSE @]
      /\ used_idx # used.idx /\ used_idx' = Inc(used_idx)
      /\ UNCHANGED <<free, desc, info, avail, idx, device, lock>>
    BY Zenon DEF virtio_disk_intr_loop
<1>2. /\ used_idx \in 0..UINT16 - 1 /\ used.idx \in 0..UINT16 - 1
      /\ used.ring \in [Descs -> Descs]
    BY DEF VirtioInv, TypeOK
<1>3. 0 \in 0..Useds - 1 /\ Used(0) = used.ring[used_idx % NUM]
    <2>1. Useds # 0 /\ Useds \in 0..UINT16 - 1
        BY <1>1, <1>2, Between, Zenon DEF Useds
    <2> QED
        BY <1>2, <2>1, RingGet, Sizes DEF Used
<1>4. PICK p \in Waiting \cap served : Used(0) = idx[p] /\ bdisk[p] = 1
    BY <1>3 DEF VirtioInv, UsedInv
<1>5. b = p
    BY <1>3, <1>4 DEF VirtioInv, ChainInv, Formed
<1> HIDE DEF b
<1>6. /\ pc[p] \in {"wait", "woken"}
      /\ pc \in [Procs -> {"idle", "retry", "no_desc", "wait", "woken"}]
    BY DEF Waiting, VirtioInv, TypeOK
<1>7. pc' = [pc EXCEPT ![p] = "woken"]
    BY <1>1, <1>5, <1>6, Zenon DEF Waiting
<1>8. Waiting' = Waiting
    BY <1>6, <1>7 DEF Waiting
<1> QED
    BY <1>1, <1>4, <1>5, <1>7, <1>8, Zenon

-----------------------------------------------------------------------------
(* The entries of the rings.                                                 *)

\* Steps that do not touch a ring.
LEMMA SameRings ==
    /\ UNCHANGED <<avail, seen>> => Avails' = Avails /\ \A k \in Nat : Avail(k)' = Avail(k)
    /\ UNCHANGED <<used, used_idx>> => Useds' = Useds /\ \A k \in Nat : Used(k)' = Used(k)
BY DEF Avails, Avail, Useds, Used, Dist, At

\* virtio_disk_rw() publishes the head of its chain.
LEMMA AvailPut ==
    ASSUME VirtioInv, NEW p \in Procs, virtio_disk_rw(p)
    PROVE  /\ Avails' = Avails + 1
           /\ \A k \in 0..Avails - 1 : Avail(k)' = Avail(k)
           /\ \A k \in Nat : k = Avails => Avail(k)' = idx'[p]
<1> DEFINE h == idx'[p]
<1>1. /\ h \in Descs /\ seen' = seen
      /\ avail' = [ring |-> [avail.ring EXCEPT ![avail.idx % NUM] = h],
                   idx |-> Inc(avail.idx)]
    BY Calls DEF VirtioInv, TypeOK
<1> HIDE DEF h
<1>2. /\ seen \in 0..UINT16 - 1 /\ avail.idx \in 0..UINT16 - 1
      /\ avail.ring \in [Descs -> Descs]
    BY DEF VirtioInv, TypeOK
<1>3. /\ avail'.ring = [avail.ring EXCEPT ![avail.idx % NUM] = h]
      /\ avail'.idx = Inc(avail.idx)
    BY <1>1
<1>4. Avails \in Nat /\ Avails < NUM /\ Avails + 1 < UINT16
    BY RingsNotFull DEF VirtioInv
<1>5. Avails' = Avails + 1
    <2>1. Avails' = Dist(seen, Inc(avail.idx))
        BY <1>1, <1>3 DEF Avails
    <2>2. Avails + 1 < UINT16 => Dist(seen, Inc(avail.idx)) = Avails + 1
        BY <1>2, Between, Zenon DEF Avails
    <2> QED
        BY <1>4, <2>1, <2>2
<1>6. \A k \in 0..Avails - 1 : Avail(k)' = Avail(k)
    BY <1>1, <1>2, <1>3, <1>4, RingPut DEF Avails, Avail
<1>7. \A k \in Nat : k = Avails => Avail(k)' = h
    BY <1>1, <1>2, <1>3, <1>4, RingPut DEF Avails, Avail
<1> QED
    BY <1>5, <1>6, <1>7 DEF h

\* The device takes the first published head.
LEMMA AvailGet ==
    ASSUME VirtioInv, DeviceTake
    PROVE  /\ Avails > 0 /\ Avails' = Avails - 1
           /\ \A k \in Nat : Avail(k)' = Avail(k + 1)
           /\ taken' = taken \cup {Avail(0)}
<1>1. /\ seen \in 0..UINT16 - 1 /\ avail.idx \in 0..UINT16 - 1
      /\ avail.ring \in [Descs -> Descs]
    BY DEF VirtioInv, TypeOK
<1>2. Avails > 0 /\ Avails' = Avails - 1
    <2>1. Avails' = Dist(Inc(seen), avail.idx)
        BY Takes DEF Avails
    <2>2. /\ Avails \in 0..UINT16 - 1 /\ Avails # 0
          /\ Avails > 0 => Dist(Inc(seen), avail.idx) = Avails - 1
        BY <1>1, Takes, Between, Zenon DEF Avails
    <2> QED
        BY <2>1, <2>2, Sizes
<1>3. \A k \in Nat : Avail(k)' = Avail(k + 1)
    BY <1>1, Takes, RingGet DEF Avail
<1>4. Avail(0) = avail.ring[seen % NUM]
    BY <1>1, RingGet DEF Avail
<1> QED
    BY <1>2, <1>3, <1>4, Takes

\* The device reports a head.
LEMMA UsedPut ==
    ASSUME VirtioInv, NEW h \in Descs, DeviceFinish(h)
    PROVE  /\ Useds' = Useds + 1
           /\ \A k \in 0..Useds - 1 : Used(k)' = Used(k)
           /\ \A k \in Nat : k = Useds => Used(k)' = h
<1>1. /\ used_idx' = used_idx
      /\ used' = [ring |-> [used.ring EXCEPT ![used.idx % NUM] = h], idx |-> Inc(used.idx)]
    BY Finishes
<1>2. /\ used_idx \in 0..UINT16 - 1 /\ used.idx \in 0..UINT16 - 1
      /\ used.ring \in [Descs -> Descs]
    BY DEF VirtioInv, TypeOK
<1>3. used'.ring = [used.ring EXCEPT ![used.idx % NUM] = h] /\ used'.idx = Inc(used.idx)
    BY <1>1
<1>4. Useds \in Nat /\ Useds < NUM /\ Useds + 1 < UINT16
    BY RingsNotFull DEF VirtioInv
<1>5. Useds' = Useds + 1
    <2>1. Useds' = Dist(used_idx, Inc(used.idx))
        BY <1>1, <1>3 DEF Useds
    <2>2. Useds + 1 < UINT16 => Dist(used_idx, Inc(used.idx)) = Useds + 1
        BY <1>2, Between, Zenon DEF Useds
    <2> QED
        BY <1>4, <2>1, <2>2
<1>6. \A k \in 0..Useds - 1 : Used(k)' = Used(k)
    BY <1>1, <1>2, <1>3, <1>4, RingPut DEF Useds, Used
<1>7. \A k \in Nat : k = Useds => Used(k)' = h
    BY <1>1, <1>2, <1>3, <1>4, RingPut DEF Useds, Used
<1> QED
    BY <1>5, <1>6, <1>7

\* The interrupt handler goes on to the next entry.
LEMMA UsedGet ==
    ASSUME VirtioInv, virtio_disk_intr_loop
    PROVE  Useds > 0 /\ Useds' = Useds - 1 /\ \A k \in Nat : Used(k)' = Used(k + 1)
<1>1. /\ used_idx \in 0..UINT16 - 1 /\ used.idx \in 0..UINT16 - 1
      /\ used.ring \in [Descs -> Descs]
    BY DEF VirtioInv, TypeOK
<1>2. used_idx' = Inc(used_idx) /\ used' = used /\ used_idx # used.idx
    BY Handles DEF device
<1>3. Useds > 0 /\ Useds' = Useds - 1
    <2>1. Useds' = Dist(Inc(used_idx), used.idx)
        BY <1>2 DEF Useds
    <2>2. /\ Useds \in 0..UINT16 - 1 /\ Useds # 0
          /\ Useds > 0 => Dist(Inc(used_idx), used.idx) = Useds - 1
        BY <1>1, <1>2, Between, Zenon DEF Useds
    <2> QED
        BY <2>1, <2>2, Sizes
<1>4. \A k \in Nat : Used(k)' = Used(k + 1)
    BY <1>1, <1>2, RingGet DEF Used
<1> QED
    BY <1>3, <1>4

-----------------------------------------------------------------------------
(* Every step keeps VirtioInv.                                               *)

\* Every variable keeps its type.
LEMMA TypeStep == ASSUME VirtioInv, [Next]_vars PROVE TypeOK'
<1>0. TypeOK
    BY DEF VirtioInv
<1> DEFINE D == [addr : Procs \cup Descs \cup {NoBuf}, next : Descs, flag : {0, 1}]
           F == [b : Procs \cup {NoBuf}, status : {0, 255}]
           R == [ring : [Descs -> Descs], idx : 0..UINT16 - 1]
           P == {"idle", "retry", "no_desc", "wait", "woken"}
<1>1. ASSUME NEW p \in Procs, virtio_disk_rw_full(p) PROVE TypeOK'
    <2>1. Zeroed \in D
        BY Sizes DEF Zeroed
    <2>2. desc' \in [Descs -> D]
        <3> HIDE DEF D
        <3> QED
            BY <1>1, <2>1 DEF virtio_disk_rw_full, D, TypeOK, VirtioInv
    <2>3. pc' \in [Procs -> P]
        BY <1>0, <1>1 DEF virtio_disk_rw_full, WakeFree, TypeOK
    <2> HIDE DEF D, P
    <2> QED
        BY <1>0, <1>1, <2>2, <2>3, Zenon DEF virtio_disk_rw_full, device, TypeOK, D, P
<1>2. ASSUME NEW p \in Procs, virtio_disk_rw(p) PROVE TypeOK'
    <2> DEFINE a == alloc3_desc
    <2>1. a[1] \in Descs /\ a[2] \in Descs /\ a[3] \in Descs
        BY <1>0, <1>2, Allocated, Zenon DEF virtio_disk_rw, TypeOK
    <2> HIDE DEF a
    <2>2. avail' \in R
        <3>1. Inc(avail.idx) \in 0..UINT16 - 1
            BY <1>0, Between DEF TypeOK
        <3>2. [avail.ring EXCEPT ![avail.idx % NUM] = a[1]] \in [Descs -> Descs]
            BY <1>0, <2>1, Zenon DEF TypeOK
        <3>3. avail' = [ring |-> [avail.ring EXCEPT ![avail.idx % NUM] = a[1]],
                        idx |-> Inc(avail.idx)]
            BY <1>2 DEF virtio_disk_rw, a
        <3> QED
            BY <3>1, <3>2, <3>3
    <2>3. desc' \in [Descs -> D]
        <3>1. /\ [addr |-> p, next |-> a[2], flag |-> 1] \in D
              /\ [addr |-> p, next |-> a[3], flag |-> 1] \in D
              /\ [addr |-> a[1], next |-> 0, flag |-> 0] \in D
            BY <2>1, Sizes
        <3>2. desc \in [Descs -> D]
            BY <1>0 DEF TypeOK
        <3> HIDE DEF D
        <3> QED
            BY <1>2, <2>1, <3>1, <3>2 DEF virtio_disk_rw, a
    <2>4. info' \in [Descs -> F]
        BY <1>0, <1>2, <2>1 DEF virtio_disk_rw, a, TypeOK
    <2>5. idx' \in [Procs -> Descs] /\ free' \in SUBSET Descs
        BY <1>0, <1>2, <2>1 DEF virtio_disk_rw, a, TypeOK
    <2>6. pc' \in [Procs -> P] /\ bdisk' \in [Procs -> {0, 1}]
        BY <1>0, <1>2 DEF virtio_disk_rw, TypeOK
    <2>7. UNCHANGED <<used_idx, used, seen, taken, irq, served, lock>>
        BY <1>2 DEF virtio_disk_rw, device
    <2> QED
        BY <1>0, <2>2, <2>3, <2>4, <2>5, <2>6, <2>7, Zenon DEF TypeOK
<1>3. ASSUME NEW p \in Procs, virtio_disk_rw_again(p) PROVE TypeOK'
    BY <1>0, <1>3 DEF virtio_disk_rw_again, device, TypeOK
<1>4. ASSUME NEW p \in Procs, virtio_disk_rw_done(p) PROVE TypeOK'
    <2>1. Chain(idx[p]) \in SUBSET Descs
        BY <1>0 DEF Chain, TypeOK
    <2>2. free' \in SUBSET Descs
        BY <1>0, <1>4, <2>1 DEF virtio_disk_rw_done, TypeOK
    <2>3. desc' \in [Descs -> D]
        <3>1. Zeroed \in D /\ desc \in [Descs -> D]
            BY <1>0, Sizes DEF Zeroed, TypeOK
        <3> HIDE DEF D
        <3> QED
            BY <1>4, <3>1 DEF virtio_disk_rw_done
    <2>4. info' \in [Descs -> F]
        BY <1>0, <1>4 DEF virtio_disk_rw_done, TypeOK
    <2>5. pc' \in [Procs -> P] /\ idx' \in [Procs -> Descs]
        BY <1>0, <1>4, Sizes DEF virtio_disk_rw_done, WakeFree, TypeOK
    <2>6. /\ served' \in SUBSET Procs
          /\ UNCHANGED <<avail, used_idx, bdisk, used, seen, taken, irq, lock>>
        BY <1>0, <1>4 DEF virtio_disk_rw_done, TypeOK
    <2> QED
        BY <1>0, <2>2, <2>3, <2>4, <2>5, <2>6, Zenon DEF TypeOK
<1>5. ASSUME NEW p \in Procs, kill(p) PROVE TypeOK'
    BY <1>0, <1>5 DEF kill, device, TypeOK
<1>6. ASSUME virtio_disk_intr \/ virtio_disk_intr_end \/ UNCHANGED vars PROVE TypeOK'
    <2>1. /\ UNCHANGED <<driver, used, seen, taken, served>>
          /\ lock' \in {0, 1} /\ irq' \in {0, 1}
        BY <1>0, <1>6 DEF virtio_disk_intr, virtio_disk_intr_end, vars, device, TypeOK
    <2> QED
        BY <1>0, <2>1 DEF driver, TypeOK
<1>7. ASSUME virtio_disk_intr_loop PROVE TypeOK'
    <2>1. Inc(used_idx) \in 0..UINT16 - 1
        BY <1>0, Between DEF TypeOK
    <2>2. PICK p \in Waiting \cap served :
              /\ bdisk' = [bdisk EXCEPT ![p] = 0]
              /\ pc' = [pc EXCEPT ![p] = "woken"]
              /\ used_idx' = Inc(used_idx)
              /\ UNCHANGED <<Waiting, free, desc, info, avail, idx, device, lock>>
        BY <1>7, Handles
    <2>3. bdisk' \in [Procs -> {0, 1}] /\ pc' \in [Procs -> P]
        BY <1>0, <2>2 DEF TypeOK, Waiting
    <2> QED
        BY <1>0, <2>1, <2>2, <2>3 DEF device, TypeOK
<1>8. ASSUME DeviceTake PROVE TypeOK'
    <2>1. Inc(seen) \in 0..UINT16 - 1 /\ seen \in 0..UINT16 - 1
        BY <1>0, Between, Zenon DEF TypeOK
    <2>2. avail.ring[seen % NUM] \in Descs
        <3>1. seen % NUM \in Descs
            BY <2>1, Sizes DEF Descs
        <3> QED
            BY <1>0, <3>1 DEF TypeOK
    <2> QED
        BY <1>0, <1>8, <2>1, <2>2 DEF DeviceTake, driver, TypeOK
<1>9. ASSUME NEW h \in Descs, DeviceFinish(h) PROVE TypeOK'
    <2>1. PICK p \in Unserved :
               /\ served' = served \cup {p} /\ taken' = taken \ {h}
               /\ info' = [info EXCEPT ![h].status = 0]
               /\ used' = [ring |-> [used.ring EXCEPT ![used.idx % NUM] = h],
                           idx |-> Inc(used.idx)]
               /\ irq' = 1
               /\ UNCHANGED <<free, desc, avail, used_idx, bdisk, pc, idx, seen, lock>>
        BY <1>9, Finishes
    <2>2. used' \in R
        <3>1. Inc(used.idx) \in 0..UINT16 - 1
            BY <1>0, Between DEF TypeOK
        <3>2. [used.ring EXCEPT ![used.idx % NUM] = h] \in [Descs -> Descs]
            BY <1>0, Zenon DEF TypeOK
        <3> QED
            BY <2>1, <3>1, <3>2
    <2>3. served' \in SUBSET Procs /\ taken' \in SUBSET Descs
        BY <1>0, <2>1 DEF TypeOK, Unserved, Waiting
    <2>4. info' \in [Descs -> F]
        <3>1. info \in [Descs -> F]
            BY <1>0 DEF TypeOK
        <3> QED
            BY <2>1, <3>1
    <2> QED
        BY <1>0, <2>1, <2>2, <2>3, <2>4 DEF TypeOK
<1> QED
    BY <1>1, <1>2, <1>3, <1>4, <1>5, <1>6, <1>7, <1>8, <1>9 DEF Next, Intr, Device

\* Requests that a step leaves alone keep their chains.
LEMMA ChainsKept ==
    ASSUME ChainInv, Waiting' \subseteq Waiting,
           \A p \in Waiting' : /\ idx'[p] = idx[p] /\ info'[idx[p]].b = info[idx[p]].b
                               /\ \A d \in Links(p) : desc'[d] = desc[d]
                               /\ Links(p) \cap free' = {}
    PROVE  ChainInv'
<1>1. \A p \in Waiting' : Links(p)' = Links(p) /\ Formed(p)' = Formed(p)
    BY Kept
<1> QED
    BY <1>1 DEF ChainInv

\* A chain is built from free descriptors and freed as a whole.
LEMMA ChainStep == ASSUME VirtioInv, [Next]_vars PROVE ChainInv'
<1>1. ASSUME Quiet PROVE ChainInv'
    <2>1. \A q \in Waiting : \A d \in Links(q) : desc'[d] = desc[d]
        BY <1>1, Heads DEF Quiet
    <2> QED
        BY <1>1, <2>1, ChainsKept DEF Quiet, VirtioInv, ChainInv
<1>2. ASSUME NEW p \in Procs, virtio_disk_rw(p) PROVE ChainInv'
    <2>1. /\ p \notin Waiting /\ Waiting' = Waiting \cup {p} /\ Formed(p)'
          /\ Links(p)' \subseteq free /\ free' = free \ Links(p)'
          /\ \A q \in Procs : q # p => idx'[q] = idx[q]
          /\ \A d \in Descs \ Links(p)' : desc'[d] = desc[d] /\ info'[d] = info[d]
        BY <1>2, Calls DEF VirtioInv
    <2>2. \A q \in Waiting : /\ q \in Procs /\ q # p /\ idx[q] \in Links(q)
                             /\ \A d \in Links(q) : d \in Descs /\ d \notin free
        BY <2>1, Heads DEF Waiting
    <2>3. \A q \in Waiting : Links(q)' = Links(q) /\ Formed(q)' = Formed(q)
        BY <2>1, <2>2, Kept
    <2>4. \A q \in Waiting' : Formed(q)' /\ Links(q)' \cap free' = {}
        BY <2>1, <2>2, <2>3 DEF VirtioInv, ChainInv
    <2>5. \A q \in Waiting : Links(q)' \cap Links(p)' = {}
        BY <2>1, <2>2, <2>3
    <2>6. \A q, r \in Waiting' : q # r => Links(q)' \cap Links(r)' = {}
        BY <2>1, <2>3, <2>5 DEF VirtioInv, ChainInv
    <2> QED
        BY <2>4, <2>6 DEF ChainInv
<1>3. ASSUME NEW p \in Procs, virtio_disk_rw_done(p) PROVE ChainInv'
    <2>1. /\ p \in Waiting /\ Waiting' = Waiting \ {p} /\ free' = free \cup Links(p)
          /\ \A q \in Procs : q # p => idx'[q] = idx[q]
          /\ \A d \in Descs \ Links(p) : desc'[d] = desc[d] /\ info'[d] = info[d]
        BY <1>3, Returns DEF Done
    <2>2. \A q \in Waiting' : /\ q \in Procs /\ q # p /\ idx[q] \in Links(q)
                              /\ Links(q) \cap free' = {}
                              /\ \A d \in Links(q) : d \in Descs \ Links(p)
        BY <2>1, Heads DEF Waiting, VirtioInv, ChainInv
    <2> QED
        BY <2>1, <2>2, ChainsKept DEF VirtioInv
<1>4. ASSUME DeviceTake PROVE ChainInv'
    BY <1>4, Takes, ChainsKept DEF VirtioInv, ChainInv
<1>5. ASSUME NEW h \in Descs, DeviceFinish(h) PROVE ChainInv'
    <2>1. info' = [info EXCEPT ![h].status = 0] /\ UNCHANGED <<free, desc, idx, Waiting>>
        BY <1>5, Finishes
    <2>2. \A q \in Waiting : info'[idx[q]].b = info[idx[q]].b
        BY <2>1 DEF VirtioInv, Waiting, TypeOK
    <2> QED
        BY <2>1, <2>2, ChainsKept DEF VirtioInv, ChainInv
<1>6. ASSUME virtio_disk_intr_loop PROVE ChainInv'
    BY <1>6, Handles, ChainsKept DEF VirtioInv, ChainInv
<1> QED
    BY <1>1, <1>2, <1>3, <1>4, <1>5, <1>6, Moves

\* A request takes three descriptors from the free ones and gives them back.
LEMMA FreeStep == ASSUME VirtioInv, [Next]_vars PROVE FreeInv'
<1>1. ASSUME Quiet PROVE FreeInv'
    BY <1>1 DEF Quiet, VirtioInv, FreeInv
<1>2. ASSUME NEW p \in Procs, virtio_disk_rw(p) PROVE FreeInv'
    <2>1. IsFiniteSet(Waiting') /\ Cardinality(Waiting') = Cardinality(Waiting) + 1
        BY <1>2, Calls, FS_AddElement DEF VirtioInv, FreeInv
    <2>2. Cardinality(free') = Cardinality(free) - 3
        BY <1>2, Calls DEF VirtioInv
    <2> QED
        BY <2>1, <2>2, RingsNotFull DEF VirtioInv, FreeInv
<1>3. ASSUME NEW p \in Procs, virtio_disk_rw_done(p) PROVE FreeInv'
    <2>1. p \in Waiting /\ Waiting' = Waiting \ {p} /\ free' = free \cup Links(p)
        BY <1>3, Returns DEF Done
    <2>2. IsFiniteSet(Waiting') /\ Cardinality(Waiting') = Cardinality(Waiting) - 1
        BY <2>1, FS_RemoveElement DEF VirtioInv, FreeInv
    <2>3. IsFiniteSet(free) /\ Cardinality(free) \in Nat
        BY RingsNotFull DEF VirtioInv
    <2> DEFINE S1 == free \cup {idx[p]}
               S2 == S1 \cup {Second(p)}
    <2>4. idx[p] \notin free /\ Second(p) \notin S1 /\ Third(p) \notin S2
        BY <2>1 DEF VirtioInv, ChainInv, Formed, Links
    <2>5. free' = S2 \cup {Third(p)}
        BY <2>1 DEF Links
    <2>6. IsFiniteSet(S1) /\ Cardinality(S1) = Cardinality(free) + 1
        BY <2>3, <2>4, FS_AddElement
    <2> HIDE DEF S1
    <2>7. IsFiniteSet(S2) /\ Cardinality(S2) = Cardinality(S1) + 1
        BY <2>4, <2>6, FS_AddElement
    <2> HIDE DEF S2
    <2>8. Cardinality(free') = Cardinality(S2) + 1
        BY <2>4, <2>5, <2>7, FS_AddElement
    <2> QED
        BY <2>2, <2>3, <2>6, <2>7, <2>8, RingsNotFull DEF VirtioInv, FreeInv
<1>4. ASSUME DeviceTake PROVE FreeInv'
    BY <1>4, Takes DEF VirtioInv, FreeInv
<1>5. ASSUME NEW h \in Descs, DeviceFinish(h) PROVE FreeInv'
    BY <1>5, Finishes DEF VirtioInv, FreeInv
<1>6. ASSUME virtio_disk_intr_loop PROVE FreeInv'
    BY <1>6, Handles DEF VirtioInv, FreeInv
<1> QED
    BY <1>1, <1>2, <1>3, <1>4, <1>5, <1>6, Moves

\* The device serves a request before the handler marks it as done.
LEMMA ServeStep == ASSUME VirtioInv, [Next]_vars PROVE ServeInv'
<1>1. ASSUME Quiet PROVE ServeInv'
    BY <1>1 DEF Quiet, VirtioInv, ServeInv, Done
<1>2. ASSUME NEW p \in Procs, virtio_disk_rw(p) PROVE ServeInv'
    <2>1. /\ Waiting' = Waiting \cup {p} /\ served' = served /\ bdisk'[p] = 1
          /\ \A q \in Procs : q # p => bdisk'[q] = bdisk[q]
        BY <1>2, Calls DEF VirtioInv
    <2> QED
        BY <2>1 DEF VirtioInv, ServeInv, Done, Waiting
<1>3. ASSUME NEW p \in Procs, virtio_disk_rw_done(p) PROVE ServeInv'
    <2>1. p \in Done /\ Waiting' = Waiting \ {p} /\ bdisk' = bdisk /\ served' = served \ {p}
        BY <1>3, Returns
    <2> QED
        BY <2>1 DEF VirtioInv, ServeInv, Done
<1>4. ASSUME DeviceTake PROVE ServeInv'
    BY <1>4, Takes DEF VirtioInv, ServeInv, Done
<1>5. ASSUME NEW h \in Descs, DeviceFinish(h) PROVE ServeInv'
    <2>1. PICK p \in Unserved : /\ served' = served \cup {p}
                                /\ UNCHANGED <<bdisk, Waiting>>
        BY <1>5, Finishes
    <2> QED
        BY <2>1 DEF VirtioInv, ServeInv, Done, Unserved
<1>6. ASSUME virtio_disk_intr_loop PROVE ServeInv'
    <2>1. PICK p \in Waiting \cap served :
              bdisk' = [bdisk EXCEPT ![p] = 0] /\ UNCHANGED <<Waiting, served>>
        BY <1>6, Handles DEF device
    <2>2. \A q \in Procs : bdisk'[q] = IF q = p THEN 0 ELSE bdisk[q]
        BY <2>1 DEF VirtioInv, TypeOK
    <2> QED
        BY <2>1, <2>2 DEF VirtioInv, ServeInv, Done, Waiting
<1> QED
    BY <1>1, <1>2, <1>3, <1>4, <1>5, <1>6, Moves

\* The device raises an interrupt for what it adds; the handler reads to the end.
LEMMA IntrStep == ASSUME VirtioInv, [Next]_vars PROVE IntrInv'
<1>0. IntrInv
    BY DEF VirtioInv
<1>1. ASSUME NEW p \in Procs,
             \/ virtio_disk_rw_full(p) \/ virtio_disk_rw(p)
             \/ virtio_disk_rw_again(p) \/ virtio_disk_rw_done(p) \/ kill(p)
      PROVE  IntrInv'
    <2>1. UNCHANGED <<used_idx, used, irq, lock>>
        BY <1>1, Zenon
        DEF virtio_disk_rw_full, virtio_disk_rw, virtio_disk_rw_again, virtio_disk_rw_done,
            kill, device
    <2> QED
        BY <1>0, <2>1 DEF IntrInv
<1>2. ASSUME virtio_disk_intr \/ virtio_disk_intr_end PROVE IntrInv'
    BY <1>2 DEF virtio_disk_intr, virtio_disk_intr_end, IntrInv, driver, device
<1>3. ASSUME virtio_disk_intr_loop PROVE IntrInv'
    <2>1. lock = 1 /\ lock' = lock
        BY <1>3, Zenon DEF virtio_disk_intr_loop
    <2> QED
        BY <2>1 DEF IntrInv
<1>4. ASSUME DeviceTake \/ UNCHANGED vars PROVE IntrInv'
    BY <1>0, <1>4 DEF DeviceTake, vars, driver, device, IntrInv
<1>5. ASSUME NEW h \in Descs, DeviceFinish(h) PROVE IntrInv'
    BY <1>5, Finishes DEF IntrInv
<1> QED
    BY <1>1, <1>2, <1>3, <1>4, <1>5 DEF Next, Intr, Device

\* A request moves from one place to the next.
LEMMA CountStep == ASSUME VirtioInv, [Next]_vars PROVE CountInv'
<1>1. ASSUME Quiet PROVE CountInv'
    <2>1. Done' = Done
        BY <1>1 DEF Quiet, Done
    <2> QED
        BY <1>1, <2>1, SameRings DEF Quiet, VirtioInv, CountInv
<1>2. ASSUME NEW p \in Procs, virtio_disk_rw(p) PROVE CountInv'
    <2>1. /\ p \notin Waiting /\ Waiting' = Waiting \cup {p} /\ bdisk'[p] = 1
          /\ UNCHANGED <<used, used_idx, taken>>
          /\ \A q \in Procs : q # p => bdisk'[q] = bdisk[q]
        BY <1>2, Calls DEF VirtioInv
    <2>2. Cardinality(Waiting') = Cardinality(Waiting) + 1
        BY <2>1, FS_AddElement DEF VirtioInv, FreeInv
    <2>3. Done' = Done
        BY <2>1 DEF Done, Waiting
    <2>4. Avails' = Avails + 1 /\ Useds' = Useds
        BY <1>2, <2>1, AvailPut, SameRings
    <2> QED
        BY <2>1, <2>2, <2>3, <2>4, RingsNotFull DEF VirtioInv, CountInv
<1>3. ASSUME NEW p \in Procs, virtio_disk_rw_done(p) PROVE CountInv'
    <2>1. /\ p \in Done /\ Waiting' = Waiting \ {p}
          /\ UNCHANGED <<avail, used_idx, bdisk, used, seen, taken>>
        BY <1>3, Returns
    <2>2. Cardinality(Waiting') = Cardinality(Waiting) - 1
        BY <2>1, FS_RemoveElement DEF VirtioInv, FreeInv, Done
    <2>3. Done' = Done \ {p}
        BY <2>1 DEF Done
    <2>4. Cardinality(Done') = Cardinality(Done) - 1
        BY <2>1, <2>3, FS_RemoveElement, RingsNotFull DEF VirtioInv
    <2>5. Avails' = Avails /\ Useds' = Useds
        BY <2>1, SameRings
    <2> QED
        BY <2>1, <2>2, <2>4, <2>5, RingsNotFull DEF VirtioInv, CountInv
<1>4. ASSUME DeviceTake PROVE CountInv'
    <2>1. Waiting' = Waiting /\ Done' = Done /\ UNCHANGED <<used, used_idx>>
        BY <1>4, Takes DEF Done
    <2>2. /\ Avails' = Avails - 1 /\ Useds' = Useds /\ Avails > 0
          /\ taken' = taken \cup {Avail(0)}
        BY <1>4, <2>1, AvailGet, SameRings
    <2>3. Avail(0) \notin taken
        BY <2>2, RingsNotFull DEF VirtioInv, AvailInv
    <2>4. Cardinality(taken') = Cardinality(taken) + 1
        BY <2>2, <2>3, FS_AddElement, RingsNotFull DEF VirtioInv
    <2> QED
        BY <2>1, <2>2, <2>4, RingsNotFull DEF VirtioInv, CountInv
<1>5. ASSUME NEW h \in Descs, DeviceFinish(h) PROVE CountInv'
    <2>1. /\ h \in taken /\ taken' = taken \ {h}
          /\ UNCHANGED <<avail, seen, bdisk, Waiting>>
        BY <1>5, Finishes
    <2>2. Done' = Done
        BY <2>1 DEF Done
    <2>3. Avails' = Avails /\ Useds' = Useds + 1
        BY <1>5, <2>1, UsedPut, SameRings
    <2>4. Cardinality(taken') = Cardinality(taken) - 1
        BY <2>1, FS_RemoveElement, RingsNotFull DEF VirtioInv
    <2> QED
        BY <2>1, <2>2, <2>3, <2>4, RingsNotFull DEF VirtioInv, CountInv
<1>6. ASSUME virtio_disk_intr_loop PROVE CountInv'
    <2>1. PICK p \in Waiting \cap served :
              /\ bdisk[p] = 1 /\ bdisk' = [bdisk EXCEPT ![p] = 0]
              /\ UNCHANGED <<Waiting, avail, seen, taken>>
        BY <1>6, Handles DEF device
    <2>2. \A q \in Procs : bdisk'[q] = IF q = p THEN 0 ELSE bdisk[q]
        BY <2>1 DEF VirtioInv, TypeOK
    <2>3. p \notin Done /\ Done' = Done \cup {p}
        BY <2>1, <2>2 DEF Done, Waiting
    <2>4. Cardinality(Done') = Cardinality(Done) + 1
        BY <2>3, FS_AddElement, RingsNotFull DEF VirtioInv
    <2>5. Avails' = Avails /\ Useds' = Useds - 1
        BY <1>6, <2>1, SameRings, UsedGet
    <2> QED
        BY <2>1, <2>4, <2>5, RingsNotFull DEF VirtioInv, CountInv
<1> QED
    BY <1>1, <1>2, <1>3, <1>4, <1>5, <1>6, Moves

\* What a step that leaves a ring alone has to keep.
LEMMA SameAvail ==
    ASSUME VirtioInv, UNCHANGED <<avail, seen, taken>>,
           \A q \in Unserved : q \in Unserved' /\ idx'[q] = idx[q]
    PROVE  AvailInv'
<1>1. Avails' = Avails /\ Avails \in Nat /\ \A k \in Nat : Avail(k)' = Avail(k)
    BY SameRings, RingsNotFull DEF VirtioInv
<1> QED
    BY <1>1 DEF VirtioInv, AvailInv

\* The same for the used ring.
LEMMA SameUsed ==
    ASSUME VirtioInv, UNCHANGED <<used, used_idx>>,
           \A q \in Waiting \cap served :
               bdisk[q] = 1 => /\ q \in Waiting' \cap served' /\ idx'[q] = idx[q]
                               /\ bdisk'[q] = 1
                               /\ info'[idx[q]].status = info[idx[q]].status
    PROVE  UsedInv'
<1>1. Useds' = Useds /\ Useds \in Nat /\ \A k \in Nat : Used(k)' = Used(k)
    BY SameRings, RingsNotFull DEF VirtioInv
<1> QED
    BY <1>1 DEF VirtioInv, UsedInv

\* What is published or with the device stays so until the device is finished.
LEMMA AvailStep == ASSUME VirtioInv, [Next]_vars PROVE AvailInv'
<1> AvailInv
    BY DEF VirtioInv
<1>1. ASSUME Quiet PROVE AvailInv'
    BY <1>1, SameAvail DEF Quiet, Unserved
<1>2. ASSUME NEW p \in Procs, virtio_disk_rw(p) PROVE AvailInv'
    <2>1. /\ p \notin Waiting /\ Waiting' = Waiting \cup {p}
          /\ UNCHANGED <<taken, served>> /\ idx'[p] \in free
          /\ \A q \in Procs : q # p => idx'[q] = idx[q]
        BY <1>2, Calls DEF VirtioInv
    <2>2. /\ p \in Unserved'
          /\ \A q \in Unserved : q \in Unserved' /\ idx'[q] = idx[q] /\ idx[q] # idx'[p]
        BY <2>1, Heads DEF Unserved, Waiting, VirtioInv, ServeInv
    <2>3. /\ Avails \in Nat /\ Avails' = Avails + 1
          /\ \A k \in 0..Avails - 1 : Avail(k)' = Avail(k)
          /\ \A k \in Nat : k = Avails => Avail(k)' = idx'[p]
        BY <1>2, AvailPut, RingsNotFull DEF VirtioInv
    <2>4. \A k \in 0..Avails' - 1 : k \in 0..Avails - 1 \/ (k \in Nat /\ k = Avails)
        BY <2>3
    <2>5. \A k \in 0..Avails - 1 : Avail(k)' # idx'[p]
        BY <2>2, <2>3 DEF AvailInv
    <2>6. idx'[p] \notin taken
        BY <2>2 DEF AvailInv
    <2>7. \A k \in 0..Avails' - 1 : /\ \E q \in Unserved' : Avail(k)' = idx'[q]
                                    /\ Avail(k)' \notin taken'
        BY <2>1, <2>2, <2>3, <2>4, <2>6 DEF AvailInv
    <2>8. \A j, k \in 0..Avails' - 1 : Avail(j)' = Avail(k)' => j = k
        BY <2>3, <2>4, <2>5 DEF AvailInv
    <2>9. \A g \in taken' : \E q \in Unserved' : g = idx'[q]
        BY <2>1, <2>2 DEF AvailInv
    <2> QED
        BY <2>7, <2>8, <2>9 DEF AvailInv
<1>3. ASSUME NEW p \in Procs, virtio_disk_rw_done(p) PROVE AvailInv'
    <2>1. /\ p \in Done /\ Waiting' = Waiting \ {p} /\ served' = served \ {p}
          /\ UNCHANGED <<avail, seen, taken>>
          /\ \A q \in Procs : q # p => idx'[q] = idx[q]
        BY <1>3, Returns
    <2>2. \A q \in Unserved : q \in Unserved' /\ idx'[q] = idx[q]
        BY <2>1 DEF Unserved, Waiting, VirtioInv, ServeInv
    <2> QED
        BY <2>1, <2>2, SameAvail
<1>4. ASSUME DeviceTake PROVE AvailInv'
    <2>1. UNCHANGED <<Waiting, served, idx>>
        BY <1>4, Takes
    <2>2. /\ Avails \in Nat /\ Avails > 0 /\ Avails' = Avails - 1
          /\ \A k \in Nat : Avail(k)' = Avail(k + 1)
          /\ taken' = taken \cup {Avail(0)}
        BY <1>4, AvailGet, RingsNotFull DEF VirtioInv
    <2>3. /\ 0 \in 0..Avails - 1
          /\ \A k \in 0..Avails' - 1 : k \in Nat /\ k + 1 \in 0..Avails - 1 /\ k + 1 # 0
        BY <2>2
    <2>4. \A k \in 0..Avails' - 1 : /\ \E q \in Unserved' : Avail(k)' = idx'[q]
                                    /\ Avail(k)' \notin taken'
        BY <2>1, <2>2, <2>3 DEF AvailInv, Unserved
    <2>5. \A j, k \in 0..Avails' - 1 : Avail(j)' = Avail(k)' => j = k
        BY <2>2, <2>3 DEF AvailInv
    <2>6. \A g \in taken' : \E q \in Unserved' : g = idx'[q]
        BY <2>1, <2>2, <2>3 DEF AvailInv, Unserved
    <2> QED
        BY <2>4, <2>5, <2>6 DEF AvailInv
<1>5. ASSUME NEW h \in Descs, DeviceFinish(h) PROVE AvailInv'
    <2>1. PICK p \in Unserved : /\ h = idx[p] /\ h \in taken
                                /\ served' = served \cup {p} /\ taken' = taken \ {h}
                                /\ UNCHANGED <<Waiting, idx, avail, seen>>
        BY <1>5, Finishes
    <2>2. Unserved' = Unserved \ {p}
        BY <2>1 DEF Unserved
    <2>3. Avails' = Avails /\ Avails \in Nat /\ \A k \in Nat : Avail(k)' = Avail(k)
        BY <2>1, SameRings, RingsNotFull DEF VirtioInv
    <2> QED
        BY <2>1, <2>2, <2>3 DEF AvailInv
<1>6. ASSUME virtio_disk_intr_loop PROVE AvailInv'
    <2>1. UNCHANGED <<Waiting, idx, avail, served, seen, taken>>
        BY <1>6, Handles DEF device
    <2> QED
        BY <2>1, SameAvail DEF Unserved
<1> QED
    BY <1>1, <1>2, <1>3, <1>4, <1>5, <1>6, Moves

\* What the device has finished stays in the used ring until the handler sees it.
LEMMA UsedStep == ASSUME VirtioInv, [Next]_vars PROVE UsedInv'
<1> UsedInv
    BY DEF VirtioInv
<1>1. ASSUME Quiet PROVE UsedInv'
    BY <1>1, SameUsed DEF Quiet
<1>2. ASSUME NEW p \in Procs, virtio_disk_rw(p) PROVE UsedInv'
    <2>1. /\ p \notin Waiting /\ Waiting' = Waiting \cup {p}
          /\ UNCHANGED <<used, used_idx, served>> /\ Links(p)' \subseteq free
          /\ \A q \in Procs : q # p => idx'[q] = idx[q] /\ bdisk'[q] = bdisk[q]
          /\ \A d \in Descs \ Links(p)' : info'[d] = info[d]
        BY <1>2, Calls DEF VirtioInv
    <2>2. \A q \in Waiting : q \in Procs /\ q # p /\ idx[q] \in Descs \ Links(p)'
        BY <2>1, Heads, Zenon DEF Waiting
    <2> QED
        BY <2>1, <2>2, SameUsed
<1>3. ASSUME NEW p \in Procs, virtio_disk_rw_done(p) PROVE UsedInv'
    <2>1. /\ p \in Done /\ Waiting' = Waiting \ {p} /\ served' = served \ {p}
          /\ UNCHANGED <<used, used_idx, bdisk>>
          /\ \A q \in Procs : q # p => idx'[q] = idx[q]
          /\ \A d \in Descs \ Links(p) : info'[d] = info[d]
        BY <1>3, Returns
    <2>2. \A q \in Waiting : q # p => q \in Procs /\ idx[q] \in Descs \ Links(p)
        BY <2>1, Heads DEF Waiting, Done, VirtioInv, ChainInv
    <2>3. bdisk[p] # 1
        BY <2>1 DEF Done
    <2> QED
        BY <2>1, <2>2, <2>3, SameUsed
<1>4. ASSUME DeviceTake PROVE UsedInv'
    BY <1>4, Takes, SameUsed
<1>5. ASSUME NEW h \in Descs, DeviceFinish(h) PROVE UsedInv'
    <2>1. PICK p \in Unserved : /\ h = idx[p] /\ served' = served \cup {p}
                                /\ info' = [info EXCEPT ![h].status = 0]
                                /\ UNCHANGED <<Waiting, idx, bdisk>>
        BY <1>5, Finishes
    <2>2. /\ Useds \in Nat /\ Useds' = Useds + 1
          /\ \A k \in 0..Useds - 1 : Used(k)' = Used(k)
          /\ \A k \in Nat : k = Useds => Used(k)' = h
        BY <1>5, UsedPut, RingsNotFull DEF VirtioInv
    <2>3. \A k \in 0..Useds' - 1 : k \in 0..Useds - 1 \/ (k \in Nat /\ k = Useds)
        BY <2>2
    <2>4. \A q \in Waiting : info[idx[q]].status = 0 \/ q = p => info'[idx[q]].status = 0
        BY <2>1 DEF VirtioInv, TypeOK, Waiting
    <2>5. p \in Waiting /\ p \notin served /\ bdisk[p] = 1
        BY DEF Unserved, Done, Waiting, VirtioInv, ServeInv, TypeOK
    <2>6. \A k \in 0..Useds - 1 : Used(k)' # h
        BY <2>1, <2>2, <2>5, Heads DEF UsedInv
    <2>7. ASSUME NEW k \in 0..Useds' - 1
          PROVE  \E q \in Waiting' \cap served' :
                     Used(k)' = idx'[q] /\ bdisk'[q] = 1 /\ info'[idx'[q]].status = 0
        <3>1. CASE k \in 0..Useds - 1
            <4>1. PICK q \in Waiting \cap served :
                      Used(k) = idx[q] /\ bdisk[q] = 1 /\ info[idx[q]].status = 0
                BY <3>1 DEF UsedInv
            <4> QED
                BY <2>1, <2>2, <2>4, <3>1, <4>1
        <3>2. CASE k \in Nat /\ k = Useds
            BY <2>1, <2>2, <2>4, <2>5, <3>2
        <3> QED
            BY <2>3, <3>1, <3>2
    <2>8. \A j, k \in 0..Useds' - 1 : Used(j)' = Used(k)' => j = k
        BY <2>2, <2>3, <2>6 DEF UsedInv
    <2> QED
        BY <2>7, <2>8 DEF UsedInv
<1>6. ASSUME virtio_disk_intr_loop PROVE UsedInv'
    <2>1. PICK p \in Waiting \cap served :
              /\ Used(0) = idx[p] /\ bdisk' = [bdisk EXCEPT ![p] = 0]
              /\ UNCHANGED <<Waiting, served, idx, info>>
        BY <1>6, Handles DEF device
    <2>2. /\ Useds \in Nat /\ Useds > 0 /\ Useds' = Useds - 1
          /\ \A k \in Nat : Used(k)' = Used(k + 1)
        BY <1>6, UsedGet, RingsNotFull DEF VirtioInv
    <2>3. /\ 0 \in 0..Useds - 1
          /\ \A k \in 0..Useds' - 1 : k \in Nat /\ k + 1 \in 0..Useds - 1 /\ k + 1 # 0
        BY <2>2
    <2>4. \A j, k \in 0..Useds' - 1 : Used(j)' = Used(k)' => j = k
        BY <2>2, <2>3 DEF UsedInv
    <2>5. ASSUME NEW k \in 0..Useds' - 1
          PROVE  \E q \in Waiting' \cap served' :
                     Used(k)' = idx'[q] /\ bdisk'[q] = 1 /\ info'[idx'[q]].status = 0
        <3>1. Used(k)' = Used(k + 1) /\ k + 1 \in 0..Useds - 1 /\ Used(k + 1) # Used(0)
            BY <2>2, <2>3 DEF UsedInv
        <3>2. PICK q \in Waiting \cap served :
                  Used(k + 1) = idx[q] /\ bdisk[q] = 1 /\ info[idx[q]].status = 0
            BY <3>1 DEF UsedInv
        <3>3. q # p /\ bdisk'[q] = 1
            BY <2>1, <3>1, <3>2 DEF VirtioInv, TypeOK, Waiting
        <3> QED
            BY <2>1, <3>1, <3>2, <3>3
    <2> QED
        BY <2>4, <2>5 DEF UsedInv
<1> QED
    BY <1>1, <1>2, <1>3, <1>4, <1>5, <1>6, Moves

-----------------------------------------------------------------------------

\* Every state of the driver and the device satisfies the inductive invariant.
THEOREM VirtioInvariant == Spec => []VirtioInv
<1>1. Init => VirtioInv
    <2> SUFFICES ASSUME Init PROVE VirtioInv
        OBVIOUS
    <2>1. TypeOK
        BY Sizes DEF Init, TypeOK, Zeroed, Descs
    <2>2. Waiting = {} /\ Done = {} /\ taken = {}
        BY DEF Init, Waiting, Done
    <2>3. Avails = 0 /\ Useds = 0
        <3>1. 0 \in 0..UINT16 - 1
            BY Sizes
        <3>2. Dist(0, 0) = 0
            BY <3>1, Between
        <3> QED
            BY <3>2 DEF Init, Avails, Useds
    <2>4. ChainInv /\ ServeInv /\ IntrInv
        BY <2>2 DEF Init, ChainInv, ServeInv, IntrInv
    <2>5. Cardinality(free) = NUM
        <3>1. Cardinality(0..NUM - 1) = NUM
            BY Sizes, FS_Interval
        <3> QED
            BY <3>1 DEF Init, Descs
    <2>6. IsFiniteSet({}) /\ Cardinality({}) = 0
        BY FS_EmptySet
    <2>7. FreeInv /\ CountInv
        BY <2>2, <2>3, <2>5, <2>6, Sizes DEF FreeInv, CountInv
    <2>8. AvailInv /\ UsedInv
        BY <2>2, <2>3 DEF AvailInv, UsedInv
    <2> QED
        BY <2>1, <2>4, <2>7, <2>8 DEF VirtioInv
<1>2. VirtioInv /\ [Next]_vars => VirtioInv'
    <2> SUFFICES ASSUME VirtioInv, [Next]_vars PROVE VirtioInv'
        OBVIOUS
    <2>1. /\ TypeOK' /\ ChainInv' /\ FreeInv' /\ ServeInv'
          /\ AvailInv' /\ UsedInv' /\ CountInv' /\ IntrInv'
        BY TypeStep, ChainStep, FreeStep, ServeStep, AvailStep, UsedStep, CountStep,
           IntrStep
    <2> QED
        BY <2>1 DEF VirtioInv
<1> QED
    BY <1>1, <1>2, PTL DEF Spec

\* A descriptor is free or in the chain of exactly one request, so the panics of
\* free_desc() are unreachable.
THEOREM ChainsCorrect == Spec => []ChainsPartition
<1>1. VirtioInv => ChainsPartition
    <2> SUFFICES ASSUME VirtioInv PROVE ChainsPartition
        OBVIOUS
    <2>1. ASSUME NEW p \in Waiting PROVE Cardinality(Links(p)) = 3
        <3>1. idx[p] # Second(p) /\ idx[p] # Third(p) /\ Second(p) # Third(p)
            BY DEF VirtioInv, ChainInv, Formed
        <3> DEFINE O == {idx[p]}
                   P == O \cup {Second(p)}
        <3>2. IsFiniteSet(O) /\ Cardinality(O) = 1 /\ Second(p) \notin O
            BY <3>1, FS_Singleton
        <3>3. IsFiniteSet(P) /\ Cardinality(P) = 2
            <4> HIDE DEF O
            <4> QED
                BY <3>2, FS_AddElement
        <3>4. Third(p) \notin P /\ Links(p) = P \cup {Third(p)}
            BY <3>1 DEF Links
        <3> HIDE DEF P
        <3> QED
            BY <3>3, <3>4, FS_AddElement
    <2>2. \A p \in Waiting : Chain(idx[p]) = Links(p)
        BY ChainIs DEF VirtioInv
    <2> QED
        BY <2>1, <2>2 DEF VirtioInv, ChainInv, Formed, FreeInv, ChainsPartition
<1> QED
    BY <1>1, VirtioInvariant, PTL

\* No entry of the used ring is forgotten, and the handler's check of the status
\* byte never panics.
THEOREM CompletionCorrect == Spec => []CompletionPending
<1>1. VirtioInv => CompletionPending
    <2> SUFFICES ASSUME VirtioInv, used_idx # used.idx PROVE CompletionPending
        BY DEF CompletionPending
    <2>1. /\ used_idx \in 0..UINT16 - 1 /\ used.idx \in 0..UINT16 - 1
          /\ used.ring \in [Descs -> Descs]
        BY DEF VirtioInv, TypeOK
    <2>2. Useds # 0 /\ Useds \in 0..UINT16 - 1
        BY <2>1, Between, Zenon DEF Useds
    <2>3. Used(0) = used.ring[used_idx % NUM] /\ 0 \in 0..Useds - 1
        BY <2>1, <2>2, RingGet, Sizes DEF Used
    <2>4. info[Used(0)].status = 0
        BY <2>3 DEF VirtioInv, UsedInv
    <2> QED
        BY <2>3, <2>4 DEF VirtioInv, IntrInv, CompletionPending
<1> QED
    BY <1>1, VirtioInvariant, PTL

\* What DiskRequests sees of a process.
RequestOf(p) == IF p \notin Waiting THEN "none"
                ELSE IF p \in served THEN "served" ELSE "called"

\* A step that changes what is seen of one process.
LEMMA Changes ==
    ASSUME NEW p \in Procs, \A q \in Procs \ {p} : RequestOf(q)' = RequestOf(q)
    PROVE  /\ RequestOf(p) = "none" /\ RequestOf(p)' = "called" => Requests!Next
           /\ RequestOf(p) = "called" /\ RequestOf(p)' = "served" => Requests!Next
           /\ RequestOf(p) = "served" /\ RequestOf(p)' = "none" => Requests!Next
<1> DEFINE req == [q \in Procs |-> RequestOf(q)]
<1>1. req' = [req EXCEPT ![p] = RequestOf(p)'] /\ req[p] = RequestOf(p)
    OBVIOUS
<1>2. req = [q \in Procs |-> IF q \notin Waiting THEN "none"
                             ELSE IF q \in served THEN "served" ELSE "called"]
    BY DEF RequestOf
<1>3. req' = [q \in Procs |-> IF q \notin Waiting' THEN "none"
                              ELSE IF q \in served' THEN "served" ELSE "called"]
    BY DEF RequestOf
<1> HIDE DEF req
<1>4. ASSUME NEW from, NEW to, RequestOf(p) = from, RequestOf(p)' = to
      PROVE  Requests!Change(p, from, to)
    BY <1>1, <1>2, <1>3, <1>4 DEF Requests!Change
<1> QED
    BY <1>4 DEF Requests!Next

\* Every step is one of DiskRequests, or changes nothing there.
LEMMA RefinedStep ==
    ASSUME VirtioInv, [Next]_vars
    PROVE  Requests!Next \/ UNCHANGED <<Waiting, served>>
<1>1. ASSUME Quiet
      PROVE  Requests!Next \/ UNCHANGED <<Waiting, served>>
    BY <1>1 DEF Quiet
<1>2. ASSUME NEW p \in Procs, virtio_disk_rw(p)
      PROVE  Requests!Next \/ UNCHANGED <<Waiting, served>>
    <2>1. p \notin Waiting /\ Waiting' = Waiting \cup {p} /\ served' = served
        BY <1>2, Calls DEF VirtioInv
    <2>2. p \notin served
        BY <2>1 DEF VirtioInv, ServeInv
    <2> QED
        BY <2>1, <2>2, Changes DEF RequestOf
<1>3. ASSUME NEW p \in Procs, virtio_disk_rw_done(p)
      PROVE  Requests!Next \/ UNCHANGED <<Waiting, served>>
    <2>1. p \in Done /\ Waiting' = Waiting \ {p} /\ served' = served \ {p}
        BY <1>3, Returns
    <2>2. p \in Waiting /\ p \in served
        BY <2>1 DEF VirtioInv, ServeInv, Done
    <2> QED
        BY <2>1, <2>2, Changes DEF RequestOf
<1>4. ASSUME DeviceTake
      PROVE  Requests!Next \/ UNCHANGED <<Waiting, served>>
    BY <1>4, Takes
<1>5. ASSUME NEW h \in Descs, DeviceFinish(h)
      PROVE  Requests!Next \/ UNCHANGED <<Waiting, served>>
    <2>1. PICK p \in Unserved : served' = served \cup {p} /\ Waiting' = Waiting
        BY <1>5, Finishes
    <2>2. p \in Procs /\ p \in Waiting /\ p \notin served
        BY DEF Unserved, Waiting
    <2> QED
        BY <2>1, <2>2, Changes DEF RequestOf
<1>6. ASSUME virtio_disk_intr_loop
      PROVE  Requests!Next \/ UNCHANGED <<Waiting, served>>
    BY <1>6, Handles DEF device
<1> QED
    BY <1>1, <1>2, <1>3, <1>4, <1>5, <1>6, Moves

\* virtio_disk_rw() returns after the device has carried out the caller's transfer,
\* and the device carries it out once.
THEOREM RequestsCorrect == Spec => ServedOnce
<1>1. Init => Requests!Init
    BY DEF Init, Requests!Init, Waiting
<1>2. VirtioInv /\ [Next]_vars
      => [Requests!Next]_[p \in Procs |-> IF p \notin Waiting THEN "none"
                                          ELSE IF p \in served THEN "served" ELSE "called"]
    BY RefinedStep
<1> QED
    BY <1>1, <1>2, VirtioInvariant, PTL DEF Spec, ServedOnce, Requests!Spec
=============================================================================
