----------------------------- MODULE PipeProofs -----------------------------
(***************************************************************************)
(* Proofs about Pipe, for any number of readers and writers, any size of   *)
(* the buffer and any width of the counters: nobody sleeps who could go    *)
(* on, and the ring buffer of kernel/pipe.c is the queue of Fifo.          *)
(***************************************************************************)
EXTENDS Pipe, SequenceTheorems, TLAPS

-----------------------------------------------------------------------------
(* Arithmetic of counters that wrap around, and of places in the ring.       *)

\* One step around the circle of U values at most: what % computes.
LEMMA Wrap ==
    ASSUME NEW U \in Nat \ {0}, NEW r \in 0..U - 1, NEW k \in 0..U - 1
    PROVE  /\ (r + k) % U = IF r + k < U THEN r + k ELSE r + k - U
           /\ (k - r) % U = IF r <= k THEN k - r ELSE k - r + U
<1>1. ASSUME r + k < U PROVE (r + k) % U = r + k
    BY <1>1
<1>2. ASSUME r + k >= U PROVE (r + k) % U = r + k - U
    BY <1>2
<1>3. ASSUME r <= k PROVE (k - r) % U = k - r
    BY <1>3
<1>4. ASSUME r > k PROVE (k - r) % U = k - r + U
    BY <1>4
<1> QED
    BY <1>1, <1>2, <1>3, <1>4

\* Quotient and remainder are unique.
LEMMA Remainder ==
    ASSUME NEW P \in Nat \ {0}, NEW q \in Int, NEW r \in 0..P - 1
    PROVE  (q * P + r) % P = r
OBVIOUS

\* A multiple of P can be left out under % P.
LEMMA Multiple ==
    ASSUME NEW P \in Nat \ {0}, NEW x \in Int, NEW U \in Nat, U % P = 0
    PROVE  (x + U) % P = x % P
<1> DEFINE q == x \div P
           m == U \div P
           r == x % P
<1>1. /\ q \in Int /\ m \in Int /\ r \in 0..P - 1
      /\ x = P * q + r
      /\ U = P * m
    OBVIOUS
<1> HIDE DEF q, m, r
<1>2. x + U = (q + m) * P + r
    BY <1>1
<1>3. (x + U) % P = r
    BY <1>1, <1>2, Remainder
<1> QED
    BY <1>3 DEF r

\* Fewer than P places apart, two counters name different places.
LEMMA Apart ==
    ASSUME NEW P \in Nat \ {0}, NEW x \in Int, NEW d \in 1..P - 1
    PROVE  (x + d) % P # x % P
<1> DEFINE q == x \div P
           r == x % P
<1>1. q \in Int /\ r \in 0..P - 1 /\ x = P * q + r
    OBVIOUS
<1> HIDE DEF q, r
<1>2. CASE r + d < P
    <2>1. (q * P + (r + d)) % P = r + d
        BY <1>1, <1>2, Remainder
    <2>2. x + d = q * P + (r + d)
        BY <1>1
    <2> QED
        BY <2>1, <2>2, <1>1 DEF r
<1>3. CASE r + d >= P
    <2>1. q + 1 \in Int /\ r + d - P \in 0..P - 1
        BY <1>1, <1>3
    <2>2. ((q + 1) * P + (r + d - P)) % P = r + d - P
        BY <2>1, Remainder
    <2>3. x + d = (q + 1) * P + (r + d - P)
        BY <1>1
    <2> QED
        BY <2>2, <2>3, <1>1 DEF r
<1> QED
    BY <1>1, <1>2, <1>3

\* The sizes, without what they have to do with each other.
LEMMA Sizes == PIPESIZE \in 1..UINT - 1 /\ UINT \in Nat \ {0}
BY PipeAssumption

-----------------------------------------------------------------------------
(* The inductive invariant.                                                  *)

Inside == {"write", "wait", "read"}

TypeOK ==
    /\ data \in [0..PIPESIZE - 1 -> Bytes]
    /\ nread \in 0..UINT - 1 /\ nwrite \in 0..UINT - 1
    /\ readopen \in {0, 1} /\ writeopen \in {0, 1}
    /\ lock \in Procs \cup {Nobody}
    /\ pc \in [Procs -> Inside \cup {"idle", "asleep", "woken"}]
    /\ n \in [Procs -> Nat] /\ i \in [Procs -> Nat]
    /\ killed \in [Procs -> {0, 1}]
    /\ cut \in {0, 1}

\* pi->lock is held inside a call, and only there; an end in use is open.
CallInv ==
    /\ \A p \in Procs : lock = p <=> pc[p] \in Inside
    /\ \A p \in Writers : pc[p] \notin {"wait", "read"} /\ (pc[p] # "idle" => writeopen = 1)
    /\ \A p \in Readers : pc[p] # "write" /\ (pc[p] # "idle" => readopen = 1)

\* A writer sleeps while the pipe is full, or the reader in its loop is going to
\* wake it; a reader while it is empty, or the writer in its loop is going to
\* wake it or to be cut.
SleepInv ==
    /\ \A p \in Writers : pc[p] = "asleep" =>
           readopen = 1 /\ (Full \/ \E q \in Readers : pc[q] = "read")
    /\ \A p \in Readers : pc[p] = "asleep" =>
           /\ writeopen = 1
           /\ Empty \/ cut = 1 \/ \E q \in Writers : pc[q] = "write" /\ i[q] > 0

RingInv == Count <= PIPESIZE

PipeInv == TypeOK /\ CallInv /\ SleepInv /\ RingInv

-----------------------------------------------------------------------------
(* Every step keeps PipeInv.                                                 *)

\* What the counters say: how many bytes the pipe holds.
LEMMA Counting ==
    ASSUME TypeOK
    PROVE  /\ Count \in 0..UINT - 1
           /\ nwrite = (nread + Count) % UINT
           /\ Empty <=> Count = 0
           /\ Full <=> Count = PIPESIZE
           /\ Inc(nwrite) \in 0..UINT - 1
           /\ Inc(nread) \in 0..UINT - 1
           /\ Count + 1 < UINT => (Inc(nwrite) - nread) % UINT = Count + 1
           /\ Count > 0 => (nwrite - Inc(nread)) % UINT = Count - 1
<1> USE Sizes DEF TypeOK
<1>1. UINT \in Nat \ {0} /\ 1 \in 0..UINT - 1 /\ PIPESIZE \in 0..UINT - 1
    OBVIOUS
<1>2. Count = IF nread <= nwrite THEN nwrite - nread ELSE nwrite - nread + UINT
    BY <1>1, Wrap DEF Count
<1>3. Count \in 0..UINT - 1
    BY <1>2
<1>4. (nread + Count) % UINT
        = IF nread + Count < UINT THEN nread + Count ELSE nread + Count - UINT
    BY <1>1, <1>3, Wrap
<1>5. Full <=> nwrite =
        IF nread + PIPESIZE < UINT THEN nread + PIPESIZE ELSE nread + PIPESIZE - UINT
    BY <1>1, Wrap DEF Full
<1>6. Inc(nread) = IF nread + 1 < UINT THEN nread + 1 ELSE nread + 1 - UINT
    BY <1>1, Wrap DEF Inc
<1>7. Inc(nwrite) = IF nwrite + 1 < UINT THEN nwrite + 1 ELSE nwrite + 1 - UINT
    BY <1>1, Wrap DEF Inc
<1>8. /\ nwrite = (nread + Count) % UINT
      /\ Empty <=> Count = 0
      /\ Full <=> Count = PIPESIZE
    BY <1>2, <1>4, <1>5 DEF Empty
<1>9. Inc(nread) \in 0..UINT - 1 /\ Inc(nwrite) \in 0..UINT - 1
    BY <1>6, <1>7
<1>10. (Inc(nwrite) - nread) % UINT
        = IF nread <= Inc(nwrite) THEN Inc(nwrite) - nread ELSE Inc(nwrite) - nread + UINT
    BY <1>1, <1>9, Wrap
<1>11. (nwrite - Inc(nread)) % UINT
        = IF Inc(nread) <= nwrite THEN nwrite - Inc(nread) ELSE nwrite - Inc(nread) + UINT
    BY <1>1, <1>9, Wrap
<1>12. Count + 1 < UINT => (Inc(nwrite) - nread) % UINT = Count + 1
    <2> DEFINE d == (Inc(nwrite) - nread) % UINT
    <2>1. d = IF nread <= Inc(nwrite) THEN Inc(nwrite) - nread ELSE Inc(nwrite) - nread + UINT
        BY <1>10
    <2> HIDE DEF d
    <2>2. Count + 1 < UINT => d = Count + 1
        BY <1>2, <1>7, <2>1
    <2> QED
        BY <2>2 DEF d
<1>13. Count > 0 => (nwrite - Inc(nread)) % UINT = Count - 1
    <2> DEFINE d == (nwrite - Inc(nread)) % UINT
    <2>1. d = IF Inc(nread) <= nwrite THEN nwrite - Inc(nread) ELSE nwrite - Inc(nread) + UINT
        BY <1>11
    <2> HIDE DEF d
    <2>2. Count > 0 => d = Count - 1
        BY <1>2, <1>6, <2>1
    <2> QED
        BY <2>2 DEF d
<1> QED
    BY <1>3, <1>8, <1>9, <1>12, <1>13

\* Every variable keeps its type.
LEMMA TypeStep == ASSUME PipeInv, [Next]_vars PROVE TypeOK'
<1> USE PipeAssumption, Sizes DEF PipeInv, TypeOK, Procs, Inside
<1>1. ASSUME NEW p \in Procs, NEW k \in Counts, pipewrite(p, k) PROVE TypeOK'
    BY <1>1 DEF pipewrite, Call, goto, pipe
<1>2. ASSUME NEW p \in Procs, NEW k \in Counts, piperead(p, k) PROVE TypeOK'
    BY <1>2 DEF piperead, Call, goto, pipe
<1>3. ASSUME NEW p \in Procs, Resume(p) PROVE TypeOK'
    BY <1>3 DEF Resume, goto, pipe
<1>4. ASSUME NEW p \in Procs, pipewrite_abort(p) PROVE TypeOK'
    BY <1>4 DEF pipewrite_abort, Holds, Return, Wake, pipe
<1>5. ASSUME NEW p \in Procs, pipewrite_full(p) PROVE TypeOK'
    BY <1>5 DEF pipewrite_full, Writing, Holds, Sleep, Wake, pipe
<1>6. ASSUME NEW p \in Procs, pipewrite_end(p) PROVE TypeOK'
    BY <1>6 DEF pipewrite_end, Holds, Return, Wake, pipe
<1>7. ASSUME NEW p \in Procs, NEW b \in Bytes, pipewrite_byte(p, b) PROVE TypeOK'
    <2>1. Inc(nwrite) \in 0..UINT - 1
        BY Counting
    <2>2. data' \in [0..PIPESIZE - 1 -> Bytes]
        BY <1>7 DEF pipewrite_byte, Writing, Holds
    <2> QED
        BY <1>7, <2>1, <2>2 DEF pipewrite_byte, Writing, Holds
<1>8. ASSUME NEW p \in Procs, piperead_abort(p) PROVE TypeOK'
    BY <1>8 DEF piperead_abort, Holds, Return, Wake, pipe
<1>9. ASSUME NEW p \in Procs, piperead_sleep(p) PROVE TypeOK'
    BY <1>9 DEF piperead_sleep, Holds, Sleep, pipe
<1>10. ASSUME NEW p \in Procs, piperead_start(p) PROVE TypeOK'
    BY <1>10 DEF piperead_start, Holds, goto, pipe
<1>11. ASSUME NEW p \in Procs, piperead_byte(p) PROVE TypeOK'
    <2>1. Inc(nread) \in 0..UINT - 1
        BY Counting
    <2>2. data' \in [0..PIPESIZE - 1 -> Bytes]
        BY <1>11 DEF piperead_byte, Holds, Take
    <2> QED
        BY <1>11, <2>1, <2>2 DEF piperead_byte, Holds, Take
<1>12. ASSUME NEW p \in Procs, piperead_lose(p) PROVE TypeOK'
    <2>1. Inc(nread) \in 0..UINT - 1
        BY Counting
    <2>2. data' \in [0..PIPESIZE - 1 -> Bytes]
        BY <1>12 DEF piperead_lose, Holds, Take, Return, Wake
    <2> QED
        BY <1>12, <2>1, <2>2 DEF piperead_lose, Holds, Take, Return, Wake
<1>13. ASSUME NEW p \in Procs, piperead_end(p) PROVE TypeOK'
    BY <1>13 DEF piperead_end, Holds, Return, Wake, pipe
<1>14. ASSUME NEW p \in Procs, kill(p) PROVE TypeOK'
    BY <1>14 DEF kill, Wake, pipe
<1>15. ASSUME NEW w \in {0, 1}, pipeclose(w) PROVE TypeOK'
    BY <1>15 DEF pipeclose, Wake
<1>16. ASSUME UNCHANGED vars PROVE TypeOK'
    BY <1>16 DEF vars, pipe
<1> HIDE DEF PipeInv, TypeOK, Procs, Inside
<1> QED
    BY <1>1, <1>2, <1>3, <1>4, <1>5, <1>6, <1>7, <1>8, <1>9,
       <1>10, <1>11, <1>12, <1>13, <1>14, <1>15, <1>16
    DEF Next, Proceed

\* A call takes the lock of an open end, and leaves it when it sleeps or returns.
LEMMA CallStep == ASSUME PipeInv, [Next]_vars PROVE CallInv'
<1> USE PipeAssumption, Sizes DEF PipeInv, TypeOK, Procs, CallInv, Inside
<1>1. ASSUME NEW p \in Procs, NEW k \in Counts, pipewrite(p, k) PROVE CallInv'
    BY <1>1 DEF pipewrite, Call, goto, pipe
<1>2. ASSUME NEW p \in Procs, NEW k \in Counts, piperead(p, k) PROVE CallInv'
    BY <1>2 DEF piperead, Call, goto, pipe
<1>3. ASSUME NEW p \in Procs, Resume(p) PROVE CallInv'
    BY <1>3 DEF Resume, goto, pipe
<1>4. ASSUME NEW p \in Procs, pipewrite_abort(p) PROVE CallInv'
    BY <1>4 DEF pipewrite_abort, Holds, Return, Wake, pipe
<1>5. ASSUME NEW p \in Procs, pipewrite_full(p) PROVE CallInv'
    BY <1>5 DEF pipewrite_full, Writing, Holds, Sleep, Wake, pipe
<1>6. ASSUME NEW p \in Procs, pipewrite_end(p) PROVE CallInv'
    BY <1>6 DEF pipewrite_end, Holds, Return, Wake, pipe
<1>7. ASSUME NEW p \in Procs, NEW b \in Bytes, pipewrite_byte(p, b) PROVE CallInv'
    BY <1>7 DEF pipewrite_byte, Writing, Holds
<1>8. ASSUME NEW p \in Procs, piperead_abort(p) PROVE CallInv'
    BY <1>8 DEF piperead_abort, Holds, Return, Wake, pipe
<1>9. ASSUME NEW p \in Procs, piperead_sleep(p) PROVE CallInv'
    BY <1>9 DEF piperead_sleep, Holds, Sleep, pipe
<1>10. ASSUME NEW p \in Procs, piperead_start(p) PROVE CallInv'
    BY <1>10 DEF piperead_start, Holds, goto, pipe
<1>11. ASSUME NEW p \in Procs, piperead_byte(p) PROVE CallInv'
    BY <1>11 DEF piperead_byte, Holds, Take
<1>12. ASSUME NEW p \in Procs, piperead_lose(p) PROVE CallInv'
    BY <1>12 DEF piperead_lose, Holds, Take, Return, Wake
<1>13. ASSUME NEW p \in Procs, piperead_end(p) PROVE CallInv'
    BY <1>13 DEF piperead_end, Holds, Return, Wake, pipe
<1>14. ASSUME NEW p \in Procs, kill(p) PROVE CallInv'
    BY <1>14 DEF kill, Wake, pipe
<1>15. ASSUME NEW w \in {0, 1}, pipeclose(w) PROVE CallInv'
    BY <1>15 DEF pipeclose, Wake
<1>16. ASSUME UNCHANGED vars PROVE CallInv'
    BY <1>16 DEF vars, pipe
<1> HIDE DEF PipeInv, TypeOK, Procs, CallInv, Inside
<1> QED
    BY <1>1, <1>2, <1>3, <1>4, <1>5, <1>6, <1>7, <1>8, <1>9,
       <1>10, <1>11, <1>12, <1>13, <1>14, <1>15, <1>16
    DEF Next, Proceed

\* Whoever changes the pipe for a sleeper wakes it before the lock is free.
LEMMA SleepStep == ASSUME PipeInv, [Next]_vars PROVE SleepInv'
<1> USE PipeAssumption, Sizes DEF PipeInv, TypeOK, Procs, CallInv, SleepInv, Inside
<1>0. UNCHANGED <<nread, nwrite>> => (Full' <=> Full) /\ (Empty' <=> Empty)
    BY DEF Full, Empty
<1>1. ASSUME NEW p \in Procs, NEW k \in Counts, pipewrite(p, k) PROVE SleepInv'
    BY <1>1, <1>0 DEF pipewrite, Call, goto, pipe
<1>2. ASSUME NEW p \in Procs, NEW k \in Counts, piperead(p, k) PROVE SleepInv'
    BY <1>2, <1>0 DEF piperead, Call, goto, pipe
<1>3. ASSUME NEW p \in Procs, Resume(p) PROVE SleepInv'
    BY <1>3, <1>0 DEF Resume, goto, pipe
<1>4. ASSUME NEW p \in Procs, pipewrite_abort(p) PROVE SleepInv'
    BY <1>4, <1>0 DEF pipewrite_abort, Holds, Return, Wake, pipe
<1>5. ASSUME NEW p \in Procs, pipewrite_full(p) PROVE SleepInv'
    BY <1>5, <1>0 DEF pipewrite_full, Writing, Holds, Sleep, Wake, pipe
<1>6. ASSUME NEW p \in Procs, pipewrite_end(p) PROVE SleepInv'
    BY <1>6, <1>0 DEF pipewrite_end, Holds, Return, Wake, pipe
<1>7. ASSUME NEW p \in Procs, NEW b \in Bytes, pipewrite_byte(p, b)
      PROVE  SleepInv'
    BY <1>7, <1>0 DEF pipewrite_byte, Writing, Holds
<1>8. ASSUME NEW p \in Procs, piperead_abort(p) PROVE SleepInv'
    BY <1>8, <1>0 DEF piperead_abort, Holds, Return, Wake, pipe
<1>9. ASSUME NEW p \in Procs, piperead_sleep(p) PROVE SleepInv'
    BY <1>9, <1>0 DEF piperead_sleep, Holds, Sleep, pipe
<1>10. ASSUME NEW p \in Procs, piperead_start(p) PROVE SleepInv'
    BY <1>10, <1>0 DEF piperead_start, Holds, goto, pipe
<1>11. ASSUME NEW p \in Procs, piperead_byte(p) PROVE SleepInv'
    BY <1>11, <1>0 DEF piperead_byte, Holds, Take
<1>12. ASSUME NEW p \in Procs, piperead_lose(p) PROVE SleepInv'
    BY <1>12, <1>0 DEF piperead_lose, Holds, Take, Return, Wake
<1>13. ASSUME NEW p \in Procs, piperead_end(p) PROVE SleepInv'
    BY <1>13, <1>0 DEF piperead_end, Holds, Return, Wake, pipe
<1>14. ASSUME NEW p \in Procs, kill(p) PROVE SleepInv'
    BY <1>14, <1>0 DEF kill, Wake, pipe
<1>15. ASSUME NEW w \in {0, 1}, pipeclose(w) PROVE SleepInv'
    BY <1>15, <1>0 DEF pipeclose, Wake
<1>16. ASSUME UNCHANGED vars PROVE SleepInv'
    BY <1>16, <1>0 DEF vars, pipe
<1> HIDE DEF PipeInv, TypeOK, Procs, CallInv, SleepInv, Inside
<1> QED
    BY <1>1, <1>2, <1>3, <1>4, <1>5, <1>6, <1>7, <1>8, <1>9,
       <1>10, <1>11, <1>12, <1>13, <1>14, <1>15, <1>16
    DEF Next, Proceed

\* No more bytes go in than fit.
LEMMA RingStep == ASSUME PipeInv, [Next]_vars PROVE RingInv'
<1> USE PipeAssumption, Sizes DEF PipeInv, TypeOK, Procs, RingInv
<1>1. ASSUME NEW p \in Procs, NEW k \in Counts, pipewrite(p, k) PROVE RingInv'
    BY <1>1 DEF pipewrite, Call, goto, pipe, Count
<1>2. ASSUME NEW p \in Procs, NEW k \in Counts, piperead(p, k) PROVE RingInv'
    BY <1>2 DEF piperead, Call, goto, pipe, Count
<1>3. ASSUME NEW p \in Procs, Resume(p) PROVE RingInv'
    BY <1>3 DEF Resume, goto, pipe, Count
<1>4. ASSUME NEW p \in Procs, pipewrite_abort(p) PROVE RingInv'
    BY <1>4 DEF pipewrite_abort, Holds, Return, Wake, pipe, Count
<1>5. ASSUME NEW p \in Procs, pipewrite_full(p) PROVE RingInv'
    BY <1>5 DEF pipewrite_full, Writing, Holds, Sleep, Wake, pipe, Count
<1>6. ASSUME NEW p \in Procs, pipewrite_end(p) PROVE RingInv'
    BY <1>6 DEF pipewrite_end, Holds, Return, Wake, pipe, Count
<1>7. ASSUME NEW p \in Procs, NEW b \in Bytes, pipewrite_byte(p, b) PROVE RingInv'
    <2>1. Count # PIPESIZE
        BY <1>7, Counting DEF pipewrite_byte
    <2>2. Count' = (Inc(nwrite) - nread) % UINT
        BY <1>7 DEF pipewrite_byte, Count
    <2>3. Count' = Count + 1
        BY <2>1, <2>2, Counting
    <2> QED
        BY <2>1, <2>3, Counting
<1>8. ASSUME NEW p \in Procs, piperead_abort(p) PROVE RingInv'
    BY <1>8 DEF piperead_abort, Holds, Return, Wake, pipe, Count
<1>9. ASSUME NEW p \in Procs, piperead_sleep(p) PROVE RingInv'
    BY <1>9 DEF piperead_sleep, Holds, Sleep, pipe, Count
<1>10. ASSUME NEW p \in Procs, piperead_start(p) PROVE RingInv'
    BY <1>10 DEF piperead_start, Holds, goto, pipe, Count
<1>11. ASSUME NEW p \in Procs, piperead_byte(p) PROVE RingInv'
    <2>1. Count # 0
        BY <1>11, Counting DEF piperead_byte
    <2>2. Count' = (nwrite - Inc(nread)) % UINT
        BY <1>11 DEF piperead_byte, Take, Count
    <2>3. Count' = Count - 1
        BY <2>1, <2>2, Counting
    <2> QED
        BY <2>1, <2>3, Counting
<1>12. ASSUME NEW p \in Procs, piperead_lose(p) PROVE RingInv'
    <2>1. Count # 0
        BY <1>12, Counting DEF piperead_lose
    <2>2. Count' = (nwrite - Inc(nread)) % UINT
        BY <1>12 DEF piperead_lose, Take, Count
    <2>3. Count' = Count - 1
        BY <2>1, <2>2, Counting
    <2> QED
        BY <2>1, <2>3, Counting
<1>13. ASSUME NEW p \in Procs, piperead_end(p) PROVE RingInv'
    BY <1>13 DEF piperead_end, Holds, Return, Wake, pipe, Count
<1>14. ASSUME NEW p \in Procs, kill(p) PROVE RingInv'
    BY <1>14 DEF kill, Wake, pipe, Count
<1>15. ASSUME NEW w \in {0, 1}, pipeclose(w) PROVE RingInv'
    BY <1>15 DEF pipeclose, Wake, Count
<1>16. ASSUME UNCHANGED vars PROVE RingInv'
    BY <1>16 DEF vars, pipe, Count
<1> HIDE DEF PipeInv, TypeOK, Procs, RingInv
<1> QED
    BY <1>1, <1>2, <1>3, <1>4, <1>5, <1>6, <1>7, <1>8, <1>9,
       <1>10, <1>11, <1>12, <1>13, <1>14, <1>15, <1>16
    DEF Next, Proceed

-----------------------------------------------------------------------------
(* The theorem about sleepers.                                               *)

\* piperead(), pipewrite(), pipeclose() and kill() keep the lock, the counters
\* and the sleepers in step.
THEOREM PipeInvariant == Spec => []PipeInv
<1>1. Init => PipeInv
    <2> SUFFICES ASSUME Init PROVE PipeInv
        OBVIOUS
    <2>1. TypeOK
        <3>1. (CHOOSE b \in Bytes : TRUE) \in Bytes
            BY PipeAssumption
        <3> QED
            BY <3>1, Sizes, PipeAssumption DEF Init, TypeOK, Inside
    <2>2. CallInv /\ SleepInv
        BY PipeAssumption DEF Init, CallInv, SleepInv, Inside, Procs
    <2>3. Empty
        BY DEF Init, Empty
    <2>4. RingInv
        BY <2>1, <2>3, Counting, Sizes DEF RingInv
    <2> QED
        BY <2>1, <2>2, <2>4 DEF PipeInv
<1>2. PipeInv /\ [Next]_vars => PipeInv'
    BY TypeStep, CallStep, SleepStep, RingStep DEF PipeInv
<1> QED
    BY <1>1, <1>2, PTL DEF Spec

\* A writer sleeps only while the pipe is full and has a reader; a reader only
\* while it is empty and has a writer, or after a killed writer.
THEOREM SleepersCorrect == Spec => []SleepersCannotGoOn
<1>1. PipeInv => SleepersCannotGoOn
    <2> SUFFICES ASSUME PipeInv, lock = Nobody
                 PROVE  /\ \A p \in Writers : pc[p] = "asleep" => Full /\ readopen = 1
                        /\ \A p \in Readers :
                               pc[p] = "asleep" => (Empty \/ cut = 1) /\ writeopen = 1
        BY DEF SleepersCannotGoOn
    <2>1. \A p \in Procs : pc[p] \notin Inside
        BY PipeAssumption DEF PipeInv, CallInv, Procs
    <2> QED
        BY <2>1 DEF PipeInv, SleepInv, Procs, Inside
<1> QED
    BY <1>1, PipeInvariant, PTL

-----------------------------------------------------------------------------
(* The refinement.                                                           *)

\* A byte more at the end, or one less at the beginning.
LEMMA Appended ==
    ASSUME NEW S, NEW c \in Nat, NEW f \in [1..c -> S], NEW g \in [1..c + 1 -> S],
           \A k \in 1..c : g[k] = f[k]
    PROVE  Len(f) = c /\ g = Append(f, g[c + 1])
<1>1. f \in Seq(S) /\ g \in Seq(S)
    OBVIOUS
<1>2. Len(f) = c /\ Len(g) = c + 1
    OBVIOUS
<1>3. g[c + 1] \in S
    OBVIOUS
<1>4. Append(f, g[c + 1]) \in Seq(S) /\ Len(Append(f, g[c + 1])) = c + 1
    BY <1>1, <1>2, <1>3
<1>5. \A k \in 1..c + 1 : Append(f, g[c + 1])[k] = g[k]
    BY <1>1, <1>2, <1>3
<1> QED
    BY <1>1, <1>2, <1>4, <1>5, SeqEqual

LEMMA Dropped ==
    ASSUME NEW S, NEW c \in Nat \ {0}, NEW f \in [1..c -> S], NEW g \in [1..c - 1 -> S],
           \A k \in 1..c - 1 : g[k] = f[k + 1]
    PROVE  f # <<>> /\ g = Tail(f)
<1>1. f \in Seq(S) /\ g \in Seq(S)
    OBVIOUS
<1>2. Len(f) = c /\ Len(g) = c - 1
    OBVIOUS
<1>3. f # <<>>
    BY <1>2, EmptySeq
<1>4. /\ Tail(f) \in Seq(S) /\ Len(Tail(f)) = c - 1
      /\ \A k \in 1..c - 1 : Tail(f)[k] = f[k + 1]
    BY <1>1, <1>2, <1>3, HeadTailProperties
<1> QED
    BY <1>1, <1>2, <1>3, <1>4, SeqEqual

\* The place in the ring of the k-th byte of the queue.
At(k) == (nread + k - 1) % PIPESIZE
Queue == [k \in 1..Count |-> data[At(k)]]

\* Counters that wrap around name the same places as counters that do not.
LEMMA Places ==
    ASSUME NEW c \in 0..UINT - 1, NEW k \in 0..UINT - 1
    PROVE  /\ ((c + k) % UINT) % PIPESIZE = (c + k) % PIPESIZE
           /\ \A m \in Nat : (((c + k) % UINT) + m) % PIPESIZE = (c + k + m) % PIPESIZE
<1>1. (c + k) % UINT \in {c + k, c + k - UINT}
    BY Sizes, Wrap
<1>2. ASSUME NEW m \in Nat
      PROVE  (((c + k) % UINT) + m) % PIPESIZE = (c + k + m) % PIPESIZE
    <2>1. CASE (c + k) % UINT = c + k
        BY <2>1
    <2>2. CASE (c + k) % UINT = c + k - UINT
        <3> DEFINE x == c + k - UINT + m
        <3>1. x \in Int /\ x + UINT = c + k + m /\ ((c + k) % UINT) + m = x
            BY <2>2, Sizes
        <3>2. (x + UINT) % PIPESIZE = x % PIPESIZE
            BY <3>1, PipeAssumption, Multiple
        <3> QED
            BY <3>1, <3>2
    <2> QED
        BY <1>1, <2>1, <2>2
<1>3. ((c + k) % UINT) + 0 = (c + k) % UINT /\ c + k + 0 = c + k
    BY <1>1, Sizes
<1> QED
    BY <1>2, <1>3

\* The queue is a sequence of Count bytes, taken from the ring.
LEMMA QueueType ==
    ASSUME TypeOK
    PROVE  /\ Count \in Nat /\ Queue \in [1..Count -> Bytes]
           /\ \A k \in Nat : At(k) \in 0..PIPESIZE - 1
<1>1. Count \in Nat
    BY Counting, Sizes
<1>2. \A k \in Nat : At(k) \in 0..PIPESIZE - 1
    BY Sizes DEF At, TypeOK
<1>3. \A k \in 1..Count : data[At(k)] \in Bytes
    <2> SUFFICES ASSUME NEW k \in 1..Count PROVE data[At(k)] \in Bytes
        OBVIOUS
    <2>1. k \in Nat
        BY <1>1
    <2>2. At(k) \in 0..PIPESIZE - 1
        BY <1>2, <2>1
    <2> QED
        BY <2>2 DEF TypeOK
<1> QED
    BY <1>1, <1>2, <1>3 DEF Queue

\* pipewrite() puts a byte at the end.
LEMMA PutStep ==
    ASSUME PipeInv, PipeInv', NEW p \in Procs, NEW b \in Bytes, pipewrite_byte(p, b)
    PROVE  Abstract!Put(b)
<1> DEFINE P == PIPESIZE
<1>1. Count # P /\ Count \in 0..P /\ nwrite = (nread + Count) % UINT
    BY Counting, Sizes DEF pipewrite_byte, PipeInv, RingInv
<1>2. Count' = Count + 1
    <2>1. Count' = (Inc(nwrite) - nread) % UINT
        BY DEF pipewrite_byte, Count
    <2> QED
        BY <1>1, <2>1, Counting, Sizes DEF PipeInv
<1>3. nwrite % P = At(Count + 1)
    <2>1. nwrite % P = (nread + Count) % P
        BY <1>1, Places, Sizes DEF PipeInv, TypeOK
    <2>2. nread + (Count + 1) - 1 = nread + Count
        BY <1>1, Sizes DEF PipeInv, TypeOK
    <2> QED
        BY <2>1, <2>2 DEF At
<1>4. \A k \in 1..Count : At(k) # nwrite % P
    <2> SUFFICES ASSUME NEW k \in 1..Count PROVE At(k) # At(Count + 1)
        BY <1>3
    <2> DEFINE x == nread + k - 1
               d == Count + 1 - k
    <2>1. x \in Int /\ d \in 1..P - 1 /\ x + d = nread + (Count + 1) - 1
        BY <1>1, Sizes DEF PipeInv, TypeOK
    <2> HIDE DEF d
    <2>2. (x + d) % P # x % P
        BY <2>1, Apart, Sizes
    <2> QED
        BY <2>1, <2>2 DEF At
<1>5. \A k \in Nat : At(k)' = At(k)
    BY DEF At, pipewrite_byte
<1>6. \A k \in 1..Count : Queue'[k] = Queue[k]
    <2> SUFFICES ASSUME NEW k \in 1..Count PROVE Queue'[k] = Queue[k]
        OBVIOUS
    <2>1. /\ k \in 1..Count + 1 /\ k \in Nat
          /\ At(k)' = At(k) /\ At(k) # nwrite % P /\ At(k) \in 0..P - 1
        BY <1>1, <1>4, <1>5, QueueType DEF PipeInv
    <2>2. data'[At(k)] = data[At(k)]
        BY <2>1 DEF pipewrite_byte, PipeInv, TypeOK
    <2> QED
        BY <1>2, <2>1, <2>2 DEF Queue
<1>7. Queue'[Count + 1] = b
    <2> SUFFICES ASSUME NEW k \in Nat, k = Count + 1 PROVE Queue'[k] = b
        BY <1>1
    <2>1. k \in 1..Count' /\ At(k)' = At(k) /\ At(k) = nwrite % P
        BY <1>1, <1>2, <1>3, <1>5
    <2>2. At(k) \in 0..P - 1
        BY QueueType DEF PipeInv
    <2>3. data'[At(k)] = b
        BY <2>1, <2>2 DEF pipewrite_byte, PipeInv, TypeOK
    <2> QED
        BY <2>1, <2>3 DEF Queue
<1>8. Count \in Nat /\ Queue \in [1..Count -> Bytes] /\ Queue' \in [1..Count + 1 -> Bytes]
    <2>1. \A k \in 1..Count' : data'[At(k)'] \in Bytes
        <3> SUFFICES ASSUME NEW k \in 1..Count' PROVE data'[At(k)'] \in Bytes
            OBVIOUS
        <3>1. k \in Nat
            BY <1>1, <1>2
        <3>2. At(k)' \in 0..P - 1
            BY <1>5, <3>1, QueueType DEF PipeInv
        <3> QED
            BY <3>2 DEF PipeInv, TypeOK
    <2>2. Queue' \in [1..Count' -> Bytes]
        BY <2>1 DEF Queue
    <2> QED
        BY <1>2, <2>2, QueueType DEF PipeInv
<1>9. Len(Queue) = Count /\ Queue' = Append(Queue, b)
    BY <1>6, <1>7, <1>8, Appended
<1>10. readopen = 1 /\ writeopen = 1 /\ UNCHANGED <<readopen, writeopen>>
    BY DEF pipewrite_byte, Writing, Holds, PipeInv, CallInv, Procs
<1>11. Len(Queue) < P
    BY <1>1, <1>9, Sizes
<1> QED
    BY <1>9, <1>10, <1>11 DEF Abstract!Put, Queue, At

\* piperead() takes the first byte, also when its copyout fails.
LEMMA GetStep ==
    ASSUME PipeInv, PipeInv', NEW p \in Procs, Holds(p, "read"), ~Empty, Take
    PROVE  Abstract!Get
<1> DEFINE P == PIPESIZE
<1>1. Count \in Nat \ {0} /\ Count \in 0..UINT - 1
    BY Counting, Sizes DEF PipeInv
<1>2. Count' = Count - 1
    <2>1. Count' = (nwrite - Inc(nread)) % UINT
        BY DEF Take, Count
    <2> QED
        BY <1>1, <2>1, Counting DEF PipeInv
<1>3. \A k \in 1..Count - 1 : At(k)' = At(k + 1)
    <2> SUFFICES ASSUME NEW k \in 1..Count - 1 PROVE At(k)' = At(k + 1)
        OBVIOUS
    <2>1. At(k)' = (Inc(nread) + k - 1) % P
        BY DEF Take, At
    <2>2. /\ 1 \in 0..UINT - 1 /\ nread \in 0..UINT - 1 /\ k - 1 \in Nat
          /\ Inc(nread) + k - 1 = Inc(nread) + (k - 1)
          /\ nread + 1 + (k - 1) = nread + (k + 1) - 1
        BY <1>1, Sizes, Counting DEF PipeInv, TypeOK
    <2>3. (Inc(nread) + (k - 1)) % P = (nread + 1 + (k - 1)) % P
        BY <2>2, Places DEF Inc
    <2> QED
        BY <2>1, <2>2, <2>3 DEF At
<1>4. \A k \in 1..Count - 1 : Queue'[k] = Queue[k + 1]
    BY <1>1, <1>2, <1>3 DEF Queue, Take
<1>5. Queue \in [1..Count -> Bytes] /\ Queue' \in [1..Count - 1 -> Bytes]
    <2>1. \A k \in 1..Count' : data'[At(k)'] \in Bytes
        <3> SUFFICES ASSUME NEW k \in 1..Count' PROVE data'[At(k)'] \in Bytes
            OBVIOUS
        <3>1. k \in 1..Count - 1 /\ k + 1 \in Nat
            BY <1>1, <1>2
        <3>2. At(k)' \in 0..P - 1
            BY <1>3, <3>1, QueueType DEF PipeInv
        <3> QED
            BY <3>2 DEF PipeInv, TypeOK
    <2>2. Queue' \in [1..Count' -> Bytes]
        BY <2>1 DEF Queue
    <2> QED
        BY <1>2, <2>2, QueueType DEF PipeInv
<1>6. Queue # <<>> /\ Queue' = Tail(Queue)
    BY <1>1, <1>4, <1>5, Dropped
<1>7. readopen = 1 /\ UNCHANGED <<readopen, writeopen>>
    BY PipeAssumption DEF Holds, Take, PipeInv, CallInv, Procs
<1> QED
    BY <1>6, <1>7 DEF Abstract!Get, Queue, At

\* A step that leaves the ring alone leaves the queue alone.
LEMMA SameQueue == ASSUME UNCHANGED <<data, nread, nwrite>> PROVE Queue' = Queue
BY DEF Queue, At, Count

\* Every step is one of Fifo, or changes nothing there.
LEMMA RefinedStep ==
    ASSUME PipeInv, PipeInv', [Next]_vars
    PROVE  [Abstract!Next]_<<Queue, readopen, writeopen>>
<1>1. ASSUME UNCHANGED pipe PROVE UNCHANGED <<Queue, readopen, writeopen>>
    BY <1>1, SameQueue DEF pipe
<1>2. ASSUME NEW p \in Procs, NEW b \in Bytes, pipewrite_byte(p, b)
      PROVE  Abstract!Next
    BY <1>2, PutStep DEF Abstract!Next
<1>3. ASSUME NEW p \in Procs, piperead_byte(p) \/ piperead_lose(p)
      PROVE  Abstract!Next
    BY <1>3, GetStep DEF Abstract!Next, piperead_byte, piperead_lose
<1>4. ASSUME NEW w \in {0, 1}, pipeclose(w) PROVE Abstract!Next
    <2>1. Queue' = Queue
        BY <1>4, SameQueue DEF pipeclose
    <2>2. Abstract!CloseRead \/ Abstract!CloseWrite
        BY <1>4, <2>1 DEF pipeclose, Abstract!CloseRead, Abstract!CloseWrite, Queue, At
    <2> QED
        BY <2>2 DEF Abstract!Next
<1>5. ASSUME NEW p \in Procs, NEW k \in Counts, pipewrite(p, k) \/ piperead(p, k)
      PROVE  UNCHANGED pipe
    BY <1>5 DEF pipewrite, piperead, Call
<1>6. ASSUME NEW p \in Procs, Resume(p) \/ kill(p) PROVE UNCHANGED pipe
    BY <1>6 DEF Resume, kill
<1>7. ASSUME NEW p \in Procs, pipewrite_abort(p) \/ pipewrite_full(p) \/ pipewrite_end(p)
      PROVE  UNCHANGED pipe
    BY <1>7 DEF pipewrite_abort, pipewrite_full, pipewrite_end
<1>8. ASSUME NEW p \in Procs,
             piperead_abort(p) \/ piperead_sleep(p) \/ piperead_start(p) \/ piperead_end(p)
      PROVE  UNCHANGED pipe
    BY <1>8 DEF piperead_abort, piperead_sleep, piperead_start, piperead_end
<1>9. ASSUME UNCHANGED vars PROVE UNCHANGED pipe
    BY <1>9 DEF vars
<1> QED
    BY <1>1, <1>2, <1>3, <1>4, <1>5, <1>6, <1>7, <1>8, <1>9 DEF Next, Proceed

\* The ring buffer of kernel/pipe.c is a bounded first-in first-out queue.
THEOREM PipeCorrect == Spec => PipeIsFifo
<1>1. Init => Abstract!Init
    <2> SUFFICES ASSUME Init PROVE Abstract!Init
        OBVIOUS
    <2>1. Count = 0
        BY Sizes DEF Init, Count
    <2>2. Queue = <<>>
        BY <2>1 DEF Queue
    <2> QED
        BY <2>2 DEF Init, Abstract!Init, Queue, At
<1>2. PipeInv /\ PipeInv' /\ [Next]_vars => [Abstract!Next]_<<Queue, readopen, writeopen>>
    BY RefinedStep
<1> QED
    BY <1>1, <1>2, PipeInvariant, PTL
    DEF Spec, PipeIsFifo, Abstract!Spec, Abstract!vars, Queue, At
=============================================================================
