----------------------------- MODULE SemProofs -----------------------------
(***************************************************************************)
(* Proofs about Sem: as long as sem_up is called below INT_MAX, the        *)
(* semaphores of kernel/sem.c are counting semaphores, for any number of   *)
(* processes.                                                              *)
(***************************************************************************)
EXTENDS Sem, TLAPS

\* seminit() establishes the invariant.
LEMMA SemInvInit == Init => SemInv
BY SemAssumption DEF Init, SemInv, TypeOK, SleepersHaveNoUnit

\* Every critical section of sem.c keeps it.
LEMMA SemInvNext ==
    ASSUME MaxCount < INTMAX, SemInv, [Next]_vars PROVE SemInv'
<1> USE SemAssumption DEF SemInv, TypeOK
<1>1. ASSUME NEW p \in Procs, NEW v \in InitVals, sem_init(p, v) PROVE SemInv'
    BY <1>1 DEF sem_init, SleepersHaveNoUnit
<1>2. ASSUME NEW p \in Procs, sem_down(p) PROVE SemInv'
    BY <1>2 DEF sem_down, SleepersHaveNoUnit
<1>3. ASSUME NEW p \in Procs, sem_up(p) PROVE SemInv'
    BY <1>3 DEF sem_up, Increment, SleepersHaveNoUnit
<1>4. ASSUME NEW p \in Procs, kill(p) PROVE SemInv'
    BY <1>4 DEF kill, SleepersHaveNoUnit
<1>5. CASE UNCHANGED vars
    BY <1>5 DEF vars, SleepersHaveNoUnit
<1> QED
    BY <1>1, <1>2, <1>3, <1>4, <1>5 DEF Next

\* The count is never negative, the semaphore is used only once it is made,
\* and nobody sleeps while a unit is available.
THEOREM SemInvariant == ASSUME MaxCount < INTMAX PROVE Spec => []SemInv
BY SemInvInit, SemInvNext, PTL DEF Spec

\* Every step of sem.c is a step of the abstract semaphore.
LEMMA SemStep ==
    ASSUME MaxCount < INTMAX, SemInv, SemInv', [Next]_vars
    PROVE  [Abstract!Next]_(Abstract!vars)
<1> USE SemAssumption DEF SemInv, TypeOK

<1>1. ASSUME NEW p \in Procs, NEW v \in InitVals, sem_init(p, v)
      PROVE  Abstract!Create(v)
    BY <1>1 DEF sem_init, Abstract!Create
<1>2. ASSUME NEW p \in Procs, sem_down(p)
      PROVE  Abstract!Down(p) \/ Abstract!Block(p)
    <2>1. CASE count > 0 /\ count' = count - 1 /\ pc' = [pc EXCEPT ![p] = "idle"]
        BY <1>2, <2>1 DEF sem_down, Abstract!Down
    <2>2. CASE count <= 0 /\ count' = count /\ pc' = [pc EXCEPT ![p] = "asleep"]
        BY <1>2, <2>2 DEF sem_down, Abstract!Block
    <2> QED
        BY <1>2, <2>1, <2>2 DEF sem_down
<1>3. ASSUME NEW p \in Procs, sem_up(p) PROVE Abstract!Up(p)
    BY <1>3 DEF sem_up, Increment, Abstract!Up
<1>4. ASSUME NEW p \in Procs, kill(p) PROVE UNCHANGED (Abstract!vars)
    BY <1>4 DEF kill, Abstract!vars
<1>5. CASE UNCHANGED vars
    BY <1>5 DEF vars, Abstract!vars
<1> QED
    BY <1>1, <1>2, <1>3, <1>4, <1>5 DEF Next, Abstract!Next

\* sem.c implements the counting semaphore.
THEOREM SemRefinement == ASSUME MaxCount < INTMAX PROVE Spec => CountingSemaphore
<1>1. Init => Abstract!Init
    BY DEF Init, Abstract!Init
<1> QED
    BY <1>1, SemStep, SemInvariant, PTL DEF Spec, CountingSemaphore, Abstract!Spec
=============================================================================
