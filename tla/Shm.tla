-------------------------------- MODULE Shm --------------------------------
(***************************************************************************)
(* The shared page of kernel/shm.c, on the user memory of module Vm.       *)
(***************************************************************************)
EXTENDS Vm

VARIABLE shared_page   \* shared_mem.shared_page; 0 until it is allocated

shmvars == <<vars, shared_page>>

ShmInit == Init /\ shared_page = 0

\* shm_get, with n calls of kalloc granted.  The page is mapped with PTE_W and
\* PTE_U only.
shm_get(p, n) ==
    LET new == shared_page = 0
        g   == IF new THEN freelist(mem) ELSE shared_page
        m   == IF new THEN kalloc(mem, {g}) ELSE mem
        w   == mappages(as[p], SHM, g, "wu", m, IF new THEN n - 1 ELSE n)
    IN  /\ In(p, "user")
        /\ n <= Missing(as[p], SHM) + (IF new THEN 1 ELSE 0)
        /\ new => n > 0
        /\ shared_page' = g
        /\ Commit(w.mem, IF new THEN g ELSE 0, 0)
        /\ as' = [as EXCEPT ![p] = w.as]
        /\ panic' = IF Valid(as[p], SHM) THEN "mappages: remap" ELSE panic
        /\ UNCHANGED <<tf, sz, pc, job>>

\* A system call of p copies x to the shared page with copyout, which asks for
\* PTE_U and PTE_W.
shm_copyout(p, x) ==
    /\ In(p, "user")
    /\ as[p].pte[SHM].perm = "wu"
    /\ data' = [data EXCEPT ![as[p].pte[SHM].pa] = x]
    /\ UNCHANGED <<mem, as, tf, sz, pc, job, panic, shared_page>>

ShmNext ==
    \/ Next /\ UNCHANGED shared_page
    \/ \E p \in Procs : \/ \E n \in Grants(3) : shm_get(p, n)
                        \/ \E x \in Vals : shm_copyout(p, x)

ShmSpec == ShmInit /\ [][ShmNext]_shmvars

(***************************************************************************)
(* Properties.                                                             *)
(***************************************************************************)
\* While no process grows to 0x40000000, the shared page stays allocated and is
\* mapped nowhere else, and all other pages are accounted for as without it.
SharedAccounted ==
    /\ Accounted(Pages \ {shared_page})
    /\ panic = "" /\ shared_page # 0 =>
           /\ shared_page \notin mem.free /\ mem.ref[shared_page] = 1
           /\ \A p \in Procs : \A v \in VPNs \ {SHM} : as[p].pte[v].pa # shared_page

\* "All leaf mappings must already have been removed" when freewalk is called.
NoLeafInFreewalk == panic # "freewalk: leaf"

\* shm_get returns the address or 0: it does not make mappages panic.
ShmGetReturns == panic # "mappages: remap"

\* "safe to free now since nobody is using it": a free page is mapped nowhere.
FreeIsUnused ==
    \A p \in Procs : \A v \in VPNs : Valid(as[p], v) => as[p].pte[v].pa \notin mem.free

\* "Child process: write to shared memory": a child has the shared page where
\* its parent has it.
ForkShares ==
    [][\A p \in Procs : fork(p) /\ Valid(as[p], SHM) => as'[job[p].np].pte[SHM] = as[p].pte[SHM]]_shmvars

\* "shm[i]='A'+i;": a program can store through the address shm_get returns.
ProgramCanStore ==
    \A p \in Procs : In(p, "user") /\ Valid(as[p], SHM) => \E x \in Vals : ENABLED store(p, SHM, x)
=============================================================================
