--------------------------------- MODULE Vm ---------------------------------
(***************************************************************************)
(* User memory: the page allocator with its reference counts               *)
(* (kernel/kalloc.c), user page tables (kernel/vm.c) and the operations    *)
(* that build and tear them down: fork, exec, sbrk, exit (kernel/proc.c,   *)
(* kernel/exec.c, kernel/sysproc.c), with lazy allocation by vmfault.      *)
(*                                                                         *)
(* Every kalloc may fail: other processes and the pipes may hold the rest  *)
(* of the memory.  The address space is compressed to the pages that can   *)
(* be mapped: 0 .. SHM-1 low user memory, SHM the page at 0x40000000, then *)
(* TRAPFRAME and TRAMPOLINE.  Each of the three regions has a level-1 and  *)
(* a level-0 page table of its own, as in the 39-bit address space.        *)
(***************************************************************************)
EXTENDS Integers, FiniteSets, Sequences

CONSTANTS Procs,
          Root,        \* the first process
          NPAGES,      \* physical pages
          SHM,         \* number of low user pages
          MAXSZ,       \* bound on p->sz, in bytes
          ExecSizes,   \* sizes of the program a process may exec, in bytes
          Vals         \* what programs store in a page

PGSIZE == 2
USERSTACK == 1
TRAPFRAME == SHM + 1
TRAMPOLINE == SHM + 2

ASSUME VmAssumption ==
    /\ Root \in Procs
    /\ SHM \in Nat /\ MAXSZ \in Nat /\ NPAGES >= 4
    /\ Vals \subseteq Nat \ {0, 5}

Pages == 1..NPAGES
VPNs == 0..TRAMPOLINE
Region(v) == IF v < SHM THEN "low" ELSE IF v = SHM THEN "shm" ELSE "top"
Nodes == {<<"root", 2>>} \cup {"low", "shm", "top"} \X {1, 0}
NumPages(n) == (n + PGSIZE - 1) \div PGSIZE
PGROUNDUP(n) == NumPages(n) * PGSIZE

VARIABLES mem,     \* the allocator: free pages, refcount
          data,    \* contents of each page; 5 and 1 are kalloc's and kfree's junk
          as,      \* p->pagetable: page-table pages and leaf entries
          tf,      \* p->trapframe
          sz,      \* p->sz
          pc,      \* where the process is, or "UNUSED"
          job,     \* local variables of fork and exec
          panic

vars == <<mem, data, as, tf, sz, pc, job, panic>>

(***************************************************************************)
(* kalloc.c.  Pages are interchangeable, so it does not matter which one   *)
(* is at the head of the free list.                                        *)
(***************************************************************************)
freelist(m) == CHOOSE g \in m.free : TRUE

\* kalloc, once for each page of the set S.
kalloc(m, S) ==
    [free |-> m.free \ S,
     ref  |-> [g \in Pages |-> IF g \in S THEN m.ref[g] + 1 ELSE m.ref[g]]]

\* kfree, once for each page of S.  decref panics only when a count is below
\* zero already, which PagesAccounted excludes.
kfree(m, S) ==
    [free |-> m.free \cup {g \in S : m.ref[g] - 1 <= 0},
     ref  |-> [g \in Pages |-> IF g \in S THEN m.ref[g] - 1 ELSE m.ref[g]]]

(***************************************************************************)
(* vm.c.  Operators take a page table a and the allocator m, and grant n   *)
(* calls of kalloc; they return the new page table and allocator.          *)
(***************************************************************************)
Invalid == [pa |-> 0, perm |-> "none"]
Valid(a, v) == a.pte[v] # Invalid
NoTable == [node |-> [k \in Nodes |-> 0], pte |-> [v \in VPNs |-> Invalid]]

\* Page-table pages walk() has to allocate on its way to v.
Missing(a, v) == Cardinality({k \in {Region(v)} \X {1, 0} : a.node[k] = 0})

\* One turn of the loop of walk(), to the page table k.
descend(w, k) ==
    IF ~w.ok \/ w.as.node[k] # 0 THEN w
    ELSE IF w.n = 0 THEN [w EXCEPT !.ok = FALSE]
    ELSE [as  |-> [w.as EXCEPT !.node[k] = freelist(w.mem)],
          mem |-> kalloc(w.mem, {freelist(w.mem)}),
          n   |-> w.n - 1,
          ok  |-> TRUE]

walk(a, v, m, n) ==
    descend(descend([as |-> a, mem |-> m, n |-> n, ok |-> TRUE], <<Region(v), 1>>),
            <<Region(v), 0>>)

mappages(a, v, pa, perm, m, n) ==
    LET w == walk(a, v, m, n)
    IN  IF w.ok THEN [w EXCEPT !.as.pte[v] = [pa |-> pa, perm |-> perm]] ELSE w

Mapped(a, S) == {a.pte[v].pa : v \in {u \in S : Valid(a, u)}}

\* uvmunmap of the pages S; with do_free, Mapped(a, S) goes to kfree.
uvmunmap(a, S) == [a EXCEPT !.pte = [v \in VPNs |-> IF v \in S THEN Invalid ELSE a.pte[v]]]

TablePages(a) == {a.node[k] : k \in Nodes} \ {0}

\* proc_freepagetable, with uvmfree and freewalk.  What it frees, and whether
\* freewalk meets a leaf.
Torn(a, s) == uvmunmap(a, {TRAMPOLINE, TRAPFRAME} \cup 0..NumPages(s) - 1)

Released(a, s) ==
    Mapped(uvmunmap(a, {TRAMPOLINE, TRAPFRAME}), 0..NumPages(s) - 1) \cup TablePages(a)

LeafLeft(a, s) == \E v \in VPNs : Valid(Torn(a, s), v)

\* proc_pagetable for the trapframe page t.  The trampoline is a page of the
\* kernel image, not of the allocator.  TRAMPOLINE and TRAPFRAME share their page tables, so
\* only the first of the two mappages can fail.
TrampolinePage == -1

proc_pagetable(t, m, n) ==
    IF n = 0 THEN [as |-> NoTable, mem |-> m, ok |-> FALSE]
    ELSE LET root == freelist(m)
             a    == [NoTable EXCEPT !.node[<<"root", 2>>] = root]
             w    == mappages(a, TRAMPOLINE, TrampolinePage, "kernel", kalloc(m, {root}), n - 1)
         IN  IF w.ok
             THEN [w EXCEPT !.as.pte[TRAPFRAME] = [pa |-> t, perm |-> "kernel"]]
             ELSE [as |-> NoTable, mem |-> kfree(w.mem, TablePages(w.as)), ok |-> FALSE]

(***************************************************************************)
(* State.                                                                  *)
(***************************************************************************)
Idle == [np |-> 0, i |-> 0, base |-> 0, goal |-> 0, nsz |-> 0, x |-> 0, nas |-> NoTable]

\* After userinit(): the first process has a trapframe and an empty page table.
Init ==
    LET a == proc_pagetable(1, [free |-> Pages \ {1}, ref |-> [g \in Pages |-> IF g = 1 THEN 1 ELSE 0]], 3)
    IN  /\ mem = a.mem
        /\ data = [g \in Pages |-> IF g \in mem.free THEN 1 ELSE 5]
        /\ as = [p \in Procs |-> IF p = Root THEN a.as ELSE NoTable]
        /\ tf = [p \in Procs |-> IF p = Root THEN 1 ELSE 0]
        /\ sz = [p \in Procs |-> 0]
        /\ pc = [p \in Procs |-> IF p = Root THEN "user" ELSE "UNUSED"]
        /\ job = [p \in Procs |-> Idle]
        /\ panic = ""

In(p, l) == panic = "" /\ pc[p] = l

\* The allocator becomes m; page g of it, if new, is filled with v.
Commit(m, g, v) ==
    /\ mem' = m
    /\ data' = [h \in Pages |-> IF h \in m.free THEN 1
                                ELSE IF h = g THEN v
                                ELSE IF h \in mem.free THEN 5 ELSE data[h]]

\* freeproc(q) when its page table is a, its size s and the allocator m.
freeproc(q, a, s, m) ==
    /\ Commit(kfree(kfree(m, {tf[q]}), Released(a, s)), 0, 0)
    /\ panic' = IF LeafLeft(a, s) THEN "freewalk: leaf" ELSE panic
    /\ as' = [as EXCEPT ![q] = NoTable]
    /\ tf' = [tf EXCEPT ![q] = 0]
    /\ sz' = [sz EXCEPT ![q] = 0]

(***************************************************************************)
(* fork(): allocproc, then uvmcopy one page at a time.                     *)
(***************************************************************************)
allocproc(p, q, n) ==
    LET t == freelist(mem)
        w == proc_pagetable(t, kalloc(mem, {t}), n - 1)
    IN  /\ In(p, "user") /\ pc[q] = "UNUSED"
        /\ IF w.ok
           THEN /\ Commit(w.mem, 0, 0)
                /\ as' = [as EXCEPT ![q] = w.as]
                /\ tf' = [tf EXCEPT ![q] = t]
                /\ pc' = [pc EXCEPT ![p] = "uvmcopy", ![q] = "USED"]
                /\ job' = [job EXCEPT ![p].np = q]
           ELSE /\ Commit(kfree(w.mem, {t}), 0, 0)
                /\ UNCHANGED <<as, tf, pc, job>>
        /\ UNCHANGED <<sz, panic>>

\* Fault: uvmcopy unmaps the pages it has copied without freeing them.
uvmcopy_err_keeps(p, c, m) ==
    /\ freeproc(job[p].np, uvmunmap(c, 0..job[p].i - 1), 0, m)
    /\ pc' = [pc EXCEPT ![p] = "user", ![job[p].np] = "UNUSED"]
    /\ job' = [job EXCEPT ![p] = Idle]

\* Fault: uvmcopy leaves the pages it has copied mapped when it fails.
uvmcopy_err_mapped(p, c, m) ==
    /\ freeproc(job[p].np, c, 0, m)
    /\ pc' = [pc EXCEPT ![p] = "user", ![job[p].np] = "UNUSED"]
    /\ job' = [job EXCEPT ![p] = Idle]

\* uvmcopy fails with the child's page table c: err, then freeproc(np).
uvmcopy_err(p, c, m) ==
    LET done == 0..job[p].i - 1
    IN  /\ freeproc(job[p].np, uvmunmap(c, done), 0, kfree(m, Mapped(c, done)))
        /\ pc' = [pc EXCEPT ![p] = "user", ![job[p].np] = "UNUSED"]
        /\ job' = [job EXCEPT ![p] = Idle]

uvmcopy_skip(p) ==
    /\ In(p, "uvmcopy")
    /\ job[p].i * PGSIZE < sz[p] /\ ~Valid(as[p], job[p].i)
    /\ job' = [job EXCEPT ![p].i = @ + 1]
    /\ UNCHANGED <<mem, data, as, tf, sz, pc, panic>>

\* One page, with n calls of kalloc granted.
uvmcopy(p, n) ==
    LET i == job[p].i
        q == job[p].np
        g == freelist(mem)
        w == mappages(as[q], i, g, as[p].pte[i].perm, kalloc(mem, {g}), n - 1)
    IN  /\ In(p, "uvmcopy")
        /\ i * PGSIZE < sz[p] /\ Valid(as[p], i)
        /\ n <= 1 + Missing(as[q], i)
        /\ IF n = 0 THEN uvmcopy_err(p, as[q], mem)
           ELSE IF ~w.ok THEN uvmcopy_err(p, w.as, kfree(w.mem, {g}))
           ELSE /\ Commit(w.mem, g, data[as[p].pte[i].pa])
                /\ as' = [as EXCEPT ![q] = w.as]
                /\ panic' = IF Valid(as[q], i) THEN "mappages: remap" ELSE panic
                /\ job' = [job EXCEPT ![p].i = @ + 1]
                /\ UNCHANGED <<tf, sz, pc>>

fork(p) ==
    /\ In(p, "uvmcopy")
    /\ job[p].i * PGSIZE >= sz[p]
    /\ sz' = [sz EXCEPT ![job[p].np] = sz[p]]
    /\ pc' = [pc EXCEPT ![p] = "user", ![job[p].np] = "user"]
    /\ job' = [job EXCEPT ![p] = Idle]
    /\ UNCHANGED <<mem, data, as, tf, panic>>

(***************************************************************************)
(* exit(), collected by the parent's wait().                               *)
(***************************************************************************)
exit(p) ==
    /\ In(p, "user") /\ p # Root
    /\ freeproc(p, as[p], sz[p], mem)
    /\ pc' = [pc EXCEPT ![p] = "UNUSED"]
    /\ UNCHANGED job

(***************************************************************************)
(* sbrk, lazy: growing only changes p->sz.                                 *)
(***************************************************************************)
sys_sbrk_grow(p, n) ==
    /\ In(p, "user")
    /\ sz[p] + n <= MAXSZ
    /\ sz' = [sz EXCEPT ![p] = @ + n]
    /\ UNCHANGED <<mem, data, as, tf, pc, job, panic>>

\* Fault: uvmdealloc also unmaps the page the new end is in.
uvmdealloc_rounded_down(s, t) == t \div PGSIZE..NumPages(s) - 1

\* The pages uvmdealloc unmaps to go from s bytes to t.
uvmdealloc(s, t) == NumPages(t)..NumPages(s) - 1

shrinkproc(p, n) ==
    LET gone == uvmdealloc(sz[p], sz[p] - n)
    IN  /\ In(p, "user")
        /\ n <= sz[p]
        /\ Commit(kfree(mem, Mapped(as[p], gone)), 0, 0)
        /\ as' = [as EXCEPT ![p] = uvmunmap(@, gone)]
        /\ sz' = [sz EXCEPT ![p] = @ - n]
        /\ UNCHANGED <<tf, pc, job, panic>>

\* A user access, copyin or copyout to an unmapped page below p->sz, with n
\* calls of kalloc granted; if it fails the process is killed or gets -1.
vmfault(p, v, n) ==
    LET g == freelist(mem)
        w == mappages(as[p], v, g, "rwu", kalloc(mem, {g}), n - 1)
    IN  /\ In(p, "user")
        /\ v * PGSIZE < sz[p] /\ ~Valid(as[p], v)
        /\ n \in 1..1 + Missing(as[p], v)
        /\ Commit(IF w.ok THEN w.mem ELSE kfree(w.mem, {g}), g, 0)
        /\ as' = [as EXCEPT ![p] = w.as]
        /\ UNCHANGED <<tf, sz, pc, job, panic>>

\* The program stores x, or copyout does: only through a writable user page.
store(p, v, x) ==
    /\ In(p, "user")
    /\ as[p].pte[v].perm = "rwu"
    /\ data' = [data EXCEPT ![as[p].pte[v].pa] = x]
    /\ UNCHANGED <<mem, as, tf, sz, pc, job, panic>>

(***************************************************************************)
(* exec(): a new page table beside the old one, then the switch.           *)
(***************************************************************************)
exec_begin(p, s, x, n) ==
    LET w == proc_pagetable(tf[p], mem, n)
    IN  /\ In(p, "user")
        /\ Commit(w.mem, 0, 0)
        /\ IF w.ok
           THEN /\ pc' = [pc EXCEPT ![p] = "exec_text"]
                /\ job' = [job EXCEPT ![p] = [Idle EXCEPT !.nas = w.as, !.goal = s, !.x = x]]
           ELSE UNCHANGED <<pc, job>>
        /\ UNCHANGED <<as, tf, sz, panic>>

\* bad, after uvmalloc has undone its pages from base on; a is the new table.
exec_bad(p, a, m) ==
    LET gone == job[p].base..job[p].i - 1
        b    == uvmunmap(a, gone)
    IN  /\ Commit(kfree(kfree(m, Mapped(a, gone)), Released(b, job[p].nsz)), 0, 0)
        /\ panic' = IF LeafLeft(b, job[p].nsz) THEN "freewalk: leaf" ELSE panic
        /\ pc' = [pc EXCEPT ![p] = "user"]
        /\ job' = [job EXCEPT ![p] = Idle]
        /\ UNCHANGED <<as, tf, sz>>

\* One iteration of uvmalloc, with n calls of kalloc granted.
uvmalloc(p, n) ==
    LET i == job[p].i
        g == freelist(mem)
        w == mappages(job[p].nas, i, g, IF pc[p] = "exec_text" THEN "rxu" ELSE "rwu",
                      kalloc(mem, {g}), n - 1)
    IN  /\ In(p, "exec_text") \/ In(p, "exec_stack")
        /\ i * PGSIZE < job[p].goal
        /\ n <= 1 + Missing(job[p].nas, i)
        /\ IF n = 0 THEN exec_bad(p, job[p].nas, mem)
           ELSE IF ~w.ok THEN exec_bad(p, w.as, kfree(w.mem, {g}))
           ELSE /\ Commit(w.mem, g, IF pc[p] = "exec_text" THEN job[p].x ELSE 0)
                /\ job' = [job EXCEPT ![p].nas = w.as, ![p].i = i + 1]
                /\ UNCHANGED <<as, tf, sz, pc, panic>>

\* The segment is mapped and loadseg has filled it; the stack is next.
exec_loaded(p) ==
    LET top == PGROUNDUP(job[p].goal)
    IN  /\ In(p, "exec_text")
        /\ job[p].i * PGSIZE >= job[p].goal
        /\ pc' = [pc EXCEPT ![p] = "exec_stack"]
        /\ job' = [job EXCEPT ![p].nsz = top, ![p].base = NumPages(top),
                              ![p].goal = top + (USERSTACK + 1) * PGSIZE]
        /\ UNCHANGED <<mem, data, as, tf, sz, panic>>

\* readi, loadseg or the copying of the arguments fails.
exec_fail(p) ==
    /\ In(p, "exec_text") \/ In(p, "exec_stack")
    /\ job[p].i * PGSIZE >= job[p].goal
    /\ exec_bad(p, job[p].nas, mem)

\* uvmclear of the guard page, then commit to the user image.
exec_commit(p) ==
    LET guard == (job[p].goal \div PGSIZE) - (USERSTACK + 1)
    IN  /\ In(p, "exec_stack")
        /\ job[p].i * PGSIZE >= job[p].goal
        /\ Commit(kfree(mem, Released(as[p], sz[p])), 0, 0)
        /\ panic' = IF LeafLeft(as[p], sz[p]) THEN "freewalk: leaf" ELSE panic
        /\ as' = [as EXCEPT ![p] = [job[p].nas EXCEPT !.pte[guard].perm = "kernel"]]
        /\ sz' = [sz EXCEPT ![p] = job[p].goal]
        /\ pc' = [pc EXCEPT ![p] = "user"]
        /\ job' = [job EXCEPT ![p] = Idle]
        /\ UNCHANGED tf

\* How many of up to k calls of kalloc succeed.
Grants(k) == {n \in 0..k : n <= Cardinality(mem.free)}

Step(p) ==
    \/ \E q \in Procs, n \in Grants(4) \ {0} : allocproc(p, q, n)
    \/ uvmcopy_skip(p) \/ fork(p)
    \/ \E n \in Grants(3) : uvmcopy(p, n) \/ uvmalloc(p, n)
    \/ exit(p)
    \/ \E n \in 1..MAXSZ : sys_sbrk_grow(p, n) \/ shrinkproc(p, n)
    \/ \E v \in VPNs, n \in Grants(3) \ {0} : vmfault(p, v, n)
    \/ \E v \in VPNs, x \in Vals : store(p, v, x)
    \/ \E s \in ExecSizes, x \in Vals, n \in Grants(3) \ {0} : exec_begin(p, s, x, n)
    \/ exec_loaded(p) \/ exec_fail(p) \/ exec_commit(p)

Next == \E p \in Procs : Step(p)

Spec == Init /\ [][Next]_vars

(***************************************************************************)
(* Properties.                                                             *)
(***************************************************************************)
TableHolds(t, a) ==
    {<<t, "node", k, a.node[k]>> : k \in {k \in Nodes : a.node[k] # 0}}
    \cup {<<t, "leaf", v, a.pte[v].pa>> : v \in {v \in VPNs \ {TRAPFRAME} : Valid(a, v)}}

\* What process p holds: its trapframe, and the pages of its page table and of
\* the one exec is building, with the user pages they map.
Holds(p) ==
    {<<"trapframe", "", 0, tf[p]>>} \cup TableHolds("as", as[p]) \cup TableHolds("nas", job[p].nas)

Accounted(S) ==
    LET uses == UNION {{p} \X Holds(p) : p \in Procs}
    IN  panic = "" =>
            \A g \in S : /\ mem.ref[g] = Cardinality({u \in uses : u[2][4] = g})
                         /\ g \in mem.free <=> mem.ref[g] = 0

\* No page is lost and none is used twice: at every step of fork, exec, sbrk,
\* exit and vmfault, also when any of their allocations fails, the reference
\* count of a page is the number of its uses, and the free pages are those
\* without any.
PagesAccounted == Accounted(Pages)

\* freewalk never meets a leaf and mappages never a valid entry: every user
\* mapping lies below p->sz whenever a page table is taken down or copied.
NoVmPanic == panic = ""

\* "returns 0 on success, -1 on failure": uvmcopy does not panic, whatever sizes
\* sbrk has accepted.
UvmcopyReturns == panic # "mappages: remap"

Image(p) ==
    [v \in 0..NumPages(sz[p]) - 1 |->
        IF Valid(as[p], v) THEN data[as[p].pte[v].pa] ELSE 0]

Abstract == INSTANCE AddrSpaces WITH
    Sizes <- VPNs, StackPages <- USERSTACK + 1,
    image <- [p \in {q \in Procs : pc[q] \notin {"UNUSED", "USED"}} |-> Image(p)]

\* Memory is private and lazily allocated pages read as zero: page tables,
\* vmfault, copying fork, exec and failing allocations implement AddrSpaces.
PrivateMemory == Abstract!Spec
=============================================================================
