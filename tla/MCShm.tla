------------------------------- MODULE MCShm -------------------------------
(* Shm for TLC, up to the choice of pages as in MCVm. *)
EXTENDS Shm

Shape(a) ==
    <<[k \in Nodes |-> a.node[k] # 0],
      [v \in VPNs |-> <<a.pte[v].perm, IF a.pte[v].pa \in Pages THEN data[a.pte[v].pa] ELSE 0>>]>>

UpToRenaming ==
    <<[p \in Procs |-> <<Shape(as[p]), Shape(job[p].nas), [job[p] EXCEPT !.nas = 0]>>],
      sz, pc, panic, SharedAccounted,
      shared_page # 0, shared_page \in mem.free,
      IF shared_page = 0 THEN 0 ELSE data[shared_page]>>
=============================================================================
