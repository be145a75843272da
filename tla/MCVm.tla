-------------------------------- MODULE MCVm --------------------------------
(* Vm for TLC.  Physical pages are interchangeable: as long as every page is *)
(* accounted for, a state is determined, up to the choice of pages, by which *)
(* entries are valid and what the mapped pages hold.                         *)
EXTENDS Vm

Shape(a) ==
    <<[k \in Nodes |-> a.node[k] # 0],
      [v \in VPNs |-> <<a.pte[v].perm, IF a.pte[v].pa \in Pages THEN data[a.pte[v].pa] ELSE 0>>]>>

UpToRenaming ==
    <<[p \in Procs |-> <<Shape(as[p]), Shape(job[p].nas), [job[p] EXCEPT !.nas = 0]>>],
      sz, pc, panic, PagesAccounted>>
=============================================================================
