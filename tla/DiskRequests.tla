---------------------------- MODULE DiskRequests ----------------------------
(***************************************************************************)
(* What virtio_disk_rw promises: between its call and its return the       *)
(* device carries out the caller's transfer, once.                         *)
(***************************************************************************)
CONSTANT Procs

VARIABLE request

Init == request = [p \in Procs |-> "none"]

Change(p, from, to) == request[p] = from /\ request' = [request EXCEPT ![p] = to]

Next == \E p \in Procs : \/ Change(p, "none", "called")
                         \/ Change(p, "called", "served")
                         \/ Change(p, "served", "none")

Spec == Init /\ [][Next]_request
=============================================================================
