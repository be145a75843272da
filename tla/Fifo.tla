-------------------------------- MODULE Fifo --------------------------------
(***************************************************************************)
(* What a pipe promises: bytes come out in the order they went in, at most *)
(* Capacity of them are inside, nothing goes in once the read end is       *)
(* closed.                                                                 *)
(***************************************************************************)
EXTENDS Integers, Sequences

CONSTANTS Bytes, Capacity

VARIABLES queue, readopen, writeopen

vars == <<queue, readopen, writeopen>>

Init == queue = <<>> /\ readopen = 1 /\ writeopen = 1

Put(b) ==
    /\ readopen = 1 /\ writeopen = 1
    /\ Len(queue) < Capacity
    /\ queue' = Append(queue, b)
    /\ UNCHANGED <<readopen, writeopen>>

Get ==
    /\ readopen = 1
    /\ queue # <<>>
    /\ queue' = Tail(queue)
    /\ UNCHANGED <<readopen, writeopen>>

CloseRead == readopen' = 0 /\ UNCHANGED <<queue, writeopen>>
CloseWrite == writeopen' = 0 /\ UNCHANGED <<queue, readopen>>

Next == (\E b \in Bytes : Put(b)) \/ Get \/ CloseRead \/ CloseWrite

Spec == Init /\ [][Next]_vars
=============================================================================
