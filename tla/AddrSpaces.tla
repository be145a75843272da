----------------------------- MODULE AddrSpaces -----------------------------
(***************************************************************************)
(* What fork, exec, sbrk and exit promise user programs about memory:      *)
(* every process has a private image, pages it has never written read as   *)
(* zero, and fork gives the child a copy.                                  *)
(***************************************************************************)
EXTENDS Integers

CONSTANTS Procs, Root, Vals,
          Sizes,      \* sizes of an image, in pages
          StackPages  \* what exec adds to a program

VARIABLE image   \* the pages of each live process, from address 0

Live == DOMAIN image

\* n pages: the first t hold a program x, the others zeros.
Fresh(n, t, x) == [v \in 0..n - 1 |-> IF v < t THEN x ELSE 0]

Init == image = [p \in {Root} |-> Fresh(0, 0, 0)]

Store(p, v, x) == image' = [image EXCEPT ![p][v] = x]

\* sbrk: pages beyond the old end are zero, pages beyond the new end are gone.
Resize(p, n) ==
    image' = [image EXCEPT ![p] = [v \in 0..n - 1 |-> IF v \in DOMAIN @ THEN @[v] ELSE 0]]

Fork(p, q) ==
    /\ q \notin Live
    /\ image' = [r \in Live \cup {q} |-> IF r = q THEN image[p] ELSE image[r]]

Exec(p, t, x) == image' = [image EXCEPT ![p] = Fresh(t + StackPages, t, x)]

Exit(p) ==
    /\ p # Root
    /\ image' = [r \in Live \ {p} |-> image[r]]

Next == \E p \in Live :
    \/ \E v \in DOMAIN image[p], x \in Vals : Store(p, v, x)
    \/ \E n \in Sizes : Resize(p, n)
    \/ \E q \in Procs : Fork(p, q)
    \/ \E t \in Sizes \ {0}, x \in Vals : Exec(p, t, x)
    \/ Exit(p)

Spec == Init /\ [][Next]_image
=============================================================================
