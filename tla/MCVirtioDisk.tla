---------------------------- MODULE MCVirtioDisk ----------------------------
EXTENDS VirtioDisk

\* Ring entries outside from..to are written before they are read again.
Live(ring, from, to) ==
    [k \in 0..((to - from) % UINT16) - 1 |-> ring[(from + k) % NUM]]

WithoutStaleEntries ==
    <<free, desc, info, used_idx, lock, bdisk, pc, idx, seen, taken, irq, served,
      avail.idx, used.idx, Live(avail.ring, seen, avail.idx),
      Live(used.ring, used_idx, used.idx)>>
=============================================================================
