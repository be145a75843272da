CONSTANTS
    Procs = {p1, p2, p3}
    NoBuf = NoBuf
    NUM = 8
    UINT16 = 8
SPECIFICATION Spec
INVARIANTS ChainsPartition CompletionPending
PROPERTY ServedOnce
VIEW WithoutStaleEntries
