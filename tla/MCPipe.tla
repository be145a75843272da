------------------------------- MODULE MCPipe -------------------------------
EXTENDS Pipe, TLC

Symmetry == Permutations(Readers) \cup Permutations(Writers)
=============================================================================
