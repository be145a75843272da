------------------------------- MODULE MCProc -------------------------------
EXTENDS Proc
=============================================================================
