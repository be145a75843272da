------------------------------- MODULE MCSem -------------------------------
EXTENDS Sem
=============================================================================
