------------------------------- MODULE MCSrcu -------------------------------
EXTENDS Srcu
CONSTANTS r1, r2, u1, u2
=============================================================================
