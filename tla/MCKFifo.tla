------------------------------ MODULE MCKFifo ------------------------------
EXTENDS KFifo
=============================================================================
