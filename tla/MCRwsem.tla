------------------------------ MODULE MCRwsem ------------------------------
EXTENDS Rwsem
CONSTANTS t1, t2, t3
=============================================================================
