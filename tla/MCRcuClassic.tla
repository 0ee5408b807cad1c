---------------------------- MODULE MCRcuClassic ----------------------------
EXTENDS RcuClassic
CONSTANTS c1, c2
=============================================================================
