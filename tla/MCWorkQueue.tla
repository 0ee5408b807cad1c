----------------------------- MODULE MCWorkQueue -----------------------------
EXTENDS WorkQueue
CONSTANTS w1, w2, k1, k2
=============================================================================
