------------------------------ MODULE MCJournal ------------------------------
EXTENDS Journal
CONSTANTS b1, b2
Symmetry == Permutations({b1, b2})
=============================================================================
