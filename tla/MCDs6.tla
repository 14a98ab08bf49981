------------------------------- MODULE MCDs6 -------------------------------
EXTENDS Ds6

CONSTANTS ipA, ipB, x1, y1

\* The node behind ipA may be replaced.
MCSpeaks == {<<ipA, x1>>, <<ipB, y1>>, <<ipA, y1>>}

\* Destinations are interchangeable.
Symmetry == Permutations(Dest)
============================================================================
