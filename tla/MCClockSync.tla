------------------------------ MODULE MCClockSync ------------------------------
EXTENDS ClockSync, TLC

CONSTANTS p, q

Symmetry == Permutations({p, q})

=============================================================================
