------------------------------ MODULE MCJoining ------------------------------
EXTENDS Joining, TLC

Symmetry == Permutations(Conns) \cup Permutations(Transfers)

=============================================================================
