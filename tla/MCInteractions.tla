---------------------------- MODULE MCInteractions ----------------------------
EXTENDS Interactions, TLC

CONSTANTS s1, s2

\* The host's game has both Sims loaded, a client's only one of them.
TheLoads == [x \in Players |-> IF x = Host THEN {s1, s2} ELSE {s1}]

Symmetry == Permutations(Requests)

=============================================================================
