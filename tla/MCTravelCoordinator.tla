----------------------- MODULE MCTravelCoordinator -----------------------
(* TLC instance of TravelCoordinator: interchangeable players. *)
EXTENDS TravelCoordinator, TLC

Symmetry == Permutations(Players)
=============================================================================
