--------------------------- MODULE MCSteeringRail ---------------------------
(* SteeringRail with interchangeable user messages. *)
EXTENDS SteeringRail, TLC

Symmetry == Permutations(Msgs)
============================================================================
