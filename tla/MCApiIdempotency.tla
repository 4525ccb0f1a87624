-------------------------- MODULE MCApiIdempotency --------------------------
(* Instances of ApiIdempotency for TLC. *)
EXTENDS ApiIdempotency, TLC

Symmetry == Permutations(Attempts) \cup Permutations(Bodies)
=============================================================================
