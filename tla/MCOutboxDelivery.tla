-------------------------- MODULE MCOutboxDelivery --------------------------
(* Instances of OutboxDelivery for TLC. *)
EXTENDS OutboxDelivery, TLC

Symmetry == Permutations(Workers) \cup Permutations(Devices)
=============================================================================
