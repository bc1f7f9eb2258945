------------------------------ MODULE MCOutbox ------------------------------
(* Instances of Outbox for TLC; the replicas are interchangeable. *)
EXTENDS Outbox, TLC

Symmetry == Permutations(Publishers) \cup Permutations(Cleaners)

=============================================================================
