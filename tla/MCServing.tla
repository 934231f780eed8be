----------------------------- MODULE MCServing ------------------------------
(* Serving on small instances: attempts and leases are interchangeable. *)
EXTENDS Serving, TLC

Symmetry == Permutations(Attempts) \cup Permutations(Leases)

=============================================================================
