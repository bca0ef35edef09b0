-------------------------- MODULE MCTenantRegistry --------------------------
(* Instances of TenantRegistry for TLC. *)
EXTENDS TenantRegistry, TLC

\* Threads are interchangeable.
ThreadSymmetry == Permutations(Threads)
=============================================================================
