------------------------- MODULE MCTenantAccounting -------------------------
(* Instances of TenantAccounting for TLC. *)
EXTENDS TenantAccounting, TLC

\* Publisher threads are interchangeable.
PublisherSymmetry == Permutations(Publishers)
=============================================================================
