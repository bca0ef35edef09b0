------------------------- MODULE MCTenantSelection -------------------------
(* An instance of TenantSelection for TLC: every conflict matrix of at most  *)
(* three tenants, symmetric or not, and slices of the wrong length.          *)
EXTENDS TenantSelection

MCTenantIds == 1 .. 4
MCLengths == {0, 1, 2, 4, 9, 10}
=============================================================================
