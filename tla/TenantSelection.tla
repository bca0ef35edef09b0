-------------------------- MODULE TenantSelection --------------------------
(***************************************************************************)
(* select_concurrent_tenants_into: the greedy choice of tenants that may    *)
(* share a dispatch slot, given a conflict matrix in row-major order.  One  *)
(* step is one pass of the outer loop.  The sorted ids of the active        *)
(* tenants are an increasing function on 0 .. n-1, and the two vectors that *)
(* are only appended to, in index order, are sets.                          *)
(***************************************************************************)
EXTENDS Integers

CONSTANTS
  MaxActive,   \* bound: active tenants
  TenantIds,   \* ids of tenants
  Lengths      \* lengths of the conflict slice

ASSUME ActiveAssumption == MaxActive \in Nat
ASSUME IdsAssumption == TenantIds \subseteq Nat
ASSUME LengthsAssumption == Lengths \subseteq Nat

VARIABLES
  n,          \* active_ids.len()
  active,     \* active_ids
  len, adj,   \* conflict_adj: its length and its values
  candidate,  \* candidate_idx
  selected,   \* selected_indices
  out,        \* the ids returned
  pc

selectVars == <<n, active, len, adj, candidate, selected, out, pc>>

Increasing(f) == \A i, j \in DOMAIN f : i < j => f[i] < f[j]

SelectInit ==
  /\ n \in 0 .. MaxActive
  /\ active \in {f \in [0 .. n - 1 -> TenantIds] : Increasing(f)}
  /\ len \in Lengths
  /\ adj \in [0 .. len - 1 -> {0, 1}]
  /\ candidate = 0 /\ selected = {} /\ out = {} /\ pc = "check"

\* The early returns: no tenant, a matrix of another size, no conflict.  All
\* active tenants are returned.
CheckMatrix ==
  /\ pc = "check"
  /\ IF n = 0 \/ n * n # len \/ \A k \in 0 .. len - 1 : adj[k] = 0
       THEN pc' = "done" /\ out' = {active[i] : i \in 0 .. n - 1}
       ELSE pc' = "select" /\ UNCHANGED out
  /\ UNCHANGED <<n, active, len, adj, candidate, selected>>

\* Slip: only the candidate's row is read.
ConflictsInRow(i, j) == adj[i * n + j] # 0

\* The test of the inner loop: a conflict entered in either direction.
Conflicts(i, j) == adj[i * n + j] # 0 \/ adj[j * n + i] # 0

\* Slip: the first conflict ends the selection.
ConsiderUntilConflict ==
  /\ pc = "select" /\ candidate < n
  /\ IF \E s \in selected : Conflicts(candidate, s)
       THEN candidate' = n /\ UNCHANGED selected
       ELSE candidate' = candidate + 1 /\ selected' = selected \cup {candidate}
  /\ UNCHANGED <<n, active, len, adj, out, pc>>

\* One pass of the outer loop: the candidate is skipped if it conflicts with
\* a tenant selected before it.
Consider ==
  /\ pc = "select" /\ candidate < n
  /\ candidate' = candidate + 1
  /\ IF \E s \in selected : Conflicts(candidate, s)
       THEN UNCHANGED selected
       ELSE selected' = selected \cup {candidate}
  /\ UNCHANGED <<n, active, len, adj, out, pc>>

\* The ids of the selected indices.
Emit ==
  /\ pc = "select" /\ candidate = n
  /\ out' = {active[i] : i \in selected}
  /\ pc' = "done"
  /\ UNCHANGED <<n, active, len, adj, candidate, selected>>

SelectNext == CheckMatrix \/ Consider \/ Emit

SelectSpec == SelectInit /\ [][SelectNext]_selectVars
-----------------------------------------------------------------------------
(* Properties *)

\* The indices in use name active tenants, and the matrix has a cell for each
\* pair of them when the loop reads it.
SelectTypeOK ==
  /\ n \in Nat /\ active \in [0 .. n - 1 -> TenantIds] /\ Increasing(active)
  /\ len \in Nat /\ adj \in [0 .. len - 1 -> {0, 1}]
  /\ candidate \in 0 .. n /\ selected \subseteq 0 .. candidate - 1
  /\ out \subseteq TenantIds /\ pc \in {"check", "select", "done"}
  /\ pc = "select" => n * n = len

\* Reference: tenants i and j, by index, may not share a slot.
Incompatible(i, j) == i # j /\ (adj[i * n + j] # 0 \/ adj[j * n + i] # 0)

\* The matrix describes the active tenants.
MatrixFits == n * n = len

\* No two of the tenants returned for one slot are in conflict, whichever of
\* the two entries of the matrix records it.
SelectionIndependent ==
  pc = "done" /\ MatrixFits =>
    \A i, j \in 0 .. n - 1 : active[i] \in out /\ active[j] \in out => ~Incompatible(i, j)

\* No tenant that was left out could have been added.
SelectionMaximal ==
  pc = "done" /\ MatrixFits =>
    \A i \in 0 .. n - 1 : active[i] \notin out =>
      \E j \in 0 .. n - 1 : active[j] \in out /\ Incompatible(i, j)
=============================================================================
