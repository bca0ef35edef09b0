-------------------------- MODULE MCPriorityKernel --------------------------
(* Instances of PriorityKernel for TLC. *)
EXTENDS PriorityKernel

\* One CRITICAL, one NORMAL and one LOW slot.
ThreeBands == [p \in 0 .. 5 |-> CASE p = 0 -> 0 [] p \in {1, 2} -> 1 [] p = 3 -> 2 [] OTHER -> 3]

\* One CRITICAL and one NORMAL slot.
TwoBands == [p \in 0 .. 5 |-> IF p = 0 THEN 0 ELSE IF p < 3 THEN 1 ELSE 2]
=============================================================================
