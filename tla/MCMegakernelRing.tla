-------------------------- MODULE MCMegakernelRing --------------------------
(***************************************************************************)
(* Small instances of MegakernelRing for TLC.                               *)
(***************************************************************************)
EXTENDS MegakernelRing

\* One launch: lane i polls slot i.
OneLanePerSlot == [l \in Lanes |-> l]

\* Overlapping launches over the same resident ring.
LanesShareSlots == [l \in Lanes |-> l % SlotCount]
=============================================================================
