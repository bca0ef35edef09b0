------------------------------ MODULE MCIoLoop ------------------------------
(* Instances of IoLoop for TLC. *)
EXTENDS IoLoop

CONSTANTS l1, l2

\* One lane that asks for more than there are slots, and two lanes that meet
\* in one slot or fill both, with each kind of request next to a read.
MCWorkloads ==
  LET Ask(l, k) == [lane |-> l, op |-> k] IN
  {<<Ask(l1, "read"), Ask(l1, "read"), Ask(l1, "read")>>,
   <<Ask(l1, "read"), Ask(l2, "read")>>,
   <<Ask(l1, "read"), Ask(l1, "fence"), Ask(l2, "read")>>,
   <<Ask(l1, "read"), Ask(l2, "other")>>,
   <<Ask(l1, "unregistered"), Ask(l2, "read")>>}
=============================================================================
