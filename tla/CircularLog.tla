---------------------------- MODULE CircularLog -----------------------------
(***************************************************************************)
(* What a replay log of fixed size promises: the records of the last `size' *)
(* appends in the order they were made.  An append that fails half-way may  *)
(* cost the oldest record.  A crash forgets the newest records, and only    *)
(* ones no caller has been told are written.                                *)
(***************************************************************************)
EXTENDS Integers, Sequences

VARIABLES
  size,   \* records the log has room for, 0 before it is created
  log,    \* the records, oldest first
  acked   \* the records whose append has returned Ok

vars == <<size, log, acked>>

Init == size = 0 /\ log = <<>> /\ acked = {}

Create ==
  /\ size = 0 /\ size' \in Nat \ {0}
  /\ UNCHANGED <<log, acked>>

\* A record that is newer than all others is added; a full log drops its
\* oldest one.
Add ==
  /\ size > 0 /\ log' # <<>>
  /\ LET new == log'[Len(log')] IN
       /\ \A k \in 1 .. Len(log) : log[k] < new
       /\ log' = Append(IF Len(log) = size THEN Tail(log) ELSE log, new)
  /\ UNCHANGED <<size, acked>>

Acknowledge ==
  /\ log # <<>>
  /\ acked' = acked \cup {log[Len(log)]}
  /\ UNCHANGED <<size, log>>

Tear ==
  /\ size > 0 /\ Len(log) = size
  /\ log' = Tail(log)
  /\ UNCHANGED <<size, acked>>

Forget ==
  /\ \E k \in 0 .. Len(log) :
       /\ \A j \in k + 1 .. Len(log) : log[j] \notin acked
       /\ log' = SubSeq(log, 1, k)
  /\ UNCHANGED <<size, acked>>

Next == Create \/ Add \/ Acknowledge \/ Tear \/ Forget

Spec == Init /\ [][Next]_vars
=============================================================================
