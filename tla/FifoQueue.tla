------------------------------ MODULE FifoQueue ------------------------------
(***************************************************************************)
(* What vyre-driver/src/persistent.rs promises its callers: a bounded      *)
(* first-in first-out queue.  accepted is every item the queue has taken,  *)
(* in order; taken is how many of them have been handed out; held is what  *)
(* each consumer has in hand.                                              *)
(***************************************************************************)
EXTENDS Naturals, Sequences

CONSTANTS Takers, Items, Capacity, Nothing

VARIABLES accepted, taken, held

vars == <<accepted, taken, held>>

Init == /\ accepted = << >>
        /\ taken = 0
        /\ held = [c \in Takers |-> Nothing]

Put(v) == /\ Len(accepted) < taken + Capacity
          /\ accepted' = Append(accepted, v)
          /\ UNCHANGED <<taken, held>>

Take(c) == /\ taken < Len(accepted)
           /\ taken' = taken + 1
           /\ held' = [held EXCEPT ![c] = accepted[taken + 1]]
           /\ UNCHANGED accepted

Drop(c) == /\ held' = [held EXCEPT ![c] = Nothing]
           /\ UNCHANGED <<accepted, taken>>

Next == (\E v \in Items : Put(v)) \/ (\E c \in Takers : Take(c) \/ Drop(c))

Spec == Init /\ [][Next]_vars
=============================================================================
