--------------------------- MODULE PersistentQueue ---------------------------
(***************************************************************************)
(* The host-side work queue of vyre-driver/src/persistent.rs: a ring of    *)
(* RingSize slots shared by concurrent producers (enqueue), consumers      *)
(* (claim, mark_done) and threads that ask in_flight.  Every atomic load,  *)
(* store and compare-exchange is a step of its own.                        *)
(*                                                                         *)
(* A slot's ready word is a sequence number: q when the slot is free for   *)
(* position q, q + 1 when position q is published in it, q + RingSize once *)
(* a consumer has read position q.  An item is the pair of 64-bit words    *)
(* pack_work_item makes of it, stored and loaded one word at a time.       *)
(***************************************************************************)
EXTENDS Integers, Sequences

CONSTANTS Producers, Consumers, Observers,  \* the threads using one engine
          RingSize,                         \* slots in the ring
          Items,                            \* packed items, pairs <<lo, hi>>
          MaxItems,                         \* bound on the items enqueued
          None                              \* no item

ASSUME SizeAssumption == RingSize \in Nat \ {0} /\ MaxItems \in Nat

ASSUME ItemAssumption == \A v \in Items : v = <<v[1], v[2]>> /\ v # None

VARIABLES head, tail,   \* RingAtomics.head and .tail
          ready, done,  \* RingAtomics.ready and .done, one word per slot
          lo, hi,       \* the two words of every WorkSlot
          prod,         \* each producer's place in enqueue: pc, head read, item
          cons,         \* each consumer's place in claim: pc, tail read, words read
          obs,          \* each observer's place in try_in_flight: pc, head read, last answer
          log,          \* history: the items in the order head counted them
          finished      \* history: positions whose consumer called mark_done

vars == <<head, tail, ready, done, lo, hi, prod, cons, obs, log, finished>>

Ring == 0 .. RingSize - 1

Slot(q) == q % RingSize

FirstWords == {v[1] : v \in Items} \cup {None}
SecondWords == {v[2] : v \in Items} \cup {None}

ProdPcs == {"idle", "head", "ready", "cas", "lo", "hi", "done", "publish"}
ConsPcs == {"idle", "tail", "ready", "empty", "cas", "lo", "hi", "release", "work"}

Init == /\ head = 0 /\ tail = 0
        /\ ready = [i \in Ring |-> i]
        /\ done = [i \in Ring |-> 0]
        /\ lo = [i \in Ring |-> None] /\ hi = [i \in Ring |-> None]
        /\ prod = [p \in Producers |-> [pc |-> "idle", h |-> 0, item |-> None]]
        /\ cons = [c \in Consumers |-> [pc |-> "idle", t |-> 0, lo |-> None, hi |-> None]]
        /\ obs = [o \in Observers |-> [pc |-> "idle", h |-> 0, n |-> 0]]
        /\ log = << >>
        /\ finished = {}

-----------------------------------------------------------------------------
(* enqueue *)

\* ring_sequence_order on counters that have not wrapped at 2^64.
Free(sequence, position) == sequence = position
Behind(sequence, position) == sequence < position
Ahead(sequence, position) == sequence > position

EnqueueBegin(p) ==
  /\ prod[p].pc = "idle" /\ head < MaxItems
  /\ \E v \in Items : prod' = [prod EXCEPT ![p] = [@ EXCEPT !.pc = "head", !.item = v]]
  /\ UNCHANGED <<head, tail, ready, done, lo, hi, cons, obs, log, finished>>

EnqueueLoadHead(p) ==
  /\ prod[p].pc = "head"
  /\ prod' = [prod EXCEPT ![p] = [@ EXCEPT !.pc = "ready", !.h = head]]
  /\ UNCHANGED <<head, tail, ready, done, lo, hi, cons, obs, log, finished>>

\* A slip in the test of the slot: a slot still in use is not told from a free one.
EnqueueLoadReadyNoFull(p) ==
  LET h == prod[p].h  r == ready[Slot(h)]
  IN  /\ prod[p].pc = "ready"
      /\ prod' = [prod EXCEPT ![p] = [@ EXCEPT !.pc = IF Ahead(r, h) THEN "head" ELSE "cas"]]
      /\ UNCHANGED <<head, tail, ready, done, lo, hi, cons, obs, log, finished>>

\* A slip in the other direction: a lost race is reported as a full ring.
EnqueueLoadReadyGivesUp(p) ==
  LET h == prod[p].h  r == ready[Slot(h)]
  IN  /\ prod[p].pc = "ready"
      /\ prod' = [prod EXCEPT ![p] = [@ EXCEPT !.pc = IF Free(r, h) THEN "cas" ELSE "idle"]]
      /\ UNCHANGED <<head, tail, ready, done, lo, hi, cons, obs, log, finished>>

\* Err(QueueFull) is the return to "idle"; a slot that moved on restarts the loop.
EnqueueLoadReady(p) ==
  LET h == prod[p].h  r == ready[Slot(h)]
  IN  /\ prod[p].pc = "ready"
      /\ \/ Free(r, h) /\ prod' = [prod EXCEPT ![p] = [@ EXCEPT !.pc = "cas"]]
         \/ Behind(r, h) /\ prod' = [prod EXCEPT ![p] = [@ EXCEPT !.pc = "idle"]]
         \/ Ahead(r, h) /\ prod' = [prod EXCEPT ![p] = [@ EXCEPT !.pc = "head"]]
      /\ UNCHANGED <<head, tail, ready, done, lo, hi, cons, obs, log, finished>>

EnqueueCasHead(p) ==
  /\ prod[p].pc = "cas"
  /\ \/ /\ head = prod[p].h
        /\ head' = head + 1
        /\ log' = Append(log, prod[p].item)
        /\ prod' = [prod EXCEPT ![p] = [@ EXCEPT !.pc = "lo"]]
     \/ /\ head # prod[p].h
        /\ prod' = [prod EXCEPT ![p] = [@ EXCEPT !.pc = "head"]]
        /\ UNCHANGED <<head, log>>
  /\ UNCHANGED <<tail, ready, done, lo, hi, cons, obs, finished>>

EnqueueStoreLo(p) ==
  /\ prod[p].pc = "lo"
  /\ lo' = [lo EXCEPT ![Slot(prod[p].h)] = prod[p].item[1]]
  /\ prod' = [prod EXCEPT ![p] = [@ EXCEPT !.pc = "hi"]]
  /\ UNCHANGED <<head, tail, ready, done, hi, cons, obs, log, finished>>

EnqueueStoreHi(p) ==
  /\ prod[p].pc = "hi"
  /\ hi' = [hi EXCEPT ![Slot(prod[p].h)] = prod[p].item[2]]
  /\ prod' = [prod EXCEPT ![p] = [@ EXCEPT !.pc = "done"]]
  /\ UNCHANGED <<head, tail, ready, done, lo, cons, obs, log, finished>>

EnqueueResetDone(p) ==
  /\ prod[p].pc = "done"
  /\ done' = [done EXCEPT ![Slot(prod[p].h)] = 0]
  /\ prod' = [prod EXCEPT ![p] = [@ EXCEPT !.pc = "publish"]]
  /\ UNCHANGED <<head, tail, ready, lo, hi, cons, obs, log, finished>>

\* A slip in the published sequence number: the position itself.
EnqueuePublishPosition(p) ==
  /\ prod[p].pc = "publish"
  /\ ready' = [ready EXCEPT ![Slot(prod[p].h)] = prod[p].h]
  /\ prod' = [prod EXCEPT ![p] = [@ EXCEPT !.pc = "idle"]]
  /\ UNCHANGED <<head, tail, done, lo, hi, cons, obs, log, finished>>

\* Returns Ok(slot_idx).
EnqueuePublish(p) ==
  /\ prod[p].pc = "publish"
  /\ ready' = [ready EXCEPT ![Slot(prod[p].h)] = prod[p].h + 1]
  /\ prod' = [prod EXCEPT ![p] = [@ EXCEPT !.pc = "idle"]]
  /\ UNCHANGED <<head, tail, done, lo, hi, cons, obs, log, finished>>

Enqueue(p) == \/ EnqueueLoadHead(p) \/ EnqueueLoadReady(p) \/ EnqueueCasHead(p)
              \/ EnqueueStoreLo(p) \/ EnqueueStoreHi(p)
              \/ EnqueueResetDone(p) \/ EnqueuePublish(p)

-----------------------------------------------------------------------------
(* claim and mark_done *)

ClaimBegin(c) ==
  /\ cons[c].pc = "idle"
  /\ cons' = [cons EXCEPT ![c] = [@ EXCEPT !.pc = "tail"]]
  /\ UNCHANGED <<head, tail, ready, done, lo, hi, prod, obs, log, finished>>

ClaimLoadTail(c) ==
  /\ cons[c].pc = "tail"
  /\ cons' = [cons EXCEPT ![c] = [@ EXCEPT !.pc = "ready", !.t = tail]]
  /\ UNCHANGED <<head, tail, ready, done, lo, hi, prod, obs, log, finished>>

\* A slip in the wait for the payload: a claimed head is taken for a published slot.
ClaimLoadReadyEarly(c) ==
  LET t == cons[c].t  r == ready[Slot(t)]
  IN  /\ cons[c].pc = "ready"
      /\ cons' = [cons EXCEPT ![c] =
                    [@ EXCEPT !.pc = IF Ahead(r, t + 1) THEN "tail"
                                     ELSE IF t < head THEN "cas" ELSE "empty"]]
      /\ UNCHANGED <<head, tail, ready, done, lo, hi, prod, obs, log, finished>>

ClaimLoadReady(c) ==
  LET t == cons[c].t  r == ready[Slot(t)]
  IN  /\ cons[c].pc = "ready"
      /\ \/ Free(r, t + 1) /\ cons' = [cons EXCEPT ![c] = [@ EXCEPT !.pc = "cas"]]
         \/ Behind(r, t + 1) /\ cons' = [cons EXCEPT ![c] = [@ EXCEPT !.pc = "empty"]]
         \/ Ahead(r, t + 1) /\ cons' = [cons EXCEPT ![c] = [@ EXCEPT !.pc = "tail"]]
      /\ UNCHANGED <<head, tail, ready, done, lo, hi, prod, obs, log, finished>>

\* A slip in the empty test: a slot that is not published yet means an empty ring.
ClaimLoadHeadGivesUp(c) ==
  /\ cons[c].pc = "empty"
  /\ cons' = [cons EXCEPT ![c] = [@ EXCEPT !.pc = "idle"]]
  /\ UNCHANGED <<head, tail, ready, done, lo, hi, prod, obs, log, finished>>

\* None is the return to "idle"; a claimed but unpublished position is spun on.
ClaimLoadHead(c) ==
  /\ cons[c].pc = "empty"
  /\ \/ cons[c].t >= head /\ cons' = [cons EXCEPT ![c] = [@ EXCEPT !.pc = "idle"]]
     \/ cons[c].t < head /\ cons' = [cons EXCEPT ![c] = [@ EXCEPT !.pc = "tail"]]
  /\ UNCHANGED <<head, tail, ready, done, lo, hi, prod, obs, log, finished>>

ClaimCasTail(c) ==
  /\ cons[c].pc = "cas"
  /\ \/ /\ tail = cons[c].t
        /\ tail' = tail + 1
        /\ cons' = [cons EXCEPT ![c] = [@ EXCEPT !.pc = "lo"]]
     \/ /\ tail # cons[c].t
        /\ cons' = [cons EXCEPT ![c] = [@ EXCEPT !.pc = "tail"]]
        /\ UNCHANGED tail
  /\ UNCHANGED <<head, ready, done, lo, hi, prod, obs, log, finished>>

ClaimLoadLo(c) ==
  /\ cons[c].pc = "lo"
  /\ cons' = [cons EXCEPT ![c] = [@ EXCEPT !.pc = "hi", !.lo = lo[Slot(cons[c].t)]]]
  /\ UNCHANGED <<head, tail, ready, done, lo, hi, prod, obs, log, finished>>

ClaimLoadHi(c) ==
  /\ cons[c].pc = "hi"
  /\ cons' = [cons EXCEPT ![c] = [@ EXCEPT !.pc = "release", !.hi = hi[Slot(cons[c].t)]]]
  /\ UNCHANGED <<head, tail, ready, done, lo, hi, prod, obs, log, finished>>

\* Returns Some(item): the consumer now works on it.
ClaimRelease(c) ==
  /\ cons[c].pc = "release"
  /\ ready' = [ready EXCEPT ![Slot(cons[c].t)] = cons[c].t + RingSize]
  /\ cons' = [cons EXCEPT ![c] = [@ EXCEPT !.pc = "work"]]
  /\ UNCHANGED <<head, tail, done, lo, hi, prod, obs, log, finished>>

\* mark_done on the slot the finished item was enqueued in.
MarkDone(c) ==
  /\ cons[c].pc = "work"
  /\ done' = [done EXCEPT ![Slot(cons[c].t)] = 1]
  /\ finished' = finished \cup {cons[c].t}
  /\ cons' = [cons EXCEPT ![c] = [@ EXCEPT !.pc = "idle", !.lo = None, !.hi = None]]
  /\ UNCHANGED <<head, tail, ready, lo, hi, prod, obs, log>>

Claim(c) == \/ ClaimBegin(c) \/ ClaimLoadTail(c) \/ ClaimLoadReady(c)
            \/ ClaimLoadHead(c) \/ ClaimCasTail(c) \/ ClaimLoadLo(c)
            \/ ClaimLoadHi(c) \/ ClaimRelease(c) \/ MarkDone(c)

-----------------------------------------------------------------------------
(* try_in_flight: head first, tail second.  head - tail wraps below zero   *)
(* to a u64 that does not fit u32: Err, and a panic in in_flight.          *)

InFlightLoadHead(o) ==
  /\ obs[o].pc = "idle"
  /\ obs' = [obs EXCEPT ![o] = [@ EXCEPT !.pc = "tail", !.h = head]]
  /\ UNCHANGED <<head, tail, ready, done, lo, hi, prod, cons, log, finished>>

InFlightLoadTail(o) ==
  /\ obs[o].pc = "tail"
  /\ obs' = [obs EXCEPT ![o] = IF tail <= obs[o].h
                               THEN [@ EXCEPT !.pc = "idle", !.n = obs[o].h - tail]
                               ELSE [@ EXCEPT !.pc = "error"]]
  /\ UNCHANGED <<head, tail, ready, done, lo, hi, prod, cons, log, finished>>

Next == \/ \E p \in Producers : EnqueueBegin(p) \/ Enqueue(p)
        \/ \E c \in Consumers : Claim(c)
        \/ \E o \in Observers : InFlightLoadHead(o) \/ InFlightLoadTail(o)

Spec == Init /\ [][Next]_vars

\* A thread that is inside a call keeps running, and consumers keep calling claim.
FairSpec == /\ Spec
            /\ \A p \in Producers : WF_vars(Enqueue(p))
            /\ \A c \in Consumers : WF_vars(Claim(c))

-----------------------------------------------------------------------------
(* Properties *)

\* The variables have their types, head is the number of items accepted, and
\* head - tail is a count of at most RingSize items, so that try_in_flight of a
\* quiet engine returns it.
TypeOK ==
  /\ head \in Nat /\ tail \in Nat
  /\ tail <= head /\ head <= tail + RingSize
  /\ ready \in [Ring -> Nat] /\ done \in [Ring -> {0, 1}]
  /\ lo \in [Ring -> FirstWords] /\ hi \in [Ring -> SecondWords]
  /\ prod \in [Producers -> [pc : ProdPcs, h : Nat, item : Items \cup {None}]]
  /\ cons \in [Consumers -> [pc : ConsPcs, t : Nat, lo : FirstWords, hi : SecondWords]]
  /\ obs \in [Observers -> [pc : {"idle", "tail", "error"}, h : Nat, n : Nat]]
  /\ log \in Seq(Items) /\ Len(log) = head
  /\ finished \subseteq Nat

\* What a consumer has in hand: the item at its position once it won the
\* position, from then on the words it has read.
InHand(c) ==
  CASE cons[c].pc = "lo" -> log[cons[c].t + 1]
    [] cons[c].pc = "hi" -> <<cons[c].lo, log[cons[c].t + 1][2]>>
    [] cons[c].pc \in {"release", "work"} -> <<cons[c].lo, cons[c].hi>>
    [] OTHER -> None

Fifo == INSTANCE FifoQueue WITH
          Takers <- Consumers, Capacity <- RingSize, Nothing <- None,
          accepted <- log, taken <- tail, held <- [c \in Consumers |-> InHand(c)]

\* enqueue and claim implement a bounded first-in first-out queue: every item
\* accepted is handed to exactly one consumer, in order, both of its words
\* those the producer packed.
ImplementsFifo == Fifo!Spec

\* A producer between its exchange of head and its store of the sequence
\* number, and a consumer between its exchange of tail and the slot's release.
Writing(p, q) == prod[p].pc \in {"lo", "hi", "done", "publish"} /\ prod[p].h = q
Reading(c, q) == cons[c].pc \in {"lo", "hi", "release"} /\ cons[c].t = q

\* No slot is abandoned: a slot that is taken and not published has a producer
\* at work in it, and one that is claimed and not released a consumer.
Attended ==
  \A q \in (head - RingSize) .. (head - 1) :
    /\ ready[Slot(q)] = q => \E p \in Producers : Writing(p, q)
    /\ ready[Slot(q)] = q + 1 /\ q < tail => \E c \in Consumers : Reading(c, q)

\* enqueue returns QueueFull only when RingSize accepted items wait, or while a
\* consumer still reads the item RingSize positions back; no answer is given
\* from a head that has moved on.
FullIsTrue ==
  [][\A p \in Producers : prod[p].pc = "ready" /\ prod'[p].pc = "idle" =>
       /\ prod[p].h = head
       /\ \/ head = tail + RingSize
          \/ \E c \in Consumers : Reading(c, head - RingSize)]_vars

\* claim returns None only when no accepted item is waiting, although it read
\* tail, the slot and head at three different times.
NoneMeansEmpty ==
  [][\A c \in Consumers : cons[c].pc = "empty" /\ cons'[c].pc = "idle" => head = tail]_vars

\* Every accepted item is claimed, if threads inside a call keep running and
\* consumers keep calling claim.
EnqueuedIsClaimed == \A k \in 0 .. MaxItems : head > k ~> tail > k

\* is_done answers for the item in the slot: the marker of a slot whose item
\* is published, or was since claimed, is set only by that item's consumer.
DoneMeansFinished ==
  \A q \in 0 .. head - 1 :
    q >= head - RingSize /\ ready[Slot(q)] # q /\ done[Slot(q)] = 1 => q \in finished

\* enqueue refuses when the ring is full: the items accepted and not yet claimed
\* are never more than its slots.
RefusesWhenFull == head <= tail + RingSize

\* A count that try_in_flight returns is never more than the ring holds, although
\* head and tail are read at different times.
InFlightWithinRing == \A o \in Observers : obs[o].n <= RingSize

\* try_in_flight always has a count to return.
InFlightAnswers == \A o \in Observers : obs[o].pc # "error"
=============================================================================
