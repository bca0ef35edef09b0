------------------------ MODULE PersistentQueueProofs ------------------------
(***************************************************************************)
(* For every set of threads, every set of items and every ring of at least *)
(* two slots, PersistentQueue implements FifoQueue, and the answers        *)
(* QueueFull and None are right when they are given.                       *)
(***************************************************************************)
EXTENDS PersistentQueue, TLAPS

\* A leaf that names no prover is for the SMT solver, tried twice, and for Zenon
\* where the solver finds nothing.
USE SMTT(60), SMTT(70), Zenon

\* A position has a slot of the ring.
LEMMA SlotRange == ASSUME NEW q \in Int PROVE Slot(q) \in Ring
  BY SizeAssumption DEF Slot, Ring

\* A position is its slot plus a whole number of laps.
LEMMA SlotLap == ASSUME NEW q \in Int PROVE \E k \in Int : q = RingSize * k + Slot(q)
  <1>1. q \div RingSize \in Int
    BY SizeAssumption
  <1>2. q = RingSize * (q \div RingSize) + (q % RingSize)
    BY SizeAssumption
  <1> QED BY <1>1, <1>2 DEF Slot

\* Two positions less than a lap apart share no slot.
LEMMA SlotInjective ==
  ASSUME NEW q \in Int, NEW r \in Int, Slot(q) = Slot(r),
         q < r + RingSize, r < q + RingSize
  PROVE  q = r
  <1>1. PICK k \in Int : q = RingSize * k + Slot(q)
    BY SlotLap
  <1>2. PICK l \in Int : r = RingSize * l + Slot(r)
    BY SlotLap
  <1>3. Slot(q) \in Int /\ RingSize \in Nat
    BY SlotRange, SizeAssumption DEF Ring
  <1>4. q - r = RingSize * (k - l)
    BY <1>1, <1>2, <1>3
  <1>5. CASE k = l
    BY <1>1, <1>2, <1>5
  <1>6. CASE k > l
    <2>1. k - l >= 1 BY <1>6
    <2>2. RingSize * (k - l) >= RingSize BY <2>1, <1>3
    <2> QED BY <2>2, <1>4, <1>3
  <1>7. CASE k < l
    <2>1. l - k >= 1 BY <1>7
    <2>2. RingSize * (l - k) >= RingSize BY <2>1, <1>3
    <2>3. r - q = RingSize * (l - k) BY <1>1, <1>2, <1>3
    <2> QED BY <2>2, <2>3, <1>3
  <1> QED BY <1>5, <1>6, <1>7

\* A lap later the slot is the same.
LEMMA SlotPeriodic == ASSUME NEW q \in Int PROVE Slot(q + RingSize) = Slot(q)
  <1>1. PICK k \in Int : q = RingSize * k + Slot(q)
    BY SlotLap
  <1>2. q + RingSize \in Int
    BY SizeAssumption
  <1>3. PICK l \in Int : q + RingSize = RingSize * l + Slot(q + RingSize)
    BY <1>2, SlotLap
  <1>4. RingSize \in Nat /\ Slot(q) \in Ring /\ Slot(q + RingSize) \in Ring
    BY <1>2, SlotRange, SizeAssumption
  <1>5. Slot(q + RingSize) - Slot(q) = RingSize * ((k + 1) - l)
    BY <1>1, <1>3, <1>4 DEF Ring
  <1>6. CASE k + 1 = l
    BY <1>4, <1>5, <1>6 DEF Ring
  <1>7. CASE k + 1 > l
    <2>1. (k + 1) - l >= 1 BY <1>7
    <2>2. RingSize * ((k + 1) - l) >= RingSize BY <2>1, <1>4
    <2> QED BY <2>2, <1>5, <1>4 DEF Ring
  <1>8. CASE k + 1 < l
    <2>1. l - (k + 1) >= 1 BY <1>8
    <2>2. RingSize * (l - (k + 1)) >= RingSize BY <2>1, <1>4
    <2>3. RingSize * (l - (k + 1)) = - (RingSize * ((k + 1) - l))
      BY <1>4
    <2> QED BY <2>2, <2>3, <1>5, <1>4 DEF Ring
  <1> QED BY <1>6, <1>7, <1>8

\* The first lap's positions are the slots.
LEMMA SlotFirst == ASSUME NEW q \in Ring PROVE Slot(q) = q
  BY SizeAssumption DEF Slot, Ring
-----------------------------------------------------------------------------
(* The inductive invariant *)

\* Of the RingSize positions before head, each slot is being written (q), holds
\* its item (q + 1) or has been read (q + RingSize); tail divides those still
\* waiting from those claimed.
RingInv ==
  \A q \in (head - RingSize) .. (head - 1) :
    LET r == ready[Slot(q)]
    IN  /\ r = q \/ r = q + 1 \/ r = q + RingSize
        /\ q >= tail => r # q + RingSize
        /\ q < tail => r # q
        /\ r = q + 1 => q >= 0 /\ lo[Slot(q)] = log[q + 1][1] /\ hi[Slot(q)] = log[q + 1][2]

\* A slot never falls behind a position that head has passed.
SeqInv == \A q \in 0 .. head - 1 : ready[Slot(q)] >= q

ProdInv ==
  \A p \in Producers :
    LET h == prod[p].h  pc == prod[p].pc
    IN  /\ pc # "idle" => prod[p].item \in Items
        /\ pc \in {"ready", "cas"} => h <= head
        /\ pc = "cas" /\ h = head => ready[Slot(h)] = h
        /\ pc \in {"lo", "hi", "done", "publish"} =>
             h < head /\ tail <= h /\ ready[Slot(h)] = h /\ log[h + 1] = prod[p].item
        /\ pc \in {"hi", "done", "publish"} => lo[Slot(h)] = prod[p].item[1]
        /\ pc \in {"done", "publish"} => hi[Slot(h)] = prod[p].item[2]

ConsInv ==
  \A c \in Consumers :
    LET t == cons[c].t  pc == cons[c].pc
    IN  /\ pc \in {"ready", "empty", "cas"} => t <= tail
        /\ pc = "cas" /\ t = tail => t < head /\ ready[Slot(t)] = t + 1
        /\ pc \in {"lo", "hi", "release", "work"} => t < tail
        /\ pc \in {"lo", "hi", "release"} => head - RingSize <= t /\ ready[Slot(t)] = t + 1
        /\ pc \in {"hi", "release", "work"} => cons[c].lo = log[t + 1][1]
        /\ pc \in {"release", "work"} => cons[c].hi = log[t + 1][2]

\* A position has one writer and one reader.
OwnInv ==
  /\ \A p, r \in Producers :
       /\ prod[p].pc \in {"lo", "hi", "done", "publish"}
       /\ prod[r].pc \in {"lo", "hi", "done", "publish"}
       /\ prod[p].h = prod[r].h
       => p = r
  /\ \A c, d \in Consumers :
       /\ cons[c].pc \in {"lo", "hi", "release"}
       /\ cons[d].pc \in {"lo", "hi", "release"}
       /\ cons[c].t = cons[d].t
       => c = d

\* An observer's head is one that head had.
ObsInv == \A o \in Observers : /\ obs[o].h <= tail + RingSize
                               /\ obs[o].n <= RingSize

IInv == TypeOK /\ RingInv /\ SeqInv /\ ProdInv /\ ConsInv /\ OwnInv /\ ObsInv

-----------------------------------------------------------------------------
(* Every step preserves it *)

\* Facts about the positions in the window that several steps use.
LEMMA Window ==
  ASSUME IInv
  PROVE  /\ head \in Nat /\ tail \in Nat /\ RingSize \in Nat /\ RingSize > 0
         /\ \A q \in Int : Slot(q) \in Ring
         /\ \A q \in (head - RingSize) .. (head - 1), r \in (head - RingSize) .. (head - 1) :
              Slot(q) = Slot(r) => q = r
  BY SizeAssumption, SlotRange, SlotInjective DEF IInv, TypeOK

\* The empty ring satisfies the inductive invariant.
LEMMA InitIInv == RingSize >= 2 /\ Init => IInv
  <1> SUFFICES ASSUME RingSize >= 2, Init PROVE IInv
    OBVIOUS
  <1>1. TypeOK
    BY SizeAssumption DEF Init, TypeOK, Ring, FirstWords, SecondWords, ProdPcs, ConsPcs
  <1>2. RingInv
    <2> SUFFICES ASSUME NEW q \in (head - RingSize) .. (head - 1)
                 PROVE  ready[Slot(q)] = q + RingSize /\ q < 0
      <3>1. tail = 0 /\ RingSize \in Nat
        BY SizeAssumption DEF Init
      <3> QED BY <3>1 DEF RingInv
    <2>1. q + RingSize \in Ring /\ q \in Int /\ q < 0
      BY SizeAssumption DEF Init, Ring
    <2>2. Slot(q) = q + RingSize
      BY <2>1, SlotPeriodic, SlotFirst
    <2> QED BY <2>1, <2>2 DEF Init
  <1>3. SeqInv
    BY DEF SeqInv, Init
  <1>4. ProdInv /\ ConsInv /\ OwnInv /\ ObsInv
    BY SizeAssumption DEF ProdInv, ConsInv, OwnInv, ObsInv, Init
  <1> QED BY <1>1, <1>2, <1>3, <1>4 DEF IInv

\* What a step leaves alone keeps the part of the invariant that is about it.
LEMMA Frames ==
  ASSUME IInv
  PROVE  /\ UNCHANGED <<head, tail, ready, lo, hi, log>> => RingInv'
         /\ UNCHANGED <<head, ready>> => SeqInv'
         /\ UNCHANGED <<head, tail, ready, lo, hi, log, prod>> => ProdInv'
         /\ UNCHANGED <<head, tail, ready, log, cons>> => ConsInv'
         /\ UNCHANGED <<prod, cons>> => OwnInv'
         /\ UNCHANGED <<tail, obs>> => ObsInv'
  <1>1. UNCHANGED <<head, tail, ready, lo, hi, log>> => RingInv'
    BY DEF IInv, RingInv
  <1>2. UNCHANGED <<head, ready>> => SeqInv'
    BY DEF IInv, SeqInv
  <1>3. UNCHANGED <<head, tail, ready, lo, hi, log, prod>> => ProdInv'
    BY DEF IInv, ProdInv
  <1>4. UNCHANGED <<head, tail, ready, log, cons>> => ConsInv'
    BY DEF IInv, ConsInv
  <1>5. UNCHANGED <<prod, cons>> => OwnInv'
    BY DEF IInv, OwnInv
  <1>6. UNCHANGED <<tail, obs>> => ObsInv'
    BY DEF IInv, ObsInv
  <1> QED BY <1>1, <1>2, <1>3, <1>4, <1>5, <1>6

\* A producer's step to another place in enqueue.
ProdRec == [pc : ProdPcs, h : Nat, item : Items \cup {None}]

\* Moving one producer's pc leaves the rest of its record, and the other producers, alone.
LEMMA ProdMoved ==
  ASSUME IInv, NEW p \in Producers, NEW pc \in ProdPcs,
         prod' = [prod EXCEPT ![p] = [@ EXCEPT !.pc = pc]]
  PROVE  /\ prod' \in [Producers -> ProdRec]
         /\ prod'[p].pc = pc /\ prod'[p].h = prod[p].h /\ prod'[p].item = prod[p].item
         /\ \A r \in Producers : r # p => prod'[r] = prod[r]
  <1>1. prod \in [Producers -> ProdRec] /\ prod[p] \in ProdRec
    BY DEF IInv, TypeOK, ProdRec
  <1> DEFINE e == [prod[p] EXCEPT !.pc = pc]
  <1>2. e \in ProdRec /\ e.pc = pc /\ e.h = prod[p].h /\ e.item = prod[p].item
    BY <1>1 DEF ProdRec
  <1>3. prod' = [prod EXCEPT ![p] = e]
    OBVIOUS
  <1> HIDE DEF e
  <1> QED BY <1>1, <1>2, <1>3

\* A step that changes one producer's place only.
LEMMA ProducerMoves ==
  ASSUME RingSize >= 2, IInv, NEW p \in Producers,
         EnqueueBegin(p) \/ EnqueueLoadHead(p) \/ EnqueueLoadReady(p)
  PROVE  IInv'
  <1> DEFINE Settled == /\ prod' \in [Producers -> ProdRec]
                        /\ prod'[p].pc \in {"idle", "head", "ready", "cas"}
                        /\ \A r \in Producers : r # p => prod'[r] = prod[r]
                        /\ prod'[p].pc # "idle" => prod'[p].item \in Items
                        /\ prod'[p].pc \in {"ready", "cas"} => prod'[p].h <= head
                        /\ prod'[p].pc = "cas" => ready[Slot(prod'[p].h)] = prod'[p].h
  <1>1. UNCHANGED <<head, tail, ready, done, lo, hi, cons, obs, log, finished>>
    BY Zenon DEF EnqueueBegin, EnqueueLoadHead, EnqueueLoadReady
  <1>2. Settled
    <2>1. prod \in [Producers -> ProdRec] /\ prod[p] \in ProdRec /\ head \in Nat
      BY DEF IInv, TypeOK, ProdRec
    <2>2. CASE EnqueueBegin(p)
      <3>1. PICK v \in Items : prod' = [prod EXCEPT ![p] = [@ EXCEPT !.pc = "head", !.item = v]]
        BY <2>2, Zenon DEF EnqueueBegin
      <3> DEFINE e == [prod[p] EXCEPT !.pc = "head", !.item = v]
      <3>2. e \in ProdRec /\ e.pc = "head" /\ e.item = v
        BY <2>1, Zenon DEF ProdRec, ProdPcs
      <3>3. prod' = [prod EXCEPT ![p] = e]
        BY <3>1
      <3> HIDE DEF e
      <3> QED BY <2>1, <3>2, <3>3
    <2>3. CASE EnqueueLoadHead(p)
      <3> DEFINE e == [prod[p] EXCEPT !.pc = "ready", !.h = head]
      <3>1. prod' = [prod EXCEPT ![p] = e] /\ prod[p].item \in Items
        BY <2>3 DEF EnqueueLoadHead, IInv, ProdInv
      <3>2. e \in ProdRec /\ e.pc = "ready" /\ e.h = head /\ e.item = prod[p].item
        BY <2>1, Zenon DEF ProdRec, ProdPcs
      <3> HIDE DEF e
      <3> QED BY <2>1, <3>1, <3>2
    <2>4. CASE EnqueueLoadReady(p)
      <3>1. prod[p].item \in Items /\ prod[p].h <= head
        BY <2>4 DEF EnqueueLoadReady, IInv, ProdInv
      <3>2. PICK pc \in {"cas", "idle", "head"} :
              /\ prod' = [prod EXCEPT ![p] = [@ EXCEPT !.pc = pc]]
              /\ pc = "cas" => ready[Slot(prod[p].h)] = prod[p].h
        BY <2>4 DEF EnqueueLoadReady, Free
      <3>3. pc \in ProdPcs
        BY DEF ProdPcs
      <3>4. /\ prod' \in [Producers -> ProdRec]
            /\ prod'[p].pc = pc /\ prod'[p].h = prod[p].h /\ prod'[p].item = prod[p].item
            /\ \A r \in Producers : r # p => prod'[r] = prod[r]
        BY <3>2, <3>3, ProdMoved, Zenon
      <3> QED BY <3>1, <3>2, <3>4
    <2> QED BY <2>2, <2>3, <2>4
  <1>3. TypeOK'
    BY <1>1, <1>2 DEF IInv, TypeOK, ProdRec
  <1>4. RingInv' /\ SeqInv' /\ ConsInv' /\ ObsInv'
    BY <1>1, Frames
  <1>5. ProdInv'
    BY <1>1, <1>2 DEF IInv, ProdInv
  <1>6. OwnInv'
    BY <1>1, <1>2 DEF IInv, OwnInv
  <1> QED BY <1>3, <1>4, <1>5, <1>6 DEF IInv

\* A producer's compare-exchange on head, won or lost, keeps the invariant.
LEMMA CasHeadStep ==
  ASSUME RingSize >= 2, IInv, NEW p \in Producers, EnqueueCasHead(p)
  PROVE  IInv'
  <1>1. CASE head # prod[p].h
    <2>a. /\ prod' = [prod EXCEPT ![p] = [@ EXCEPT !.pc = "head"]]
          /\ "head" \in ProdPcs
      BY <1>1 DEF EnqueueCasHead, ProdPcs
    <2>1. /\ UNCHANGED <<head, tail, ready, done, lo, hi, cons, obs, log, finished>>
          /\ prod' \in [Producers -> ProdRec]
          /\ \A r \in Producers : r # p => prod'[r] = prod[r]
          /\ prod'[p].pc = "head" /\ prod'[p].item = prod[p].item /\ prod[p].pc = "cas"
      BY <1>1, <2>a, ProdMoved, Zenon DEF EnqueueCasHead
    <2>2. TypeOK'
      BY <2>1 DEF IInv, TypeOK, ProdRec
    <2>3. RingInv' /\ SeqInv' /\ ConsInv' /\ ObsInv'
      BY <2>1, Frames
    <2>4. ProdInv'
      BY <2>1 DEF IInv, ProdInv
    <2>5. OwnInv'
      BY <2>1 DEF IInv, OwnInv
    <2> QED BY <2>2, <2>3, <2>4, <2>5 DEF IInv
  <1>2. CASE head = prod[p].h
    <2>a. /\ prod' = [prod EXCEPT ![p] = [@ EXCEPT !.pc = "lo"]]
          /\ "lo" \in ProdPcs
      BY <1>2 DEF EnqueueCasHead, ProdPcs
    <2>b. /\ prod' \in [Producers -> ProdRec]
          /\ \A r \in Producers : r # p => prod'[r] = prod[r]
          /\ prod'[p].pc = "lo" /\ prod'[p].h = prod[p].h /\ prod'[p].item = prod[p].item
      BY <2>a, ProdMoved, Zenon
    <2>1. /\ UNCHANGED <<tail, ready, done, lo, hi, cons, obs, finished>>
          /\ head' = head + 1 /\ log' = Append(log, prod[p].item)
          /\ \A r \in Producers : r # p => prod'[r] = prod[r]
          /\ prod'[p].pc = "lo" /\ prod'[p].h = head /\ prod'[p].item = prod[p].item
          /\ prod[p].item \in Items /\ ready[Slot(head)] = head
          /\ log \in Seq(Items) /\ Len(log) = head
      BY <1>2, <2>b DEF IInv, TypeOK, ProdInv, EnqueueCasHead
    <2>2. head \in Nat /\ tail \in Nat /\ RingSize \in Nat
      BY Window
    <2>3. /\ log' \in Seq(Items) /\ Len(log') = head'
          /\ \A q \in 0 .. head - 1 : log'[q + 1] = log[q + 1]
          /\ log'[head + 1] = prod[p].item
      BY <2>1, <2>2
    <2>4. Slot(head - RingSize) = Slot(head) /\ head - RingSize \in Int
      <3>1. head - RingSize \in Int /\ (head - RingSize) + RingSize = head
        BY <2>2
      <3> QED BY <3>1, SlotPeriodic
    <2>5. head < tail + RingSize
      <3>1. head - RingSize \in (head - RingSize) .. (head - 1)
        BY <2>2, SizeAssumption
      <3>2. ready[Slot(head - RingSize)] = (head - RingSize) + RingSize
        BY <2>1, <2>2, <2>4
      <3>3. ~ (head - RingSize >= tail)
        BY <3>1, <3>2 DEF IInv, RingInv
      <3> QED BY <3>3, <2>2
    <2>6. TypeOK'
      BY <2>b, <2>1, <2>2, <2>3, <2>5 DEF IInv, TypeOK, ProdRec
    <2>7. RingInv'
      <3> SUFFICES ASSUME NEW q \in (head' - RingSize) .. (head' - 1)
                   PROVE  LET r == ready[Slot(q)]
                          IN  /\ r = q \/ r = q + 1 \/ r = q + RingSize
                              /\ q >= tail => r # q + RingSize
                              /\ q < tail => r # q
                              /\ r = q + 1 => /\ q >= 0
                                              /\ lo[Slot(q)] = log'[q + 1][1]
                                              /\ hi[Slot(q)] = log'[q + 1][2]
        BY <2>1 DEF RingInv
      <3>1. CASE q = head
        <4>1. tail <= head
          BY DEF IInv, TypeOK
        <4> QED BY <3>1, <2>1, <2>2, <4>1
      <3>2. CASE q # head
        <4>1. q \in (head - RingSize) .. (head - 1)
          BY <3>2, <2>1, <2>2
        <4>2. q >= 0 => log'[q + 1] = log[q + 1]
          BY <4>1, <2>2, <2>3
        <4> QED BY <4>1, <4>2 DEF IInv, RingInv
      <3> QED BY <3>1, <3>2
    <2>8. SeqInv'
      BY <2>1, <2>2 DEF IInv, SeqInv
    <2>9. ProdInv'
      <3> SUFFICES ASSUME NEW r \in Producers
                   PROVE  LET h == prod'[r].h  pc == prod'[r].pc
                          IN /\ pc # "idle" => prod'[r].item \in Items
                             /\ pc \in {"ready", "cas"} => h <= head'
                             /\ pc = "cas" /\ h = head' => ready[Slot(h)] = h
                             /\ pc \in {"lo", "hi", "done", "publish"} =>
                                  h < head' /\ tail <= h /\ ready[Slot(h)] = h /\ log'[h + 1] = prod'[r].item
                             /\ pc \in {"hi", "done", "publish"} => lo[Slot(h)] = prod'[r].item[1]
                             /\ pc \in {"done", "publish"} => hi[Slot(h)] = prod'[r].item[2]
        BY <2>1, Zenon DEF ProdInv
      <3>1. CASE r = p
        <4>1. tail <= head
          BY DEF IInv, TypeOK
        <4> QED BY <3>1, <4>1, <2>1, <2>2, <2>3
      <3>2. CASE r # p
        <4>1. prod'[r] = prod[r] /\ prod[r].h \in Nat
          BY <3>2, <2>1 DEF IInv, TypeOK
        <4>2. prod[r].pc \in {"ready", "cas"} => prod[r].h <= head
          BY DEF IInv, ProdInv
        <4>3. prod[r].pc \in {"lo", "hi", "done", "publish"} =>
                prod[r].h < head /\ log'[prod[r].h + 1] = log[prod[r].h + 1]
          <5>1. prod[r].pc \in {"lo", "hi", "done", "publish"} => prod[r].h < head
            BY DEF IInv, ProdInv
          <5> QED BY <4>1, <5>1, <2>2, <2>3
        <4> QED BY <4>1, <4>2, <4>3, <2>1, <2>2 DEF IInv, ProdInv
      <3> QED BY <3>1, <3>2
    <2>10. ConsInv'
      <3> SUFFICES ASSUME NEW c \in Consumers
                   PROVE  LET t == cons[c].t  pc == cons[c].pc
                          IN /\ pc \in {"ready", "empty", "cas"} => t <= tail
                             /\ pc = "cas" /\ t = tail => t < head' /\ ready[Slot(t)] = t + 1
                             /\ pc \in {"lo", "hi", "release", "work"} => t < tail
                             /\ pc \in {"lo", "hi", "release"} => head' - RingSize <= t /\ ready[Slot(t)] = t + 1
                             /\ pc \in {"hi", "release", "work"} => cons[c].lo = log'[t + 1][1]
                             /\ pc \in {"release", "work"} => cons[c].hi = log'[t + 1][2]
        BY <2>1, Zenon DEF ConsInv
      <3>1. cons[c].t \in Nat /\ tail <= head
        BY DEF IInv, TypeOK
      <3>2. cons[c].pc \in {"lo", "hi", "release", "work"} => log'[cons[c].t + 1] = log[cons[c].t + 1]
        BY <3>1, <2>2, <2>3 DEF IInv, ConsInv
      <3>3. cons[c].pc \in {"lo", "hi", "release"} => cons[c].t # head - RingSize
        BY <3>1, <2>1, <2>2, <2>4 DEF IInv, ConsInv
      <3>4. /\ cons[c].pc = "cas" /\ cons[c].t = tail => cons[c].t < head'
            /\ cons[c].pc \in {"lo", "hi", "release"} => head' - RingSize <= cons[c].t
        <4>1. /\ cons[c].pc = "cas" /\ cons[c].t = tail => cons[c].t < head
              /\ cons[c].pc \in {"lo", "hi", "release"} => head - RingSize <= cons[c].t
          BY DEF IInv, ConsInv
        <4> QED BY <4>1, <3>1, <3>3, <2>1, <2>2
      <3> QED BY <3>2, <3>4 DEF IInv, ConsInv
    <2>11. OwnInv'
      <3>1. \A r \in Producers : prod[r].pc \in {"lo", "hi", "done", "publish"} => prod[r].h # head
        BY <2>2 DEF IInv, ProdInv
      <3> QED BY <3>1, <2>1 DEF IInv, OwnInv
    <2>12. ObsInv'
      BY <2>1 DEF IInv, ObsInv
    <2> QED BY <2>6, <2>7, <2>8, <2>9, <2>10, <2>11, <2>12 DEF IInv
  <1> QED BY <1>1, <1>2

\* Storing the low half of the item keeps the invariant.
LEMMA StoreLoStep ==
  ASSUME RingSize >= 2, IInv, NEW p \in Producers, EnqueueStoreLo(p)
  PROVE  IInv'
  <1> DEFINE h == prod[p].h
  <1>1. /\ UNCHANGED <<head, tail, ready, done, hi, cons, obs, log, finished>>
        /\ lo' = [lo EXCEPT ![Slot(h)] = prod[p].item[1]]
        /\ prod' = [prod EXCEPT ![p] = [@ EXCEPT !.pc = "hi"]]
        /\ prod[p].pc = "lo" /\ "hi" \in ProdPcs
    BY DEF EnqueueStoreLo, ProdPcs
  <1>2. /\ prod' \in [Producers -> ProdRec]
        /\ \A r \in Producers : r # p => prod'[r] = prod[r]
        /\ prod'[p].pc = "hi" /\ prod'[p].h = h /\ prod'[p].item = prod[p].item
    BY <1>1, ProdMoved, Zenon
  <1>3. /\ h \in Nat /\ h < head /\ tail <= h /\ ready[Slot(h)] = h
        /\ prod[p].item \in Items /\ log[h + 1] = prod[p].item
    BY <1>1 DEF IInv, TypeOK, ProdInv
  <1>4. head \in Nat /\ tail \in Nat /\ RingSize \in Nat /\ head <= tail + RingSize
    BY Window DEF IInv, TypeOK
  <1>5. h \in (head - RingSize) .. (head - 1) /\ Slot(h) \in Ring
    BY <1>3, <1>4, SlotRange
  <1>6. \A q \in (head - RingSize) .. (head - 1) : q # h => lo'[Slot(q)] = lo[Slot(q)]
    BY <1>1, <1>5, Window DEF IInv, TypeOK
  <1>7. lo'[Slot(h)] = prod[p].item[1]
    BY <1>1, <1>5 DEF IInv, TypeOK
  <1> HIDE DEF h
  <1>8. TypeOK'
    <2>1. lo' \in [Ring -> FirstWords]
      BY <1>1, <1>3, Zenon DEF IInv, TypeOK, FirstWords
    <2> QED BY <1>1, <1>2, <2>1 DEF IInv, TypeOK, ProdRec
  <1>9. RingInv'
    <2>1. ready[Slot(h)] # h + 1
      BY <1>3
    <2> QED BY <1>1, <1>6, <2>1 DEF IInv, RingInv
  <1>10. SeqInv' /\ ConsInv' /\ ObsInv'
    BY <1>1, Frames
  <1>11. ProdInv'
    <2> SUFFICES ASSUME NEW r \in Producers, r # p,
                        prod[r].pc \in {"lo", "hi", "done", "publish"}
                 PROVE  lo'[Slot(prod[r].h)] = lo[Slot(prod[r].h)]
      BY <1>1, <1>2, <1>3, <1>7 DEF IInv, ProdInv
    <2>1. prod[r].h # h
      BY <1>1 DEF IInv, OwnInv, h
    <2>2. prod[r].h \in Nat /\ prod[r].h < head /\ tail <= prod[r].h
      BY DEF IInv, TypeOK, ProdInv
    <2>3. prod[r].h \in (head - RingSize) .. (head - 1)
      BY <2>2, <1>4
    <2> QED BY <1>6, <2>1, <2>3
  <1>12. OwnInv'
    BY <1>1, <1>2 DEF IInv, OwnInv, h
  <1> QED BY <1>8, <1>9, <1>10, <1>11, <1>12 DEF IInv

\* Storing the high half of the item keeps the invariant.
LEMMA StoreHiStep ==
  ASSUME RingSize >= 2, IInv, NEW p \in Producers, EnqueueStoreHi(p)
  PROVE  IInv'
  <1> DEFINE h == prod[p].h
  <1>1. /\ UNCHANGED <<head, tail, ready, done, lo, cons, obs, log, finished>>
        /\ hi' = [hi EXCEPT ![Slot(h)] = prod[p].item[2]]
        /\ prod' = [prod EXCEPT ![p] = [@ EXCEPT !.pc = "done"]]
        /\ prod[p].pc = "hi" /\ "done" \in ProdPcs
    BY DEF EnqueueStoreHi, ProdPcs
  <1>2. /\ prod' \in [Producers -> ProdRec]
        /\ \A r \in Producers : r # p => prod'[r] = prod[r]
        /\ prod'[p].pc = "done" /\ prod'[p].h = h /\ prod'[p].item = prod[p].item
    BY <1>1, ProdMoved, Zenon
  <1>3. /\ h \in Nat /\ h < head /\ tail <= h /\ ready[Slot(h)] = h
        /\ prod[p].item \in Items /\ log[h + 1] = prod[p].item
    BY <1>1 DEF IInv, TypeOK, ProdInv
  <1>4. head \in Nat /\ tail \in Nat /\ RingSize \in Nat /\ head <= tail + RingSize
    BY Window DEF IInv, TypeOK
  <1>5. h \in (head - RingSize) .. (head - 1) /\ Slot(h) \in Ring
    BY <1>3, <1>4, SlotRange
  <1>6. \A q \in (head - RingSize) .. (head - 1) : q # h => hi'[Slot(q)] = hi[Slot(q)]
    BY <1>1, <1>5, Window DEF IInv, TypeOK
  <1>7. hi'[Slot(h)] = prod[p].item[2]
    BY <1>1, <1>5 DEF IInv, TypeOK
  <1> HIDE DEF h
  <1>8. TypeOK'
    <2>1. hi' \in [Ring -> SecondWords]
      BY <1>1, <1>3, Zenon DEF IInv, TypeOK, SecondWords
    <2> QED BY <1>1, <1>2, <2>1 DEF IInv, TypeOK, ProdRec
  <1>9. RingInv'
    <2>1. ready[Slot(h)] # h + 1
      BY <1>3
    <2> QED BY <1>1, <1>6, <2>1 DEF IInv, RingInv
  <1>10. SeqInv' /\ ConsInv' /\ ObsInv'
    BY <1>1, Frames
  <1>11. ProdInv'
    <2> SUFFICES ASSUME NEW r \in Producers, r # p,
                        prod[r].pc \in {"lo", "hi", "done", "publish"}
                 PROVE  hi'[Slot(prod[r].h)] = hi[Slot(prod[r].h)]
      BY <1>1, <1>2, <1>3, <1>7 DEF IInv, ProdInv
    <2>1. prod[r].h # h
      BY <1>1 DEF IInv, OwnInv, h
    <2>2. prod[r].h \in Nat /\ prod[r].h < head /\ tail <= prod[r].h
      BY DEF IInv, TypeOK, ProdInv
    <2>3. prod[r].h \in (head - RingSize) .. (head - 1)
      BY <2>2, <1>4
    <2> QED BY <1>6, <2>1, <2>3
  <1>12. OwnInv'
    BY <1>1, <1>2 DEF IInv, OwnInv, h
  <1> QED BY <1>8, <1>9, <1>10, <1>11, <1>12 DEF IInv

\* Clearing the slot's done flag keeps the invariant.
LEMMA ResetDoneStep ==
  ASSUME RingSize >= 2, IInv, NEW p \in Producers, EnqueueResetDone(p)
  PROVE  IInv'
  <1>1. /\ UNCHANGED <<head, tail, ready, lo, hi, cons, obs, log, finished>>
        /\ done' = [done EXCEPT ![Slot(prod[p].h)] = 0]
        /\ prod' = [prod EXCEPT ![p] = [@ EXCEPT !.pc = "publish"]]
        /\ prod[p].pc = "done" /\ "publish" \in ProdPcs
    BY DEF EnqueueResetDone, ProdPcs
  <1>2. /\ prod' \in [Producers -> ProdRec]
        /\ \A r \in Producers : r # p => prod'[r] = prod[r]
        /\ prod'[p].pc = "publish" /\ prod'[p].h = prod[p].h /\ prod'[p].item = prod[p].item
    BY <1>1, ProdMoved, Zenon
  <1>3. TypeOK'
    <2>1. done' \in [Ring -> {0, 1}]
      BY <1>1, Zenon DEF IInv, TypeOK
    <2> QED BY <1>1, <1>2, <2>1 DEF IInv, TypeOK, ProdRec
  <1>4. RingInv' /\ SeqInv' /\ ConsInv' /\ ObsInv'
    BY <1>1, Frames
  <1>5. ProdInv'
    BY <1>1, <1>2 DEF IInv, ProdInv
  <1>6. OwnInv'
    BY <1>1, <1>2 DEF IInv, OwnInv
  <1> QED BY <1>3, <1>4, <1>5, <1>6 DEF IInv

\* Storing the ready sequence number keeps the invariant.
LEMMA PublishStep ==
  ASSUME RingSize >= 2, IInv, NEW p \in Producers, EnqueuePublish(p)
  PROVE  IInv'
  <1> DEFINE h == prod[p].h
  <1>1. /\ UNCHANGED <<head, tail, done, lo, hi, cons, obs, log, finished>>
        /\ ready' = [ready EXCEPT ![Slot(h)] = h + 1]
        /\ prod' = [prod EXCEPT ![p] = [@ EXCEPT !.pc = "idle"]]
        /\ prod[p].pc = "publish" /\ "idle" \in ProdPcs
    BY DEF EnqueuePublish, ProdPcs
  <1>2. /\ prod' \in [Producers -> ProdRec]
        /\ \A r \in Producers : r # p => prod'[r] = prod[r]
        /\ prod'[p].pc = "idle"
    BY <1>1, ProdMoved, Zenon
  <1>3. /\ h \in Nat /\ h < head /\ tail <= h /\ ready[Slot(h)] = h
        /\ prod[p].item \in Items /\ log[h + 1] = prod[p].item
        /\ lo[Slot(h)] = prod[p].item[1] /\ hi[Slot(h)] = prod[p].item[2]
    BY <1>1 DEF IInv, TypeOK, ProdInv
  <1>4. head \in Nat /\ tail \in Nat /\ RingSize \in Nat /\ head <= tail + RingSize
    BY Window DEF IInv, TypeOK
  <1>5. h \in (head - RingSize) .. (head - 1) /\ Slot(h) \in Ring
    BY <1>3, <1>4, SlotRange
  <1>6. \A q \in (head - RingSize) .. (head - 1) : q # h => ready'[Slot(q)] = ready[Slot(q)]
    BY <1>1, <1>5, Window DEF IInv, TypeOK
  <1>7. ready'[Slot(h)] = h + 1 /\ ready' \in [Ring -> Nat]
    BY <1>1, <1>3, <1>5 DEF IInv, TypeOK
  <1>8. \A i \in Ring : ready'[i] >= ready[i]
    BY <1>1, <1>3, <1>5 DEF IInv, TypeOK
  <1> HIDE DEF h
  <1>9. TypeOK'
    BY <1>1, <1>2, <1>7 DEF IInv, TypeOK, ProdRec
  <1>10. RingInv'
    <2> SUFFICES ASSUME NEW q \in (head - RingSize) .. (head - 1)
                 PROVE  LET r == ready'[Slot(q)]
                        IN  /\ r = q \/ r = q + 1 \/ r = q + RingSize
                            /\ q >= tail => r # q + RingSize
                            /\ q < tail => r # q
                            /\ r = q + 1 => /\ q >= 0
                                            /\ lo[Slot(q)] = log[q + 1][1]
                                            /\ hi[Slot(q)] = log[q + 1][2]
      BY <1>1 DEF RingInv
    <2>1. CASE q = h
      BY <2>1, <1>3, <1>4, <1>7
    <2>2. CASE q # h
      BY <2>2, <1>6 DEF IInv, RingInv
    <2> QED BY <2>1, <2>2
  <1>11. SeqInv'
    <2> SUFFICES ASSUME NEW q \in 0 .. head - 1 PROVE ready'[Slot(q)] >= q
      BY <1>1 DEF SeqInv
    <2>1. Slot(q) \in Ring /\ ready[Slot(q)] >= q
      BY <1>4, SlotRange DEF IInv, SeqInv
    <2> QED BY <2>1, <1>7, <1>8 DEF IInv, TypeOK
  <1>12. ProdInv'
    <2> SUFFICES ASSUME NEW r \in Producers, r # p
                 PROVE  /\ prod[r].pc = "cas" /\ prod[r].h = head =>
                            ready'[Slot(prod[r].h)] = ready[Slot(prod[r].h)]
                        /\ prod[r].pc \in {"lo", "hi", "done", "publish"} =>
                            ready'[Slot(prod[r].h)] = ready[Slot(prod[r].h)]
      BY <1>1, <1>2 DEF IInv, ProdInv
    <2>1. prod[r].h \in Nat
      BY DEF IInv, TypeOK
    <2>2. ASSUME prod[r].pc \in {"lo", "hi", "done", "publish"}
          PROVE  ready'[Slot(prod[r].h)] = ready[Slot(prod[r].h)]
      <3>1. prod[r].h # h
        BY <1>1, <2>2 DEF IInv, OwnInv, h
      <3>2. prod[r].h < head /\ tail <= prod[r].h
        BY <2>2 DEF IInv, ProdInv
      <3>3. prod[r].h \in (head - RingSize) .. (head - 1)
        BY <3>2, <2>1, <1>4
      <3> QED BY <1>6, <3>1, <3>3
    <2>3. ASSUME prod[r].pc = "cas", prod[r].h = head
          PROVE  ready'[Slot(prod[r].h)] = ready[Slot(prod[r].h)]
      <3>1. ready[Slot(head)] = head
        BY <2>3 DEF IInv, ProdInv
      <3>2. Slot(head) # Slot(h)
        BY <3>1, <1>3, <1>4
      <3>3. Slot(head) \in Ring
        BY <1>4, SlotRange
      <3> QED BY <2>3, <3>2, <3>3, <1>1 DEF IInv, TypeOK, h
    <2> QED BY <2>2, <2>3
  <1>13. ConsInv'
    <2> SUFFICES ASSUME NEW c \in Consumers, ready[Slot(cons[c].t)] = cons[c].t + 1
                 PROVE  \/ ready'[Slot(cons[c].t)] = cons[c].t + 1
                        \/ /\ ~ (cons[c].pc = "cas" /\ cons[c].t = tail)
                           /\ ~ (cons[c].pc \in {"lo", "hi", "release"})
      BY <1>1 DEF IInv, ConsInv
    <2> SUFFICES ASSUME (cons[c].pc = "cas" /\ cons[c].t = tail) \/ cons[c].pc \in {"lo", "hi", "release"}
                 PROVE  ready'[Slot(cons[c].t)] = ready[Slot(cons[c].t)]
      OBVIOUS
    <2>1. cons[c].t \in Nat
      BY DEF IInv, TypeOK
    <2>2. cons[c].t < head /\ head - RingSize <= cons[c].t
      BY <2>1, <1>4 DEF IInv, ConsInv, TypeOK
    <2>3. cons[c].t \in (head - RingSize) .. (head - 1)
      BY <2>1, <2>2, <1>4
    <2>4. cons[c].t # h
      BY <2>1, <1>3
    <2> QED BY <1>6, <2>3, <2>4
  <1>14. OwnInv' /\ ObsInv'
    BY <1>1, <1>2 DEF IInv, OwnInv, ObsInv
  <1> QED BY <1>9, <1>10, <1>11, <1>12, <1>13, <1>14 DEF IInv

\* A consumer's step to another place in claim.
ConsRec == [pc : ConsPcs, t : Nat, lo : FirstWords, hi : SecondWords]

\* Moving one consumer's pc leaves the rest of its record, and the other consumers, alone.
LEMMA ConsMoved ==
  ASSUME IInv, NEW c \in Consumers, NEW pc \in ConsPcs,
         cons' = [cons EXCEPT ![c] = [@ EXCEPT !.pc = pc]]
  PROVE  /\ cons' \in [Consumers -> ConsRec]
         /\ cons'[c].pc = pc /\ cons'[c].t = cons[c].t
         /\ cons'[c].lo = cons[c].lo /\ cons'[c].hi = cons[c].hi
         /\ \A d \in Consumers : d # c => cons'[d] = cons[d]
  <1>1. cons \in [Consumers -> ConsRec] /\ cons[c] \in ConsRec
    BY DEF IInv, TypeOK, ConsRec
  <1> DEFINE e == [cons[c] EXCEPT !.pc = pc]
  <1>2. /\ e \in ConsRec /\ e.pc = pc /\ e.t = cons[c].t
        /\ e.lo = cons[c].lo /\ e.hi = cons[c].hi
    BY <1>1 DEF ConsRec
  <1>3. cons' = [cons EXCEPT ![c] = e]
    OBVIOUS
  <1> HIDE DEF e
  <1> QED BY <1>1, <1>2, <1>3

\* A step that changes one consumer's place only, and gives it nothing to read.
LEMMA ConsumerMoves ==
  ASSUME RingSize >= 2, IInv, NEW c \in Consumers,
         ClaimBegin(c) \/ ClaimLoadTail(c) \/ ClaimLoadReady(c) \/ ClaimLoadHead(c)
  PROVE  IInv'
  <1> DEFINE Settled == /\ cons' \in [Consumers -> ConsRec]
                        /\ cons'[c].pc \in {"idle", "tail", "ready", "empty", "cas"}
                        /\ \A d \in Consumers : d # c => cons'[d] = cons[d]
                        /\ cons'[c].pc \in {"ready", "empty", "cas"} => cons'[c].t <= tail
                        /\ cons'[c].pc = "cas" => ready[Slot(cons'[c].t)] = cons'[c].t + 1
  <1>1. UNCHANGED <<head, tail, ready, done, lo, hi, prod, obs, log, finished>>
    BY DEF ClaimBegin, ClaimLoadTail, ClaimLoadReady, ClaimLoadHead
  <1>a. head \in Nat /\ tail \in Nat /\ RingSize \in Nat /\ tail <= head
    BY SizeAssumption DEF IInv, TypeOK
  <1>2. Settled
    <2>1. cons \in [Consumers -> ConsRec] /\ cons[c] \in ConsRec
      BY DEF IInv, TypeOK, ConsRec
    <2>2. CASE ClaimLoadTail(c)
      <3> DEFINE e == [cons[c] EXCEPT !.pc = "ready", !.t = tail]
      <3>1. cons' = [cons EXCEPT ![c] = e]
        BY <2>2 DEF ClaimLoadTail
      <3>2. e \in ConsRec /\ e.pc = "ready" /\ e.t = tail
        BY <2>1, <1>a, Zenon DEF ConsRec, ConsPcs
      <3> HIDE DEF e
      <3> QED BY <2>1, <3>1, <3>2, <1>a
    <2>3. CASE ClaimBegin(c) \/ ClaimLoadReady(c) \/ ClaimLoadHead(c)
      <3>1. PICK pc \in {"idle", "tail", "empty", "cas"} :
              /\ cons' = [cons EXCEPT ![c] = [@ EXCEPT !.pc = pc]]
              /\ pc \in {"empty", "cas"} => cons[c].t <= tail
              /\ pc = "cas" => ready[Slot(cons[c].t)] = cons[c].t + 1
        BY <2>3 DEF ClaimBegin, ClaimLoadReady, ClaimLoadHead, Free, IInv, ConsInv
      <3>2. pc \in ConsPcs
        BY DEF ConsPcs
      <3>3. /\ cons' \in [Consumers -> ConsRec]
            /\ cons'[c].pc = pc /\ cons'[c].t = cons[c].t
            /\ \A d \in Consumers : d # c => cons'[d] = cons[d]
        BY <3>1, <3>2, ConsMoved, Zenon
      <3> QED BY <3>1, <3>3
    <2> QED BY <2>2, <2>3
  <1>3. cons'[c].pc = "cas" /\ cons'[c].t = tail => tail < head
    <2> SUFFICES ASSUME ready[Slot(tail)] = tail + 1, tail = head PROVE FALSE
      BY <1>2, <1>a
    <2>1. head - RingSize \in (head - RingSize) .. (head - 1)
      BY <1>a
    <2>2. Slot(head - RingSize) = Slot(head)
      <3>1. head - RingSize \in Int /\ (head - RingSize) + RingSize = head
        BY <1>a
      <3> QED BY <3>1, SlotPeriodic
    <2>3. LET q == head - RingSize  r == ready[Slot(head)]
          IN  r = q \/ r = q + 1 \/ r = q + RingSize
      BY <2>1, <2>2 DEF IInv, RingInv
    <2> QED BY <2>3, <1>a
  <1>4. TypeOK'
    BY <1>1, <1>2 DEF IInv, TypeOK, ConsRec
  <1>5. RingInv' /\ SeqInv' /\ ProdInv' /\ ObsInv'
    BY <1>1, Frames
  <1>6. ConsInv'
    BY <1>1, <1>2, <1>3 DEF IInv, ConsInv
  <1>7. OwnInv'
    BY <1>1, <1>2 DEF IInv, OwnInv
  <1> QED BY <1>4, <1>5, <1>6, <1>7 DEF IInv

\* A consumer's compare-exchange on tail, won or lost, keeps the invariant.
LEMMA CasTailStep ==
  ASSUME RingSize >= 2, IInv, NEW c \in Consumers, ClaimCasTail(c)
  PROVE  IInv'
  <1>a. head \in Nat /\ tail \in Nat /\ RingSize \in Nat /\ tail <= head /\ head <= tail + RingSize
    BY SizeAssumption DEF IInv, TypeOK
  <1>1. CASE tail # cons[c].t
    <2>1. /\ cons' = [cons EXCEPT ![c] = [@ EXCEPT !.pc = "tail"]]
          /\ "tail" \in ConsPcs
      BY <1>1 DEF ClaimCasTail, ConsPcs
    <2>2. /\ UNCHANGED <<head, tail, ready, done, lo, hi, prod, obs, log, finished>>
          /\ cons' \in [Consumers -> ConsRec]
          /\ \A d \in Consumers : d # c => cons'[d] = cons[d]
          /\ cons'[c].pc = "tail"
      BY <1>1, <2>1, ConsMoved, Zenon DEF ClaimCasTail
    <2>3. TypeOK'
      BY <2>2 DEF IInv, TypeOK, ConsRec
    <2>4. RingInv' /\ SeqInv' /\ ProdInv' /\ ObsInv'
      BY <2>2, Frames
    <2>5. ConsInv'
      BY <2>2 DEF IInv, ConsInv
    <2>6. OwnInv'
      BY <2>2 DEF IInv, OwnInv
    <2> QED BY <2>3, <2>4, <2>5, <2>6 DEF IInv
  <1>2. CASE tail = cons[c].t
    <2>1. /\ cons' = [cons EXCEPT ![c] = [@ EXCEPT !.pc = "lo"]]
          /\ "lo" \in ConsPcs
      BY <1>2 DEF ClaimCasTail, ConsPcs
    <2>2. /\ UNCHANGED <<head, ready, done, lo, hi, prod, obs, log, finished>>
          /\ tail' = tail + 1
          /\ cons' \in [Consumers -> ConsRec]
          /\ \A d \in Consumers : d # c => cons'[d] = cons[d]
          /\ cons'[c].pc = "lo" /\ cons'[c].t = tail
      BY <1>2, <2>1, ConsMoved, Zenon DEF ClaimCasTail
    <2>3. tail < head /\ ready[Slot(tail)] = tail + 1
      BY <1>2 DEF ClaimCasTail, IInv, ConsInv
    <2>4. TypeOK'
      BY <1>a, <2>2, <2>3 DEF IInv, TypeOK, ConsRec
    <2>5. RingInv'
      <3> SUFFICES ASSUME NEW q \in (head - RingSize) .. (head - 1)
                   PROVE  LET r == ready[Slot(q)]
                          IN  /\ r = q \/ r = q + 1 \/ r = q + RingSize
                              /\ q >= tail + 1 => r # q + RingSize
                              /\ q < tail + 1 => r # q
                              /\ r = q + 1 => /\ q >= 0
                                              /\ lo[Slot(q)] = log[q + 1][1]
                                              /\ hi[Slot(q)] = log[q + 1][2]
        BY <2>2 DEF RingInv
      <3>1. q \in Int
        BY <1>a
      <3>2. q = tail => ready[Slot(q)] # q
        BY <2>3, <1>a
      <3>3. q >= tail + 1 => q >= tail
        BY <3>1, <1>a
      <3>4. q < tail + 1 => q < tail \/ q = tail
        BY <3>1, <1>a
      <3> QED BY <3>2, <3>3, <3>4 DEF IInv, RingInv
    <2>6. SeqInv'
      BY <2>2 DEF IInv, SeqInv
    <2>7. ProdInv'
      <3>1. \A p \in Producers : prod[p].pc \in {"lo", "hi", "done", "publish"} => tail + 1 <= prod[p].h
        <4> SUFFICES ASSUME NEW p \in Producers, prod[p].pc \in {"lo", "hi", "done", "publish"}
                     PROVE  tail + 1 <= prod[p].h
          OBVIOUS
        <4>1. prod[p].h \in Nat /\ tail <= prod[p].h /\ ready[Slot(prod[p].h)] = prod[p].h
          BY DEF IInv, TypeOK, ProdInv
        <4>2. prod[p].h # tail
          BY <4>1, <2>3, <1>a
        <4> QED BY <4>1, <4>2, <1>a
      <3> QED BY <3>1, <2>2 DEF IInv, ProdInv
    <2>8. ConsInv'
      <3> SUFFICES ASSUME NEW d \in Consumers
                   PROVE  LET t == cons'[d].t  pc == cons'[d].pc
                          IN /\ pc \in {"ready", "empty", "cas"} => t <= tail + 1
                             /\ pc = "cas" /\ t = tail + 1 => t < head /\ ready[Slot(t)] = t + 1
                             /\ pc \in {"lo", "hi", "release", "work"} => t < tail + 1
                             /\ pc \in {"lo", "hi", "release"} => head - RingSize <= t /\ ready[Slot(t)] = t + 1
                             /\ pc \in {"hi", "release", "work"} => cons'[d].lo = log[t + 1][1]
                             /\ pc \in {"release", "work"} => cons'[d].hi = log[t + 1][2]
        BY <2>2 DEF ConsInv
      <3>1. CASE d = c
        BY <3>1, <1>a, <2>2, <2>3
      <3>2. CASE d # c
        <4>1. cons'[d] = cons[d] /\ cons[d].t \in Nat
          BY <3>2, <2>2 DEF IInv, TypeOK
        <4>2. /\ cons[d].pc \in {"ready", "empty", "cas"} => cons[d].t <= tail
              /\ cons[d].pc \in {"lo", "hi", "release", "work"} => cons[d].t < tail
          BY DEF IInv, ConsInv
        <4>3. /\ cons[d].pc \in {"ready", "empty", "cas"} => cons[d].t <= tail + 1 /\ cons[d].t # tail + 1
              /\ cons[d].pc \in {"lo", "hi", "release", "work"} => cons[d].t < tail + 1
          BY <4>1, <4>2, <1>a
        <4> QED BY <4>1, <4>3 DEF IInv, ConsInv
      <3> QED BY <3>1, <3>2
    <2>9. OwnInv'
      <3>1. \A d \in Consumers : cons[d].pc \in {"lo", "hi", "release"} => cons[d].t # tail
        BY <1>a DEF IInv, ConsInv
      <3> QED BY <3>1, <2>2 DEF IInv, OwnInv
    <2>10. ObsInv'
      BY <1>a, <2>2 DEF IInv, ObsInv, TypeOK
    <2> QED BY <2>4, <2>5, <2>6, <2>7, <2>8, <2>9, <2>10 DEF IInv
  <1> QED BY <1>1, <1>2

\* Loading the low half of the item keeps the invariant.
LEMMA LoadLoStep ==
  ASSUME RingSize >= 2, IInv, NEW c \in Consumers, ClaimLoadLo(c)
  PROVE  IInv'
  <1> DEFINE t == cons[c].t
             e == [cons[c] EXCEPT !.pc = "hi", !.lo = lo[Slot(t)]]
  <1>1. /\ UNCHANGED <<head, tail, ready, done, lo, hi, prod, obs, log, finished>>
        /\ cons' = [cons EXCEPT ![c] = e] /\ cons[c].pc = "lo"
    BY DEF ClaimLoadLo
  <1>2. cons \in [Consumers -> ConsRec] /\ cons[c] \in ConsRec
    BY DEF IInv, TypeOK, ConsRec
  <1>3. /\ t \in Nat /\ t < tail /\ head - RingSize <= t /\ ready[Slot(t)] = t + 1
        /\ head \in Nat /\ tail \in Nat /\ RingSize \in Nat /\ tail <= head
    BY <1>1, SizeAssumption DEF IInv, TypeOK, ConsInv
  <1>4. t \in (head - RingSize) .. (head - 1) /\ Slot(t) \in Ring
    BY <1>3, SlotRange
  <1>5. lo[Slot(t)] = log[t + 1][1] /\ lo[Slot(t)] \in FirstWords
    <2>1. lo[Slot(t)] = log[t + 1][1]
      BY <1>3, <1>4, Zenon DEF IInv, RingInv
    <2> QED BY <1>4, <2>1 DEF IInv, TypeOK
  <1>6. /\ e \in ConsRec /\ e.pc = "hi" /\ e.t = t /\ e.lo = log[t + 1][1] 
    BY <1>2, <1>5, Zenon DEF ConsRec, ConsPcs
  <1> HIDE DEF e
  <1>7. /\ cons' \in [Consumers -> ConsRec] /\ cons'[c] = e
        /\ \A d \in Consumers : d # c => cons'[d] = cons[d]
    BY <1>1, <1>2, <1>6
  <1>8. TypeOK'
    BY <1>1, <1>7 DEF IInv, TypeOK, ConsRec
  <1>9. RingInv' /\ SeqInv' /\ ProdInv' /\ ObsInv'
    BY <1>1, Frames
  <1>10. ConsInv'
    BY <1>1, <1>3, <1>6, <1>7, ZenonT(60) DEF IInv, ConsInv
  <1>11. OwnInv'
    BY <1>1, <1>6, <1>7 DEF IInv, OwnInv
  <1> QED BY <1>8, <1>9, <1>10, <1>11 DEF IInv

\* Loading the high half of the item keeps the invariant.
LEMMA LoadHiStep ==
  ASSUME RingSize >= 2, IInv, NEW c \in Consumers, ClaimLoadHi(c)
  PROVE  IInv'
  <1> DEFINE t == cons[c].t
             e == [cons[c] EXCEPT !.pc = "release", !.hi = hi[Slot(t)]]
  <1>1. /\ UNCHANGED <<head, tail, ready, done, lo, hi, prod, obs, log, finished>>
        /\ cons' = [cons EXCEPT ![c] = e] /\ cons[c].pc = "hi"
    BY DEF ClaimLoadHi
  <1>2. cons \in [Consumers -> ConsRec] /\ cons[c] \in ConsRec
    BY DEF IInv, TypeOK, ConsRec
  <1>3. /\ t \in Nat /\ t < tail /\ head - RingSize <= t /\ ready[Slot(t)] = t + 1
        /\ head \in Nat /\ tail \in Nat /\ RingSize \in Nat /\ tail <= head
    BY <1>1, SizeAssumption DEF IInv, TypeOK, ConsInv
  <1>4. t \in (head - RingSize) .. (head - 1) /\ Slot(t) \in Ring
    BY <1>3, SlotRange
  <1>5. hi[Slot(t)] = log[t + 1][2] /\ hi[Slot(t)] \in SecondWords
    <2>1. hi[Slot(t)] = log[t + 1][2]
      BY <1>3, <1>4, Zenon DEF IInv, RingInv
    <2> QED BY <1>4, <2>1 DEF IInv, TypeOK
  <1>6. /\ e \in ConsRec /\ e.pc = "release" /\ e.t = t /\ e.hi = log[t + 1][2] /\ e.lo = cons[c].lo
    BY <1>2, <1>5, Zenon DEF ConsRec, ConsPcs
  <1> HIDE DEF e
  <1>7. /\ cons' \in [Consumers -> ConsRec] /\ cons'[c] = e
        /\ \A d \in Consumers : d # c => cons'[d] = cons[d]
    BY <1>1, <1>2, <1>6
  <1>8. TypeOK'
    BY <1>1, <1>7 DEF IInv, TypeOK, ConsRec
  <1>9. RingInv' /\ SeqInv' /\ ProdInv' /\ ObsInv'
    BY <1>1, Frames
  <1>10. ConsInv'
    BY <1>1, <1>3, <1>6, <1>7 DEF IInv, ConsInv
  <1>11. OwnInv'
    BY <1>1, <1>6, <1>7 DEF IInv, OwnInv
  <1> QED BY <1>8, <1>9, <1>10, <1>11 DEF IInv

\* Handing the slot to the next lap keeps the invariant.
LEMMA ReleaseStep ==
  ASSUME RingSize >= 2, IInv, NEW c \in Consumers, ClaimRelease(c)
  PROVE  IInv'
  <1> DEFINE t == cons[c].t
  <1>1. /\ UNCHANGED <<head, tail, done, lo, hi, prod, obs, log, finished>>
        /\ ready' = [ready EXCEPT ![Slot(t)] = t + RingSize]
        /\ cons' = [cons EXCEPT ![c] = [@ EXCEPT !.pc = "work"]]
        /\ cons[c].pc = "release" /\ "work" \in ConsPcs
    BY DEF ClaimRelease, ConsPcs
  <1>2. /\ cons' \in [Consumers -> ConsRec]
        /\ \A d \in Consumers : d # c => cons'[d] = cons[d]
        /\ cons'[c].pc = "work" /\ cons'[c].t = t
        /\ cons'[c].lo = cons[c].lo /\ cons'[c].hi = cons[c].hi
    BY <1>1, ConsMoved, Zenon
  <1>3. /\ t \in Nat /\ t < tail /\ head - RingSize <= t /\ ready[Slot(t)] = t + 1
    BY <1>1 DEF IInv, TypeOK, ConsInv
  <1>4. /\ head \in Nat /\ tail \in Nat /\ RingSize \in Nat
        /\ tail <= head /\ head <= tail + RingSize
    BY SizeAssumption DEF IInv, TypeOK
  <1>5. t \in (head - RingSize) .. (head - 1) /\ Slot(t) \in Ring
    BY <1>3, <1>4, SlotRange
  <1>6. \A q \in (head - RingSize) .. (head - 1) : q # t => ready'[Slot(q)] = ready[Slot(q)]
    BY <1>1, <1>5, Window DEF IInv, TypeOK
  <1>7. ready'[Slot(t)] = t + RingSize /\ ready' \in [Ring -> Nat]
    BY <1>1, <1>3, <1>4, <1>5 DEF IInv, TypeOK
  <1>8. \A i \in Ring : ready'[i] >= ready[i]
    BY <1>1, <1>3, <1>4, <1>5 DEF IInv, TypeOK
  <1> HIDE DEF t
  <1>9. TypeOK'
    BY <1>1, <1>2, <1>7 DEF IInv, TypeOK, ConsRec
  <1>10. RingInv'
    <2> SUFFICES ASSUME NEW q \in (head - RingSize) .. (head - 1)
                 PROVE  LET r == ready'[Slot(q)]
                        IN  /\ r = q \/ r = q + 1 \/ r = q + RingSize
                            /\ q >= tail => r # q + RingSize
                            /\ q < tail => r # q
                            /\ r = q + 1 => /\ q >= 0
                                            /\ lo[Slot(q)] = log[q + 1][1]
                                            /\ hi[Slot(q)] = log[q + 1][2]
      BY <1>1 DEF RingInv
    <2>1. CASE q = t
      BY <2>1, <1>3, <1>4, <1>7
    <2>2. CASE q # t
      BY <2>2, <1>6 DEF IInv, RingInv
    <2> QED BY <2>1, <2>2
  <1>11. SeqInv'
    <2> SUFFICES ASSUME NEW q \in 0 .. head - 1 PROVE ready'[Slot(q)] >= q
      BY <1>1 DEF SeqInv
    <2>1. Slot(q) \in Ring /\ ready[Slot(q)] >= q
      BY <1>4, SlotRange DEF IInv, SeqInv
    <2> QED BY <2>1, <1>7, <1>8 DEF IInv, TypeOK
  <1>12. ProdInv'
    <2> SUFFICES ASSUME NEW r \in Producers, ready[Slot(prod[r].h)] = prod[r].h,
                        (prod[r].pc = "cas" /\ prod[r].h = head)
                        \/ prod[r].pc \in {"lo", "hi", "done", "publish"}
                 PROVE  ready'[Slot(prod[r].h)] = ready[Slot(prod[r].h)]
      BY <1>1 DEF IInv, ProdInv
    <2>1. prod[r].h \in Nat
      BY DEF IInv, TypeOK
    <2>2. tail <= prod[r].h
      BY <1>4 DEF IInv, ProdInv
    <2>3. Slot(prod[r].h) # Slot(t)
      <3> SUFFICES ASSUME Slot(prod[r].h) = Slot(t) PROVE FALSE
        OBVIOUS
      <3>1. prod[r].h = t + 1
        BY <1>3
      <3>2. prod[r].h = t
        BY <3>1, <2>1, <1>3, <1>4, SlotInjective
      <3> QED BY <3>1, <3>2, <1>3
    <2>4. Slot(prod[r].h) \in Ring
      BY <2>1, SlotRange
    <2> QED BY <2>3, <2>4, <1>1 DEF IInv, TypeOK, t
  <1>13. ConsInv'
    <2> SUFFICES ASSUME NEW d \in Consumers, d # c, ready[Slot(cons[d].t)] = cons[d].t + 1,
                        (cons[d].pc = "cas" /\ cons[d].t = tail)
                        \/ cons[d].pc \in {"lo", "hi", "release"}
                 PROVE  ready'[Slot(cons[d].t)] = ready[Slot(cons[d].t)]
      BY <1>1, <1>2, <1>3 DEF IInv, ConsInv, t
    <2>1. cons[d].t \in Nat
      BY DEF IInv, TypeOK
    <2>2. cons[d].t < head /\ head - RingSize <= cons[d].t
      BY <2>1, <1>4 DEF IInv, ConsInv
    <2>3. cons[d].t \in (head - RingSize) .. (head - 1)
      BY <2>1, <2>2, <1>4
    <2>4. cons[d].t # t
      <3>1. CASE cons[d].t = tail
        BY <3>1, <1>3, <1>4
      <3>2. CASE cons[d].pc \in {"lo", "hi", "release"}
        BY <3>2, <1>1 DEF IInv, OwnInv, t
      <3> QED BY <3>1, <3>2
    <2> QED BY <1>6, <2>3, <2>4
  <1>14. OwnInv' /\ ObsInv'
    BY <1>1, <1>2 DEF IInv, OwnInv, ObsInv
  <1> QED BY <1>9, <1>10, <1>11, <1>12, <1>13, <1>14 DEF IInv

\* Setting the done flag keeps the invariant.
LEMMA MarkDoneStep ==
  ASSUME RingSize >= 2, IInv, NEW c \in Consumers, MarkDone(c)
  PROVE  IInv'
  <1> DEFINE e == [cons[c] EXCEPT !.pc = "idle", !.lo = None, !.hi = None]
  <1>1. /\ UNCHANGED <<head, tail, ready, lo, hi, prod, obs, log>>
        /\ done' = [done EXCEPT ![Slot(cons[c].t)] = 1]
        /\ finished' = finished \cup {cons[c].t}
        /\ cons' = [cons EXCEPT ![c] = e]
    BY DEF MarkDone
  <1>2. cons \in [Consumers -> ConsRec] /\ cons[c] \in ConsRec /\ cons[c].t \in Nat
    BY DEF IInv, TypeOK, ConsRec
  <1>3. e \in ConsRec /\ e.pc = "idle"
    BY <1>2, Zenon DEF ConsRec, ConsPcs, FirstWords, SecondWords
  <1> HIDE DEF e
  <1>4. /\ cons' \in [Consumers -> ConsRec] /\ cons'[c] = e
        /\ \A d \in Consumers : d # c => cons'[d] = cons[d]
    BY <1>1, <1>2, <1>3
  <1>5. TypeOK'
    <2>1. done' \in [Ring -> {0, 1}] /\ finished' \subseteq Nat
      BY <1>1, <1>2, Zenon DEF IInv, TypeOK
    <2> QED BY <1>1, <1>4, <2>1 DEF IInv, TypeOK, ConsRec
  <1>6. RingInv' /\ SeqInv' /\ ProdInv' /\ ObsInv'
    BY <1>1, Frames
  <1>7. ConsInv'
    BY <1>1, <1>3, <1>4 DEF IInv, ConsInv
  <1>8. OwnInv'
    BY <1>1, <1>3, <1>4 DEF IInv, OwnInv
  <1> QED BY <1>5, <1>6, <1>7, <1>8 DEF IInv

\* The two loads of try_in_flight keep the invariant.
LEMMA ObserverStep ==
  ASSUME IInv, NEW o \in Observers, InFlightLoadHead(o) \/ InFlightLoadTail(o)
  PROVE  IInv'
  <1> DEFINE ObsRec == [pc : {"idle", "tail", "error"}, h : Nat, n : Nat]
  <1>1. UNCHANGED <<head, tail, ready, done, lo, hi, prod, cons, log, finished>>
    BY DEF InFlightLoadHead, InFlightLoadTail
  <1>2. obs \in [Observers -> ObsRec] /\ obs[o] \in ObsRec
    BY DEF IInv, TypeOK
  <1>3. head \in Nat /\ tail \in Nat /\ RingSize \in Nat /\ head <= tail + RingSize
    BY SizeAssumption DEF IInv, TypeOK
  <1>4. obs[o].h \in Nat /\ obs[o].h <= tail + RingSize /\ obs[o].n <= RingSize
    BY <1>2 DEF IInv, ObsInv
  <1>5. PICK e \in ObsRec : /\ obs' = [obs EXCEPT ![o] = e]
                            /\ e.h <= tail + RingSize /\ e.n <= RingSize
    <2>1. CASE InFlightLoadHead(o)
      <3> DEFINE f == [obs[o] EXCEPT !.pc = "tail", !.h = head]
      <3>1. obs' = [obs EXCEPT ![o] = f]
        BY <2>1 DEF InFlightLoadHead
      <3>2. f \in ObsRec /\ f.h = head /\ f.n = obs[o].n
        BY <1>2, <1>3, Zenon
      <3> HIDE DEF f
      <3> QED BY <3>1, <3>2, <1>3, <1>4, Zenon
    <2>2. CASE InFlightLoadTail(o) /\ tail <= obs[o].h
      <3> DEFINE f == [obs[o] EXCEPT !.pc = "idle", !.n = obs[o].h - tail]
      <3>1. obs' = [obs EXCEPT ![o] = f]
        BY <2>2 DEF InFlightLoadTail
      <3>2. obs[o].h - tail \in Nat /\ obs[o].h - tail <= RingSize
        BY <2>2, <1>3, <1>4
      <3>3. f \in ObsRec /\ f.h = obs[o].h /\ f.n = obs[o].h - tail
        BY <1>2, <3>2, Zenon
      <3> HIDE DEF f
      <3> QED BY <3>1, <3>2, <3>3, <1>4, Zenon
    <2>3. CASE InFlightLoadTail(o) /\ ~ (tail <= obs[o].h)
      <3> DEFINE f == [obs[o] EXCEPT !.pc = "error"]
      <3>1. obs' = [obs EXCEPT ![o] = f]
        BY <2>3 DEF InFlightLoadTail
      <3>2. f \in ObsRec /\ f.h = obs[o].h /\ f.n = obs[o].n
        BY <1>2
      <3> HIDE DEF f
      <3> QED BY <3>1, <3>2, <1>4, Zenon
    <2> QED BY <2>1, <2>2, <2>3
  <1>6. /\ obs' \in [Observers -> ObsRec] /\ obs'[o] = e
        /\ \A u \in Observers : u # o => obs'[u] = obs[u]
    BY <1>2, <1>5
  <1>7. TypeOK'
    BY <1>1, <1>6 DEF IInv, TypeOK
  <1>8. RingInv' /\ SeqInv' /\ ProdInv' /\ ConsInv' /\ OwnInv'
    BY <1>1, Frames
  <1>9. ObsInv'
    BY <1>1, <1>5, <1>6 DEF IInv, ObsInv
  <1> QED BY <1>7, <1>8, <1>9 DEF IInv

\* The invariant is inductive for a ring of at least two slots.
LEMMA NextIInv == RingSize >= 2 /\ IInv /\ [Next]_vars => IInv'
  <1> SUFFICES ASSUME RingSize >= 2, IInv, [Next]_vars PROVE IInv'
    OBVIOUS
  <1>1. CASE UNCHANGED vars
    <2>1. TypeOK'
      BY <1>1 DEF vars, IInv, TypeOK
    <2> QED BY <1>1, <2>1, Frames DEF vars, IInv
  <1>2. ASSUME NEW p \in Producers, EnqueueBegin(p) \/ Enqueue(p) PROVE IInv'
    BY <1>2, ProducerMoves, CasHeadStep, StoreLoStep, StoreHiStep, ResetDoneStep, PublishStep
       DEF Enqueue
  <1>3. ASSUME NEW c \in Consumers, Claim(c) PROVE IInv'
    BY <1>3, ConsumerMoves, CasTailStep, LoadLoStep, LoadHiStep, ReleaseStep, MarkDoneStep
       DEF Claim
  <1>4. ASSUME NEW o \in Observers, InFlightLoadHead(o) \/ InFlightLoadTail(o) PROVE IInv'
    BY <1>4, ObserverStep
  <1> QED BY <1>1, <1>2, <1>3, <1>4 DEF Next

-----------------------------------------------------------------------------
(* Theorems *)

\* In a ring of at least two slots the invariant always holds.
THEOREM Invariance == ASSUME RingSize >= 2 PROVE Spec => []IInv
  <1>1. Init => IInv
    BY InitIInv
  <1>2. IInv /\ [Next]_vars => IInv'
    BY NextIInv
  <1> QED BY <1>1, <1>2, PTL DEF Spec

\* The variables keep their types and at most RingSize accepted items wait:
\* enqueue never hands a slot to a second item while the first is unclaimed.
THEOREM TypeCorrect == ASSUME RingSize >= 2 PROVE Spec => []TypeOK
  <1>1. IInv => TypeOK
    BY DEF IInv
  <1> QED BY <1>1, Invariance, PTL

\* enqueue refuses exactly so often that the waiting items fit the ring.
THEOREM FullRingRefuses == ASSUME RingSize >= 2 PROVE Spec => []RefusesWhenFull
  <1>1. IInv => RefusesWhenFull
    BY DEF IInv, TypeOK, RefusesWhenFull
  <1> QED BY <1>1, Invariance, PTL

\* Every count try_in_flight returns is at most RingSize.
THEOREM CountsBounded == ASSUME RingSize >= 2 PROVE Spec => []InFlightWithinRing
  <1>1. IInv => InFlightWithinRing
    BY DEF IInv, ObsInv, InFlightWithinRing
  <1> QED BY <1>1, Invariance, PTL

\* claim answers None only at an instant at which no accepted item waits.
THEOREM NoneCorrect == ASSUME RingSize >= 2 PROVE Spec => NoneMeansEmpty
  <1> DEFINE A == \A c \in Consumers : cons[c].pc = "empty" /\ cons'[c].pc = "idle" => head = tail
  <1>1. IInv /\ [Next]_vars => [A]_vars
    <2> SUFFICES ASSUME IInv, Next, NEW c \in Consumers,
                        cons[c].pc = "empty", cons'[c].pc = "idle"
                 PROVE  head = tail
      BY DEF vars
    <2>1. ASSUME NEW d \in Consumers, Claim(d) PROVE d = c /\ ClaimLoadHead(c)
      <3>1. cons' # cons
        OBVIOUS
      <3>2. d = c
        BY <2>1 DEF Claim, ClaimBegin, ClaimLoadTail, ClaimLoadReady, ClaimLoadHead,
          ClaimCasTail, ClaimLoadLo, ClaimLoadHi, ClaimRelease, MarkDone, IInv, TypeOK
      <3> QED BY <2>1, <3>2 DEF Claim, ClaimBegin, ClaimLoadTail, ClaimLoadReady,
          ClaimCasTail, ClaimLoadLo, ClaimLoadHi, ClaimRelease, MarkDone
    <2>2. ClaimLoadHead(c)
      <3>1. ASSUME NEW p \in Producers, EnqueueBegin(p) \/ Enqueue(p) PROVE cons' = cons
        BY <3>1, Zenon DEF EnqueueBegin, Enqueue, EnqueueLoadHead, EnqueueLoadReady, EnqueueCasHead,
          EnqueueStoreLo, EnqueueStoreHi, EnqueueResetDone, EnqueuePublish
      <3>2. ASSUME NEW o \in Observers, InFlightLoadHead(o) \/ InFlightLoadTail(o) PROVE cons' = cons
        BY <3>2 DEF InFlightLoadHead, InFlightLoadTail
      <3> QED BY <2>1, <3>1, <3>2 DEF Next
    <2>3. cons[c].t >= head
      <3> SUFFICES ASSUME cons[c].t < head PROVE FALSE
        BY DEF IInv, TypeOK
      <3>1. cons' = [cons EXCEPT ![c] = [@ EXCEPT !.pc = "tail"]] /\ "tail" \in ConsPcs
        BY <2>2 DEF ClaimLoadHead, IInv, TypeOK, ConsPcs
      <3>2. cons'[c].pc = "tail"
        BY <3>1, ConsMoved
      <3> QED BY <3>2
    <2>4. /\ cons[c].t <= tail /\ tail <= head
          /\ cons[c].t \in Nat /\ head \in Nat /\ tail \in Nat
      BY DEF IInv, ConsInv, TypeOK
    <2> QED BY <2>3, <2>4
  <1> QED BY <1>1, Invariance, PTL DEF Spec, NoneMeansEmpty

\* The places of a producer and of a consumer that has a slot of its own.
WritePcs == {"lo", "hi", "done", "publish"}
ReadPcs == {"lo", "hi", "release"}

\* Threads that keep the slots they have keep every slot attended.
LEMMA StillAttended ==
  ASSUME IInv, Attended, UNCHANGED <<head, tail, ready>>,
         \A p \in Producers : prod[p].pc \in WritePcs =>
           prod'[p].pc \in WritePcs /\ prod'[p].h = prod[p].h,
         \A c \in Consumers : cons[c].pc \in ReadPcs =>
           cons'[c].pc \in ReadPcs /\ cons'[c].t = cons[c].t
  PROVE  Attended'
  <1> SUFFICES ASSUME NEW q \in (head - RingSize) .. (head - 1)
               PROVE  /\ ready[Slot(q)] = q => \E p \in Producers : Writing(p, q)'
                      /\ ready[Slot(q)] = q + 1 /\ q < tail => \E c \in Consumers : Reading(c, q)'
    BY DEF Attended
  <1>1. ASSUME NEW p \in Producers, Writing(p, q) PROVE Writing(p, q)'
    BY <1>1 DEF Writing, WritePcs
  <1>2. ASSUME NEW c \in Consumers, Reading(c, q) PROVE Reading(c, q)'
    BY <1>2 DEF Reading, ReadPcs
  <1> QED BY <1>1, <1>2 DEF Attended

\* A producer takes a slot with its exchange of head and leaves it published.
LEMMA EnqueueAttended ==
  ASSUME RingSize >= 2, IInv, Attended, NEW p \in Producers, EnqueueBegin(p) \/ Enqueue(p)
  PROVE  Attended'
  <1>1. /\ head \in Nat /\ tail \in Nat /\ RingSize \in Nat /\ tail <= head
        /\ head <= tail + RingSize /\ ready \in [Ring -> Nat]
        /\ prod \in [Producers -> ProdRec] /\ prod[p] \in ProdRec
    BY SizeAssumption DEF IInv, TypeOK, ProdRec
  <1>2. UNCHANGED <<tail, cons>>
    BY Zenon DEF EnqueueBegin, Enqueue, EnqueueLoadHead, EnqueueLoadReady, EnqueueCasHead,
       EnqueueStoreLo, EnqueueStoreHi, EnqueueResetDone, EnqueuePublish
  <1>3. CASE \/ EnqueueBegin(p) \/ EnqueueLoadHead(p) \/ EnqueueLoadReady(p)
             \/ (EnqueueCasHead(p) /\ head # prod[p].h)
    <2>1. UNCHANGED <<head, ready>> /\ prod[p].pc \notin WritePcs
      BY <1>3, Zenon DEF EnqueueBegin, EnqueueLoadHead, EnqueueLoadReady, EnqueueCasHead, WritePcs
    <2>2. \A r \in Producers : r # p => prod'[r] = prod[r]
      BY <1>1, <1>3, Zenon DEF EnqueueBegin, EnqueueLoadHead, EnqueueLoadReady, EnqueueCasHead
    <2> QED BY <1>2, <2>1, <2>2, StillAttended
  <1>4. CASE EnqueueStoreLo(p) \/ EnqueueStoreHi(p) \/ EnqueueResetDone(p)
    <2>1. UNCHANGED <<head, ready>>
      BY <1>4, Zenon DEF EnqueueStoreLo, EnqueueStoreHi, EnqueueResetDone
    <2>2. PICK pc \in {"hi", "done", "publish"} : prod' = [prod EXCEPT ![p] = [@ EXCEPT !.pc = pc]]
      BY <1>4, Zenon DEF EnqueueStoreLo, EnqueueStoreHi, EnqueueResetDone
    <2>3. pc \in ProdPcs /\ pc \in WritePcs
      BY DEF ProdPcs, WritePcs
    <2>4. /\ prod'[p].pc = pc /\ prod'[p].h = prod[p].h
          /\ \A r \in Producers : r # p => prod'[r] = prod[r]
      BY <2>2, <2>3, ProdMoved, Zenon
    <2> QED BY <1>2, <2>1, <2>3, <2>4, StillAttended
  <1>5. CASE EnqueueCasHead(p) /\ head = prod[p].h
    <2>1. /\ head' = head + 1 /\ ready' = ready
          /\ prod' = [prod EXCEPT ![p] = [@ EXCEPT !.pc = "lo"]] /\ "lo" \in ProdPcs
          /\ prod[p].pc = "cas"
      BY <1>5 DEF EnqueueCasHead, ProdPcs
    <2>2. /\ prod'[p].pc = "lo" /\ prod'[p].h = head
          /\ \A r \in Producers : r # p => prod'[r] = prod[r]
      BY <1>5, <2>1, ProdMoved, Zenon
    <2> SUFFICES ASSUME NEW q \in (head + 1 - RingSize) .. head
                 PROVE  /\ ready[Slot(q)] = q => \E r \in Producers : Writing(r, q)'
                        /\ ready[Slot(q)] = q + 1 /\ q < tail => \E c \in Consumers : Reading(c, q)'
      BY <1>1, <1>2, <2>1 DEF Attended
    <2>3. CASE q = head
      BY <1>1, <2>2, <2>3 DEF Writing
    <2>4. CASE q # head
      <3>1. q \in (head - RingSize) .. (head - 1)
        BY <1>1, <2>4
      <3>2. ASSUME NEW r \in Producers, Writing(r, q) PROVE Writing(r, q)'
        BY <2>1, <2>2, <3>2 DEF Writing
      <3>3. ASSUME NEW c \in Consumers, Reading(c, q) PROVE Reading(c, q)'
        BY <1>2, <3>3 DEF Reading
      <3> QED BY <3>1, <3>2, <3>3 DEF Attended
    <2> QED BY <2>3, <2>4
  <1>6. CASE EnqueuePublish(p)
    <2> DEFINE h == prod[p].h
    <2>1. /\ head' = head /\ ready' = [ready EXCEPT ![Slot(h)] = h + 1]
          /\ prod' = [prod EXCEPT ![p] = [@ EXCEPT !.pc = "idle"]] /\ "idle" \in ProdPcs
          /\ prod[p].pc = "publish"
      BY <1>6 DEF EnqueuePublish, ProdPcs
    <2>2. \A r \in Producers : r # p => prod'[r] = prod[r]
      BY <2>1, ProdMoved, Zenon
    <2>3. h \in Nat /\ h < head /\ tail <= h
      BY <2>1 DEF IInv, TypeOK, ProdInv
    <2>4. h \in (head - RingSize) .. (head - 1) /\ Slot(h) \in Ring
      BY <1>1, <2>3, SlotRange
    <2>5. /\ ready'[Slot(h)] = h + 1
          /\ \A q \in (head - RingSize) .. (head - 1) : q # h => ready'[Slot(q)] = ready[Slot(q)]
      BY <1>1, <2>1, <2>4, Window
    <2> SUFFICES ASSUME NEW q \in (head - RingSize) .. (head - 1)
                 PROVE  /\ ready'[Slot(q)] = q => \E r \in Producers : Writing(r, q)'
                        /\ ready'[Slot(q)] = q + 1 /\ q < tail => \E c \in Consumers : Reading(c, q)'
      BY <1>2, <2>1 DEF Attended
    <2>6. CASE q = h
      BY <1>1, <2>3, <2>5, <2>6
    <2>7. CASE q # h
      <3>1. ASSUME NEW r \in Producers, Writing(r, q) PROVE Writing(r, q)'
        BY <2>2, <2>7, <3>1 DEF Writing
      <3>2. ASSUME NEW c \in Consumers, Reading(c, q) PROVE Reading(c, q)'
        BY <1>2, <3>2 DEF Reading
      <3> QED BY <2>5, <2>7, <3>1, <3>2 DEF Attended
    <2> QED BY <2>6, <2>7
  <1> QED BY <1>3, <1>4, <1>5, <1>6 DEF Enqueue

\* A consumer takes a slot with its exchange of tail and leaves it released.
LEMMA ClaimAttended ==
  ASSUME RingSize >= 2, IInv, Attended, NEW c \in Consumers, Claim(c)
  PROVE  Attended'
  <1>1. /\ head \in Nat /\ tail \in Nat /\ RingSize \in Nat /\ tail <= head
        /\ head <= tail + RingSize /\ ready \in [Ring -> Nat]
        /\ cons \in [Consumers -> ConsRec] /\ cons[c] \in ConsRec
    BY SizeAssumption DEF IInv, TypeOK, ConsRec
  <1>2. UNCHANGED <<head, prod>>
    BY DEF Claim, ClaimBegin, ClaimLoadTail, ClaimLoadReady, ClaimLoadHead, ClaimCasTail,
       ClaimLoadLo, ClaimLoadHi, ClaimRelease, MarkDone
  <1>3. CASE \/ ClaimBegin(c) \/ ClaimLoadTail(c) \/ ClaimLoadReady(c) \/ ClaimLoadHead(c)
             \/ (ClaimCasTail(c) /\ tail # cons[c].t) \/ MarkDone(c)
    <2>1. UNCHANGED <<tail, ready>> /\ cons[c].pc \notin ReadPcs
      BY <1>3 DEF ClaimBegin, ClaimLoadTail, ClaimLoadReady, ClaimLoadHead, ClaimCasTail,
         MarkDone, ReadPcs
    <2>2. \A d \in Consumers : d # c => cons'[d] = cons[d]
      BY <1>1, <1>3, Zenon DEF ClaimBegin, ClaimLoadTail, ClaimLoadReady, ClaimLoadHead,
         ClaimCasTail, MarkDone
    <2> QED BY <1>2, <2>1, <2>2, StillAttended
  <1>4. CASE ClaimLoadLo(c) \/ ClaimLoadHi(c)
    <2>1. UNCHANGED <<tail, ready>>
      BY <1>4 DEF ClaimLoadLo, ClaimLoadHi
    <2>2. PICK e : /\ cons' = [cons EXCEPT ![c] = e]
                   /\ \/ e = [cons[c] EXCEPT !.pc = "hi", !.lo = lo[Slot(cons[c].t)]]
                      \/ e = [cons[c] EXCEPT !.pc = "release", !.hi = hi[Slot(cons[c].t)]]
      BY <1>4, Zenon DEF ClaimLoadLo, ClaimLoadHi
    <2>3. e.pc \in ReadPcs /\ e.t = cons[c].t
      BY <1>1, <2>2, Zenon DEF ConsRec, ReadPcs
    <2>4. cons'[c] = e /\ \A d \in Consumers : d # c => cons'[d] = cons[d]
      BY <1>1, <2>2, Zenon
    <2> QED BY <1>2, <2>1, <2>3, <2>4, StillAttended
  <1>5. CASE ClaimCasTail(c) /\ tail = cons[c].t
    <2>1. /\ tail' = tail + 1 /\ ready' = ready
          /\ cons' = [cons EXCEPT ![c] = [@ EXCEPT !.pc = "lo"]] /\ "lo" \in ConsPcs
          /\ cons[c].pc = "cas"
      BY <1>5 DEF ClaimCasTail, ConsPcs
    <2>2. /\ cons'[c].pc = "lo" /\ cons'[c].t = tail
          /\ \A d \in Consumers : d # c => cons'[d] = cons[d]
      BY <1>5, <2>1, ConsMoved, Zenon
    <2> SUFFICES ASSUME NEW q \in (head - RingSize) .. (head - 1)
                 PROVE  /\ ready[Slot(q)] = q => \E p \in Producers : Writing(p, q)'
                        /\ ready[Slot(q)] = q + 1 /\ q < tail + 1 =>
                             \E d \in Consumers : Reading(d, q)'
      BY <1>1, <1>2, <2>1 DEF Attended
    <2>3. ASSUME NEW p \in Producers, Writing(p, q) PROVE Writing(p, q)'
      BY <1>2, <2>3 DEF Writing
    <2>4. ASSUME NEW d \in Consumers, Reading(d, q) PROVE Reading(d, q)'
      BY <2>1, <2>2, <2>4 DEF Reading
    <2>5. q = tail => Reading(c, q)'
      BY <2>2 DEF Reading
    <2>6. q < tail + 1 => q < tail \/ q = tail
      BY <1>1
    <2> QED BY <2>3, <2>4, <2>5, <2>6 DEF Attended
  <1>6. CASE ClaimRelease(c)
    <2> DEFINE t == cons[c].t
    <2>1. /\ tail' = tail /\ ready' = [ready EXCEPT ![Slot(t)] = t + RingSize]
          /\ cons' = [cons EXCEPT ![c] = [@ EXCEPT !.pc = "work"]] /\ "work" \in ConsPcs
          /\ cons[c].pc = "release"
      BY <1>6 DEF ClaimRelease, ConsPcs
    <2>2. \A d \in Consumers : d # c => cons'[d] = cons[d]
      BY <2>1, ConsMoved, Zenon
    <2>3. t \in Nat /\ t < tail /\ head - RingSize <= t
      BY <2>1 DEF IInv, TypeOK, ConsInv
    <2>4. t \in (head - RingSize) .. (head - 1) /\ Slot(t) \in Ring
      BY <1>1, <2>3, SlotRange
    <2>5. /\ ready'[Slot(t)] = t + RingSize
          /\ \A q \in (head - RingSize) .. (head - 1) : q # t => ready'[Slot(q)] = ready[Slot(q)]
      BY <1>1, <2>1, <2>4, Window
    <2> SUFFICES ASSUME NEW q \in (head - RingSize) .. (head - 1)
                 PROVE  /\ ready'[Slot(q)] = q => \E p \in Producers : Writing(p, q)'
                        /\ ready'[Slot(q)] = q + 1 /\ q < tail => \E d \in Consumers : Reading(d, q)'
      BY <1>2, <2>1 DEF Attended
    <2>6. CASE q = t
      BY <1>1, <2>3, <2>5, <2>6
    <2>7. CASE q # t
      <3>1. ASSUME NEW p \in Producers, Writing(p, q) PROVE Writing(p, q)'
        BY <1>2, <3>1 DEF Writing
      <3>2. ASSUME NEW d \in Consumers, Reading(d, q) PROVE Reading(d, q)'
        BY <2>2, <2>7, <3>2 DEF Reading
      <3> QED BY <2>5, <2>7, <3>1, <3>2 DEF Attended
    <2> QED BY <2>6, <2>7
  <1> QED BY <1>3, <1>4, <1>5, <1>6 DEF Claim

\* No slot of the ring is ever abandoned: one that enqueue has taken and not
\* published has its producer at work in it, one that claim has taken and not
\* released its consumer, for every ring of at least two slots.
THEOREM SlotsAttended == ASSUME RingSize >= 2 PROVE Spec => []Attended
  <1>1. Init => Attended
    <2> SUFFICES ASSUME Init, NEW q \in (head - RingSize) .. (head - 1)
                 PROVE  ready[Slot(q)] = q + RingSize /\ q \in Int /\ RingSize \in Nat
      BY DEF Attended
    <2>1. q + RingSize \in Ring /\ q \in Int
      BY SizeAssumption DEF Init, Ring
    <2>2. Slot(q) = q + RingSize
      BY <2>1, SlotPeriodic, SlotFirst
    <2> QED BY <2>1, <2>2, SizeAssumption DEF Init
  <1>2. IInv /\ Attended /\ [Next]_vars => Attended'
    <2> SUFFICES ASSUME IInv, Attended, [Next]_vars PROVE Attended'
      OBVIOUS
    <2>1. CASE UNCHANGED <<head, tail, ready, prod, cons>>
      BY <2>1, StillAttended
    <2>2. ASSUME NEW o \in Observers, InFlightLoadHead(o) \/ InFlightLoadTail(o) PROVE Attended'
      BY <2>1, <2>2 DEF InFlightLoadHead, InFlightLoadTail
    <2> QED BY <2>1, <2>2, EnqueueAttended, ClaimAttended DEF Next, vars
  <1> QED BY <1>1, <1>2, Invariance, PTL DEF Spec

\* enqueue answers QueueFull only from the current head, and only while the
\* ring holds RingSize waiting items or a consumer is still reading the item
\* RingSize positions back.
THEOREM FullCorrect == ASSUME RingSize >= 2 PROVE Spec => FullIsTrue
  <1> DEFINE A == \A p \in Producers : prod[p].pc = "ready" /\ prod'[p].pc = "idle" =>
                    /\ prod[p].h = head
                    /\ \/ head = tail + RingSize
                       \/ \E c \in Consumers : Reading(c, head - RingSize)
  <1>1. IInv /\ Attended /\ [Next]_vars => [A]_vars
    <2> SUFFICES ASSUME IInv, Attended, Next, NEW p \in Producers,
                        prod[p].pc = "ready", prod'[p].pc = "idle"
                 PROVE  /\ prod[p].h = head
                        /\ \/ head = tail + RingSize
                           \/ \E c \in Consumers : Reading(c, head - RingSize)
      BY DEF vars
    <2>1. ASSUME NEW r \in Producers, EnqueueBegin(r) \/ Enqueue(r) PROVE r = p /\ EnqueueLoadReady(p)
      <3>1. r = p
        BY <2>1, Zenon DEF EnqueueBegin, Enqueue, EnqueueLoadHead, EnqueueLoadReady, EnqueueCasHead,
          EnqueueStoreLo, EnqueueStoreHi, EnqueueResetDone, EnqueuePublish, IInv, TypeOK
      <3> QED BY <2>1, <3>1, ZenonT(60) DEF EnqueueBegin, Enqueue, EnqueueLoadHead, EnqueueCasHead,
          EnqueueStoreLo, EnqueueStoreHi, EnqueueResetDone, EnqueuePublish
    <2>2. EnqueueLoadReady(p)
      <3>1. ASSUME NEW c \in Consumers, Claim(c) PROVE prod' = prod
        BY <3>1 DEF Claim, ClaimBegin, ClaimLoadTail, ClaimLoadReady, ClaimLoadHead,
          ClaimCasTail, ClaimLoadLo, ClaimLoadHi, ClaimRelease, MarkDone
      <3>2. ASSUME NEW o \in Observers, InFlightLoadHead(o) \/ InFlightLoadTail(o) PROVE prod' = prod
        BY <3>2 DEF InFlightLoadHead, InFlightLoadTail
      <3> QED BY <2>1, <3>1, <3>2 DEF Next
    <2>3. Behind(ready[Slot(prod[p].h)], prod[p].h)
      <3> SUFFICES ASSUME ~ Behind(ready[Slot(prod[p].h)], prod[p].h) PROVE FALSE
        OBVIOUS
      <3>1. PICK pc \in {"cas", "head"} : prod' = [prod EXCEPT ![p] = [@ EXCEPT !.pc = pc]]
        BY <2>2 DEF EnqueueLoadReady
      <3>2. pc \in ProdPcs
        BY DEF ProdPcs
      <3>3. prod'[p].pc = pc
        BY <3>1, <3>2, ProdMoved
      <3> QED BY <3>3
    <2>4. prod[p].h \in Nat /\ prod[p].h <= head /\ head \in Nat
      BY DEF IInv, ProdInv, TypeOK
    <2>5. Slot(prod[p].h) \in Ring /\ ready[Slot(prod[p].h)] \in Nat
      <3>1. Slot(prod[p].h) \in Ring
        BY <2>4, SlotRange
      <3> QED BY <3>1, Zenon DEF IInv, TypeOK
    <2>6. prod[p].h < head => ready[Slot(prod[p].h)] >= prod[p].h
      BY <2>4 DEF IInv, SeqInv
    <2>7. prod[p].h = head /\ ready[Slot(head)] < head
      BY <2>3, <2>4, <2>5, <2>6 DEF Behind
    <2>8. PICK q \in (head - RingSize) .. (head - 1) : q = head - RingSize
      BY Window
    <2>9. Slot(head) = Slot(q)
      BY <2>8, SlotPeriodic, Window
    <2>10. ready[Slot(q)] = q \/ ready[Slot(q)] = q + 1
      BY <2>7, <2>8, <2>9, Window DEF IInv, RingInv
    <2>11. q < tail => \E c \in Consumers : Reading(c, q)
      BY <2>10 DEF Attended, IInv, RingInv
    <2>12. q >= tail => head = tail + RingSize
      BY <2>8, Window DEF IInv, TypeOK
    <2> QED BY <2>7, <2>8, <2>11, <2>12, Window
  <1> QED BY <1>1, Invariance, SlotsAttended, PTL DEF Spec, FullIsTrue

-----------------------------------------------------------------------------
(* Refinement *)

\* Once a consumer has won a position it has that position's item in hand,
\* whatever part of it has been read.
Hand(c) == IF cons[c].pc \in {"lo", "hi", "release", "work"} THEN log[cons[c].t + 1] ELSE None

\* What a consumer holds is the item that its claimed position was given.
LEMMA HandIsItem == IInv => \A c \in Consumers : InHand(c) = Hand(c)
  <1> SUFFICES ASSUME IInv, NEW c \in Consumers PROVE InHand(c) = Hand(c)
    OBVIOUS
  <1> DEFINE v == log[cons[c].t + 1]
  <1>1. cons[c].pc \in {"lo", "hi", "release", "work"} => v = <<v[1], v[2]>>
    <2>1. cons[c].pc \in {"lo", "hi", "release", "work"} => cons[c].t \in Nat /\ cons[c].t < head
      BY DEF IInv, TypeOK, ConsInv
    <2>2. cons[c].pc \in {"lo", "hi", "release", "work"} => v \in Items
      BY <2>1 DEF IInv, TypeOK
    <2> QED BY <2>2, ItemAssumption
  <1>2. /\ cons[c].pc \in {"hi", "release", "work"} => cons[c].lo = v[1]
        /\ cons[c].pc \in {"release", "work"} => cons[c].hi = v[2]
    BY DEF IInv, ConsInv
  <1> HIDE DEF v
  <1>3. CASE cons[c].pc = "lo"
    BY <1>3 DEF InHand, Hand, v
  <1>4. CASE cons[c].pc = "hi"
    <2>1. InHand(c) = <<cons[c].lo, v[2]>>
      BY <1>4 DEF InHand, v
    <2> QED BY <2>1, <1>1, <1>2, <1>4 DEF Hand, v
  <1>5. CASE cons[c].pc \in {"release", "work"}
    <2>1. InHand(c) = <<cons[c].lo, cons[c].hi>>
      BY <1>5 DEF InHand
    <2> QED BY <2>1, <1>1, <1>2, <1>5 DEF Hand, v
  <1>6. CASE cons[c].pc \notin {"lo", "hi", "release", "work"}
    BY <1>6 DEF InHand, Hand
  <1> QED BY <1>3, <1>4, <1>5, <1>6

\* Every step of the ring is a step of the queue, or leaves it as it is: the
\* exchange of head puts, the exchange of tail takes, mark_done drops.
LEMMA StepRefines ==
  ASSUME RingSize >= 2, IInv, IInv', [Next]_vars,
         \A c \in Consumers : InHand(c) = Hand(c),
         \A c \in Consumers : InHand(c)' = Hand(c)'
  PROVE  [Fifo!Next]_(Fifo!vars)
  <1> DEFINE held == [c \in Consumers |-> InHand(c)]
  <1>a. /\ held = [c \in Consumers |-> Hand(c)]
        /\ held' = [c \in Consumers |-> Hand(c)']
    OBVIOUS
  <1>b. /\ head \in Nat /\ tail \in Nat /\ tail <= head /\ log \in Seq(Items) /\ Len(log) = head
        /\ cons \in [Consumers -> ConsRec]
    BY DEF IInv, TypeOK, ConsRec
  <1>c. ASSUME log' = log, tail' = tail, \A c \in Consumers : Hand(c)' = Hand(c)
        PROVE  UNCHANGED Fifo!vars
    BY <1>c, <1>a DEF Fifo!vars
  <1>d. ASSUME cons' = cons, log' = log, tail' = tail PROVE UNCHANGED Fifo!vars
    <2>1. \A c \in Consumers : Hand(c)' = Hand(c)
      BY <1>d DEF Hand
    <2> QED BY <1>c, <1>d, <2>1
  <1>1. CASE UNCHANGED vars
    BY <1>1, <1>d DEF vars
  <1>2. ASSUME NEW p \in Producers, EnqueueBegin(p) \/ Enqueue(p)
        PROVE  [Fifo!Next]_(Fifo!vars)
    <2>1. CASE EnqueueCasHead(p) /\ head = prod[p].h
      <3>1. /\ head' = head + 1 /\ tail' = tail /\ cons' = cons
            /\ log' = Append(log, prod[p].item) /\ prod[p].item \in Items
        BY <2>1 DEF EnqueueCasHead, IInv, ProdInv
      <3>2. Len(log) < tail + RingSize
        BY <3>1, <1>b, SizeAssumption DEF IInv, TypeOK
      <3>3. \A c \in Consumers : Hand(c)' = Hand(c)
        <4> SUFFICES ASSUME NEW c \in Consumers, cons[c].pc \in {"lo", "hi", "release", "work"}
                     PROVE  log'[cons[c].t + 1] = log[cons[c].t + 1]
          BY <3>1, Zenon DEF Hand
        <4>1. cons[c].t \in Nat /\ cons[c].t < head
          <5>1. cons[c].t < tail
            BY Zenon DEF IInv, ConsInv
          <5> QED BY <5>1, <1>b DEF IInv, TypeOK
        <4> QED BY <4>1, <3>1, <1>b
      <3>4. held' = held
        BY <3>3, <1>a
      <3>5. Fifo!Put(prod[p].item)
        BY <3>1, <3>2, <3>4 DEF Fifo!Put
      <3> QED BY <3>1, <3>5 DEF Fifo!Next
    <2>2. CASE ~ (EnqueueCasHead(p) /\ head = prod[p].h)
      <3>1. cons' = cons /\ log' = log /\ tail' = tail
        BY <1>2, <2>2, Zenon DEF EnqueueBegin, Enqueue, EnqueueLoadHead, EnqueueLoadReady,
          EnqueueCasHead, EnqueueStoreLo, EnqueueStoreHi, EnqueueResetDone, EnqueuePublish
      <3> QED BY <3>1, <1>d
    <2> QED BY <2>1, <2>2
  <1>3. ASSUME NEW c \in Consumers, Claim(c) PROVE [Fifo!Next]_(Fifo!vars)
    <2>a. log' = log
      BY <1>3 DEF Claim, ClaimBegin, ClaimLoadTail, ClaimLoadReady, ClaimLoadHead,
          ClaimCasTail, ClaimLoadLo, ClaimLoadHi, ClaimRelease, MarkDone
    <2>b. \A d \in Consumers : d # c => cons'[d] = cons[d]
      BY <1>3, <1>b DEF Claim, ClaimBegin, ClaimLoadTail, ClaimLoadReady, ClaimLoadHead,
          ClaimCasTail, ClaimLoadLo, ClaimLoadHi, ClaimRelease, MarkDone
    <2>c. \A d \in Consumers : d # c => Hand(d)' = Hand(d)
      BY <2>a, <2>b DEF Hand
    <2>d. cons[c] \in ConsRec
      BY <1>b
    <2>1. CASE ClaimCasTail(c) /\ tail = cons[c].t
      <3>1. tail' = tail + 1 /\ cons' = [cons EXCEPT ![c] = [@ EXCEPT !.pc = "lo"]]
            /\ "lo" \in ConsPcs /\ tail < head
        BY <2>1 DEF ClaimCasTail, ConsPcs, IInv, ConsInv
      <3>2. cons'[c].pc = "lo" /\ cons'[c].t = tail
        BY <3>1, <2>1, ConsMoved, Zenon
      <3>3. Hand(c)' = log[tail + 1]
        BY <3>2, <2>a DEF Hand
      <3>4. held' = [held EXCEPT ![c] = log[tail + 1]]
        BY <3>3, <2>c, <1>a, Zenon
      <3>5. Fifo!Take(c)
        BY <3>1, <3>4, <2>a, <1>b DEF Fifo!Take
      <3> QED BY <3>5 DEF Fifo!Next
    <2>2. CASE MarkDone(c)
      <3> DEFINE e == [cons[c] EXCEPT !.pc = "idle", !.lo = None, !.hi = None]
      <3>1. tail' = tail /\ cons' = [cons EXCEPT ![c] = e]
        BY <2>2 DEF MarkDone
      <3>2. e.pc = "idle"
        BY <2>d DEF ConsRec
      <3> HIDE DEF e
      <3>3. cons'[c].pc = "idle"
        BY <3>1, <3>2, <1>b
      <3>4. Hand(c)' = None
        BY <3>3 DEF Hand
      <3>5. held' = [held EXCEPT ![c] = None]
        BY <3>4, <2>c, <1>a, Zenon
      <3>6. Fifo!Drop(c)
        BY <3>1, <3>5, <2>a DEF Fifo!Drop
      <3> QED BY <3>6 DEF Fifo!Next
    <2>3. CASE ClaimLoadLo(c) \/ ClaimLoadHi(c) \/ ClaimRelease(c)
      <3>1. tail' = tail /\ cons'[c].t = cons[c].t
            /\ cons[c].pc \in {"lo", "hi", "release"}
            /\ cons'[c].pc \in {"hi", "release", "work"}
        <4>1. CASE ClaimLoadLo(c)
          <5> DEFINE e == [cons[c] EXCEPT !.pc = "hi", !.lo = lo[Slot(cons[c].t)]]
          <5>1. tail' = tail /\ cons[c].pc = "lo" /\ cons' = [cons EXCEPT ![c] = e]
            BY <4>1 DEF ClaimLoadLo
          <5>2. e.pc = "hi" /\ e.t = cons[c].t
            BY <2>d DEF ConsRec
          <5> HIDE DEF e
          <5> QED BY <5>1, <5>2, <1>b
        <4>2. CASE ClaimLoadHi(c)
          <5> DEFINE e == [cons[c] EXCEPT !.pc = "release", !.hi = hi[Slot(cons[c].t)]]
          <5>1. tail' = tail /\ cons[c].pc = "hi" /\ cons' = [cons EXCEPT ![c] = e]
            BY <4>2 DEF ClaimLoadHi
          <5>2. e.pc = "release" /\ e.t = cons[c].t
            BY <2>d DEF ConsRec
          <5> HIDE DEF e
          <5> QED BY <5>1, <5>2, <1>b
        <4>3. CASE ClaimRelease(c)
          <5>1. tail' = tail /\ cons[c].pc = "release" /\ "work" \in ConsPcs
                /\ cons' = [cons EXCEPT ![c] = [@ EXCEPT !.pc = "work"]]
            BY <4>3 DEF ClaimRelease, ConsPcs
          <5>2. cons'[c].pc = "work" /\ cons'[c].t = cons[c].t
            BY <5>1, ConsMoved, Zenon
          <5> QED BY <5>1, <5>2
        <4> QED BY <2>3, <4>1, <4>2, <4>3
      <3>2. Hand(c)' = Hand(c)
        BY <3>1, <2>a DEF Hand
      <3> QED BY <3>1, <3>2, <2>a, <2>c, <1>c
    <2>4. CASE ClaimBegin(c) \/ ClaimLoadTail(c) \/ ClaimLoadReady(c) \/ ClaimLoadHead(c)
               \/ (ClaimCasTail(c) /\ tail # cons[c].t)
      <3>1. tail' = tail
            /\ cons[c].pc \in {"idle", "tail", "ready", "empty", "cas"}
            /\ cons'[c].pc \in {"idle", "tail", "ready", "empty", "cas"}
        BY <2>4, <2>d, <1>b, ZenonT(60) DEF ClaimBegin, ClaimLoadTail, ClaimLoadReady, ClaimLoadHead,
          ClaimCasTail, ConsRec
      <3>2. Hand(c)' = Hand(c)
        BY <3>1 DEF Hand
      <3> QED BY <3>1, <3>2, <2>a, <2>c, <1>c
    <2> QED BY <1>3, <2>1, <2>2, <2>3, <2>4 DEF Claim
  <1>4. ASSUME NEW o \in Observers, InFlightLoadHead(o) \/ InFlightLoadTail(o)
        PROVE  UNCHANGED Fifo!vars
    <2>1. cons' = cons /\ log' = log /\ tail' = tail
      BY <1>4 DEF InFlightLoadHead, InFlightLoadTail
    <2> QED BY <2>1, <1>d
  <1> QED BY <1>1, <1>2, <1>3, <1>4 DEF Next

\* enqueue and claim implement a first-in first-out queue of RingSize items,
\* for every number of threads and every interleaving of their atomic steps.
THEOREM QueueIsFifo == ASSUME RingSize >= 2 PROVE Spec => ImplementsFifo
  <1>1. Init => Fifo!Init
    <2> SUFFICES ASSUME Init PROVE Fifo!Init
      OBVIOUS
    <2>1. \A c \in Consumers : InHand(c) = None
      BY DEF Init, InHand
    <2> QED BY <2>1 DEF Init, Fifo!Init
  <1>2. IInv /\ IInv' /\ [Next]_vars
        /\ (\A c \in Consumers : InHand(c) = Hand(c))
        /\ (\A c \in Consumers : InHand(c) = Hand(c))' => [Fifo!Next]_(Fifo!vars)
    BY StepRefines
  <1> QED BY <1>1, <1>2, HandIsItem, Invariance, PTL DEF Spec, ImplementsFifo, Fifo!Spec
=============================================================================
