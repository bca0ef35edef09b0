--------------------------- MODULE ReplayLogProofs --------------------------
(***************************************************************************)
(* Theorems about ReplayLog, for every capacity and any number of appends,  *)
(* failed writes and crashes.                                               *)
(***************************************************************************)
EXTENDS ReplayLog, WellFoundedInduction, TLAPS

\* A leaf that names no prover is for the SMT solver, tried twice, and for Zenon
\* where the solver finds nothing.
USE SMTT(60), SMTT(70), Zenon

\* The remainder of a number that is less than twice the divisor.
LEMMA Wrap ==
  ASSUME NEW c \in Nat \ {0}, NEW a \in 0 .. 2 * c - 1
  PROVE  a % c = IF a < c THEN a ELSE a - c
OBVIOUS

\* How many slots after slot x slot i comes, going round the log.
Dist(x, i) == IF i >= x THEN i - x ELSE i - x + file.cap

Slots == 0 .. file.cap - 1

\* The k-th slot a replay reads is k slots after its first.
LEMMA ReplayDistance ==
  ASSUME file.cap \in Nat \ {0}, NEW x \in Slots, NEW k \in Slots
  PROVE  ReplaySlot(x, k) \in Slots /\ Dist(x, ReplaySlot(x, k)) = k
<1>1. x + k \in 0 .. 2 * file.cap - 1
  BY DEF Slots
<1> DEFINE a == x + k
<1> DEFINE c == file.cap
<1>2. c \in Nat \ {0} /\ a \in 0 .. 2 * c - 1
  BY <1>1
<1> HIDE DEF a, c
<1>3. a % c = IF a < c THEN a ELSE a - c
  BY <1>2, Wrap, Zenon
<1>4. ReplaySlot(x, k) = a % c
  BY DEF ReplaySlot, a, c
<1>5. QED
  BY <1>3, <1>4 DEF Slots, Dist, a, c
-----------------------------------------------------------------------------
(* The inductive invariant *)

Opened == handle.pc \in {"open", "cursor"}

\* The header says what the handle says, and a record that has just been
\* written is the last one of the next replay.
Shape ==
  /\ file.cap > 0 <=> file.steps >= CAPACITY
  /\ file.cap > 0 => file.cursor \in Slots
  /\ file.cap = 0 => /\ file.cursor = 0 /\ ~Opened /\ acked = {}
                      /\ \A i \in Indices : file.rec[i] = EMPTY
  /\ Opened => handle.cap = file.cap /\ handle.next \in Slots
  /\ handle.pc = "create" => /\ handle.cap \in Capacities /\ handle.next = 0 /\ file.cursor = 0
                             /\ file.cap > 0 => file.cap = handle.cap
  /\ ~Opened => ahead = {}
  /\ \A i \in Indices : file.rec[i] <= writes
  /\ handle.pc = "cursor" =>
       \E i \in Slots : file.rec[i] = writes /\ writes > 0 /\ Dist(handle.next, i) = file.cap - 1

\* Slot i is not written again before the log has gone round since write n.
Safe(x, i, n) == Dist(x, i) >= file.cap - 1 - (writes - n)

\* An acknowledged record is safe from the log as it goes on and from the log
\* as it would be opened again.
Kept ==
  \A n \in acked : writes - n < file.cap =>
    \E i \in Slots : /\ file.rec[i] = n
                     /\ Safe(file.cursor, i, n)
                     /\ Opened => Safe(handle.next, i, n)

\* From slot x on the whole records outside S are in order.
Ordered(x, S) ==
  \A i, j \in Slots :
    (/\ file.rec[i] > 0 /\ file.rec[i] \notin S
     /\ file.rec[j] > 0 /\ file.rec[j] \notin S
     /\ Dist(x, i) < Dist(x, j)) => file.rec[i] < file.rec[j]

\* So they are for the open log, and for the log as it would be opened again
\* if what is ahead of the cursor were left behind.
Order ==
  /\ Ordered(file.cursor, stray \cup ahead)
  /\ Opened => Ordered(handle.next, stray)

IInv == TypeOK /\ Shape /\ Kept /\ Order

\* The initial state satisfies it.
LEMMA InitInv == Init => IInv
<1> SUFFICES ASSUME Init PROVE IInv
  OBVIOUS
<1>1. 0 \in Indices /\ MaxCapacity >= 1
  BY MaxCapacityAssumption DEF Indices
<1>2. TypeOK
  <2>1. [i \in Indices |-> EMPTY] \in [Indices -> BROKEN .. MaxWrites]
    BY MaxWritesAssumption DEF EMPTY, BROKEN
  <2>2. file \in [steps : 0 .. CURSOR, cap : 0 .. MaxCapacity, cursor : Indices,
                  rec : [Indices -> BROKEN .. MaxWrites]]
    BY <1>1, <2>1, MaxCapacityAssumption DEF Init, CURSOR
  <2>3. QED
    BY <1>1, <2>2, MaxWritesAssumption, MaxCapacityAssumption DEF Init, TypeOK, Closed
<1>3. Shape
  BY DEF Init, Shape, Closed, Opened, CAPACITY, Slots, EMPTY
<1>4. Kept
  BY DEF Init, Kept
<1>5. Order
  BY DEF Init, Order, Ordered, Closed, Opened, Slots
<1>6. QED
  BY <1>2, <1>3, <1>4, <1>5 DEF IInv

\* A persisted cursor is already inside the log.
LEMMA CursorInside ==
  ASSUME TypeOK, Shape, file.cap > 0
  PROVE  file.cursor % file.cap = file.cursor
<1>1. file.cap \in Nat \ {0} /\ file.cursor \in 0 .. 2 * file.cap - 1 /\ file.cursor < file.cap
  BY DEF Shape, TypeOK, Slots
<1> DEFINE a == file.cursor
<1> DEFINE c == file.cap
<1> HIDE DEF a, c
<1>2. a % c = IF a < c THEN a ELSE a - c
  BY <1>1, Wrap, Zenon DEF a, c
<1>3. QED
  BY <1>1, <1>2 DEF a, c

\* A log that is opened where its cursor says is in order.
LEMMA Reopens ==
  ASSUME IInv, ~Opened, file.cap > 0, TypeOK', UNCHANGED <<file, writes, acked, ahead, stray>>,
         handle'.pc = "open", handle'.cap = file.cap, handle'.next = file.cursor
  PROVE  IInv'
<1>0. Shape /\ Kept /\ Order
  BY DEF IInv
<1>1. ahead = {} /\ stray \cup ahead = stray /\ Opened'
  BY <1>0 DEF Shape, Opened
<1>2. Shape'
  BY <1>0, <1>1 DEF Shape, Opened, Slots, Dist
<1>3. Kept'
  BY <1>0, <1>1 DEF Kept, Safe, Slots, Dist
<1>4. Order'
  BY <1>0, <1>1 DEF Order, Ordered, Slots, Dist
<1>5. QED
  BY <1>2, <1>3, <1>4 DEF IInv

\* Opening, creating and closing leave the records and the cursor alone.
LEMMA HeaderSteps ==
  ASSUME IInv, (\E c \in Capacities : OpenFresh(c)) \/ CreateStep \/ Created
               \/ OpenExisting \/ Crash
  PROVE  IInv'
<1>0. TypeOK /\ Shape /\ Kept /\ Order
  BY DEF IInv
<1>1. ASSUME NEW c \in Capacities, OpenFresh(c) PROVE IInv'
  <2>1. /\ handle' = [pc |-> "create", cap |-> c, next |-> 0]
        /\ UNCHANGED <<writes, acked, ahead, stray>>
    BY <1>1 DEF OpenFresh, ghosts
  <2>2. /\ file'.steps = 1 /\ file'.cap = file.cap /\ file'.cursor = file.cursor
        /\ file'.rec = file.rec /\ file.steps = 0 /\ file.cap = 0
        /\ file' \in [steps : 0 .. CURSOR, cap : 0 .. MaxCapacity, cursor : Indices,
                      rec : [Indices -> BROKEN .. MaxWrites]]
    BY <1>0, <1>1 DEF OpenFresh, TypeOK, Shape, CREATED, CURSOR, CAPACITY
  <2>3. TypeOK'
    BY <1>0, <2>1, <2>2, MaxCapacityAssumption DEF TypeOK, Capacities, Indices
  <2>4. Shape'
    BY <1>0, <2>1, <2>2 DEF Shape, Opened, Slots, Dist, CAPACITY
  <2>5. Kept' /\ Order'
    BY <1>0, <2>1, <2>2 DEF Kept, Order, Shape, Ordered, Opened, Slots, Dist, Safe
  <2>6. QED
    BY <2>3, <2>4, <2>5 DEF IInv
<1>2. CASE CreateStep
  <2>1. UNCHANGED <<handle, writes, acked, ahead, stray>> /\ handle.pc = "create"
    BY <1>2 DEF CreateStep, ghosts
  <2>2. /\ file'.steps = file.steps + 1 /\ file'.cursor = file.cursor
        /\ file'.cap = IF file.steps + 1 = CAPACITY THEN handle.cap ELSE file.cap
        /\ file'.rec = file.rec /\ file.steps < CURSOR
    BY <1>0, <1>2 DEF CreateStep, TypeOK
  <2>3. handle.cap \in Capacities
    BY <1>0, <2>1 DEF Shape
  <2>4. TypeOK'
    <3>1. file' \in [steps : 0 .. CURSOR, cap : 0 .. MaxCapacity, cursor : Indices,
                     rec : [Indices -> BROKEN .. MaxWrites]]
      <4> DEFINE cap == IF file.steps + 1 = CAPACITY THEN handle.cap ELSE file.cap
      <4>1. cap \in 0 .. MaxCapacity
        BY <1>0, <2>3 DEF TypeOK, Capacities
      <4>2. file' = [file EXCEPT !.steps = file.steps + 1, !.cap = cap]
        BY <1>2 DEF CreateStep
      <4>3. file.steps + 1 \in 0 .. CURSOR
        BY <1>0, <2>2 DEF TypeOK, CURSOR
      <4> HIDE DEF cap
      <4>4. QED
        BY <1>0, <4>1, <4>2, <4>3, Zenon DEF TypeOK
    <3>2. QED
      BY <1>0, <2>1, <3>1 DEF TypeOK
  <2>5. CASE file.steps + 1 = CAPACITY
    <3>1. file.cap = 0 /\ file'.cap = handle.cap /\ file'.cap \in 1 .. MaxCapacity
      BY <1>0, <2>2, <2>3, <2>5 DEF Shape, CAPACITY, TypeOK, Capacities
    <3>2. acked = {} /\ file.cursor = 0 /\ \A i \in Indices : file.rec[i] = 0
      BY <1>0, <3>1 DEF Shape, EMPTY
    <3>3. Slots' \subseteq Indices /\ 0 \in Slots'
      BY <3>1, MaxCapacityAssumption DEF Slots, Indices
    <3>4. Shape'
      BY <1>0, <2>1, <2>2, <2>3, <2>5, <3>1, <3>2, <3>3 DEF Shape, Opened, CAPACITY
    <3>5. Kept'
      BY <2>1, <3>2 DEF Kept
    <3>6. Order'
      BY <2>1, <2>2, <3>2, <3>3 DEF Order, Ordered, Opened
    <3>7. QED
      BY <2>4, <3>4, <3>5, <3>6 DEF IInv
  <2>6. CASE file.steps + 1 # CAPACITY
    <3>1. UNCHANGED <<file.cap, file.cursor, file.rec>>
      BY <2>2, <2>6
    <3>2. file'.steps >= CAPACITY <=> file.steps >= CAPACITY
      BY <1>0, <2>2, <2>6 DEF TypeOK, CAPACITY
    <3>3. Shape'
      BY <1>0, <2>1, <3>1, <3>2 DEF Shape, Opened, Slots, Dist
    <3>4. Kept' /\ Order'
      BY <1>0, <2>1, <3>1 DEF Kept, Order, Ordered, Opened, Slots, Dist, Safe
    <3>5. QED
      BY <2>4, <3>3, <3>4 DEF IInv
  <2>7. QED
    BY <2>5, <2>6
<1>3. CASE Created
  <2>1. /\ UNCHANGED <<file, writes, acked, ahead, stray>> /\ handle.pc = "create"
        /\ file.steps = CURSOR
    BY <1>3 DEF Created, ghosts
  <2>2. handle'.pc = "open" /\ handle'.cap = handle.cap /\ handle'.next = handle.next
    BY <1>0, <1>3 DEF Created, TypeOK
  <2>3. TypeOK'
    BY <1>0, <1>3, <2>1 DEF Created, TypeOK
  <2>4. file.cap > 0 /\ ~Opened
    BY <1>0, <2>1 DEF Shape, Opened, CURSOR, CAPACITY
  <2>5. handle.cap = file.cap /\ handle.next = file.cursor
    BY <1>0, <2>1, <2>4 DEF Shape
  <2>6. QED
    BY <2>1, <2>2, <2>3, <2>4, <2>5, Reopens
<1>4. CASE OpenExisting
  <2>1. /\ UNCHANGED <<file, writes, acked, ahead, stray>> /\ handle.pc = "closed"
        /\ handle' = [pc |-> "open", cap |-> file.cap, next |-> file.cursor % file.cap]
    BY <1>4 DEF OpenExisting, ghosts
  <2>2. file.cap > 0 /\ ~Opened
    BY <1>0, <1>4, <2>1 DEF Shape, Opened, OpenExisting
  <2>5. file.cursor % file.cap = file.cursor
    BY <1>0, <2>2, CursorInside
  <2>6. handle'.pc = "open" /\ handle'.cap = file.cap /\ handle'.next = file.cursor
    BY <2>1, <2>5
  <2>7. TypeOK'
    BY <1>0, <2>1, <2>5 DEF TypeOK
  <2>8. QED
    BY <2>1, <2>2, <2>6, <2>7, Reopens
<1>5. CASE Crash
  <2>1. /\ UNCHANGED <<file, writes, acked>> /\ handle' = Closed
        /\ stray' = stray \cup ahead /\ ahead' = {}
    BY <1>5 DEF Crash
  <2>2. ~Opened' /\ handle'.pc # "create" /\ handle'.pc # "cursor"
    BY <2>1 DEF Opened, Closed
  <2>3. TypeOK'
    BY <1>0, <2>1, MaxCapacityAssumption DEF TypeOK, Closed, Indices
  <2>4. Shape'
    BY <1>0, <2>1, <2>2 DEF Shape, Slots
  <2>5. Kept'
    BY <1>0, <2>1, <2>2 DEF Kept, Safe, Slots, Dist
  <2>6. Order'
    BY <1>0, <2>1, <2>2 DEF Order, Ordered, Slots, Dist
  <2>7. QED
    BY <2>3, <2>4, <2>5, <2>6 DEF IInv
<1>6. QED
  BY <1>1, <1>2, <1>3, <1>4, <1>5

\* What an open log knows of its slots.
LEMMA OpenFacts ==
  ASSUME IInv, Opened
  PROVE  /\ file.cap \in 1 .. MaxCapacity /\ handle.cap = file.cap
         /\ Slots \subseteq Indices /\ handle.next \in Slots /\ file.cursor \in Slots
         /\ \A i \in Slots : file.rec[i] \in Int /\ file.rec[i] <= writes
         /\ writes \in Nat /\ acked \subseteq 1 .. writes /\ stray \subseteq 1 .. writes
<1>0. TypeOK /\ Shape
  BY DEF IInv
<1>1. file.cap \in 1 .. MaxCapacity
  BY <1>0 DEF Shape, TypeOK
<1>2. Slots \subseteq Indices
  BY <1>1, MaxCapacityAssumption DEF Slots, Indices
<1>3. \A i \in Indices : file.rec[i] \in Int
  BY <1>0, MaxWritesAssumption DEF TypeOK, BROKEN
<1>4. QED
  BY <1>0, <1>1, <1>2, <1>3 DEF Shape, TypeOK

\* The number of the slot after slot x.
LEMMA SlotAfter ==
  ASSUME file.cap \in Nat \ {0}, NEW x \in Slots
  PROVE  (x + 1) % file.cap = IF x + 1 < file.cap THEN x + 1 ELSE 0
<1> DEFINE a == x + 1
<1> DEFINE c == file.cap
<1>1. c \in Nat \ {0} /\ a \in 0 .. 2 * c - 1
  BY DEF Slots
<1> HIDE DEF a, c
<1>2. a % c = IF a < c THEN a ELSE a - c
  BY <1>1, Wrap, Zenon
<1>3. a >= c => a - c = 0
  BY <1>1 DEF a, c, Slots
<1>4. a % c = IF a < c THEN a ELSE 0
  BY <1>1, <1>2, <1>3
<1>5. QED
  BY <1>4 DEF a, c

\* How far from it the slots are.
LEMMA NextSlot ==
  ASSUME file.cap \in Nat \ {0}, NEW x \in Slots
  PROVE  LET y == (x + 1) % file.cap
         IN  /\ y \in Slots
             /\ Dist(y, x) = file.cap - 1
             /\ \A i \in Slots \ {x} : Dist(y, i) = Dist(x, i) - 1
             /\ \A i \in Slots : Dist(x, i) \in 0 .. file.cap - 1
             /\ \A i \in Slots : Dist(x, i) = 0 => i = x
<1> DEFINE y == (x + 1) % file.cap
<1>4. y = IF x + 1 < file.cap THEN x + 1 ELSE 0
  BY SlotAfter
<1> HIDE DEF y
<1>5. y \in Slots /\ Dist(y, x) = file.cap - 1
  BY <1>4 DEF Slots, Dist
<1>6. \A i \in Slots \ {x} : Dist(y, i) = Dist(x, i) - 1
  BY <1>4 DEF Slots, Dist
<1>7. \A i \in Slots : Dist(x, i) \in 0 .. file.cap - 1 /\ (Dist(x, i) = 0 => i = x)
  BY DEF Slots, Dist
<1>8. QED
  BY <1>5, <1>6, <1>7 DEF y

\* A record write puts v, a record or what is left of one, at next_slot, and
\* moves next_slot on when it succeeds.
Wrote(v) ==
  /\ handle.pc = "open" /\ Opened /\ Opened' /\ handle'.cap = handle.cap
  /\ writes < MaxWrites /\ writes' = writes + 1 /\ UNCHANGED <<acked, stray>>
  /\ v <= writes + 1 /\ v # 0
  /\ file'.steps = file.steps /\ file'.cap = file.cap /\ file'.cursor = file.cursor
  /\ \A i \in Indices : file'.rec[i] = IF i = handle.next THEN v ELSE file.rec[i]
  /\ file' \in [steps : 0 .. CURSOR, cap : 0 .. MaxCapacity, cursor : Indices,
                rec : [Indices -> BROKEN .. MaxWrites]]
  /\ \/ /\ v = writes + 1 /\ WriteRecord
        /\ handle'.pc = "cursor" /\ handle'.next = (handle.next + 1) % file.cap
        /\ ahead' = ahead \cup {writes + 1}
     \/ /\ v < 0 /\ v # writes + 1 /\ WriteRecordFails
        /\ handle' = handle /\ ahead' = ahead
  /\ handle'.next \in Slots
  /\ v = writes + 1 =>
       /\ Dist(handle'.next, handle.next) = file.cap - 1
       /\ \A i \in Slots \ {handle.next} :
            Dist(handle'.next, i) = Dist(handle.next, i) - 1
  /\ v # writes + 1 => handle'.next = handle.next
  /\ \A i \in Slots : /\ Dist(handle.next, i) \in 0 .. file.cap - 1
                      /\ Dist(handle.next, i) = 0 => i = handle.next
  /\ \A i \in Slots : Dist(file.cursor, i) \in Int

\* Every record write is one.
LEMMA WriteFacts ==
  ASSUME IInv, WriteRecord \/ WriteRecordFails
  PROVE  \E v \in BROKEN .. MaxWrites : Wrote(v)
<1> DEFINE x == handle.next
<1> DEFINE w == writes + 1
<1>0. TypeOK /\ Shape /\ Kept /\ Order
  BY DEF IInv
<1>1. Opened /\ handle.pc = "open" /\ writes < MaxWrites /\ writes' = w
  BY DEF Opened, WriteRecord, WriteRecordFails
<1>2. PICK v \in {w, MIXED, BROKEN} :
        /\ file' = [file EXCEPT !.rec = [@ EXCEPT ![x] = v]]
        /\ (v = w /\ WriteRecord) \/ (v # w /\ WriteRecordFails)
  <2>1. CASE WriteRecord
    BY <2>1 DEF WriteRecord
  <2>2. CASE WriteRecordFails
    <3>1. w # MIXED /\ w # BROKEN
      BY <1>0 DEF TypeOK, MIXED, BROKEN
    <3>2. QED
      BY <2>2, <3>1 DEF WriteRecordFails
  <2>3. QED
    BY <2>1, <2>2
<1>3. /\ file.cap \in 1 .. MaxCapacity /\ handle.cap = file.cap
      /\ Slots \subseteq Indices /\ x \in Slots /\ file.cursor \in Slots
      /\ \A i \in Slots : file.rec[i] \in Int /\ file.rec[i] <= writes
      /\ writes \in Nat /\ acked \subseteq 1 .. writes /\ stray \subseteq 1 .. writes
  BY <1>1, OpenFacts
<1>4. v \in BROKEN .. MaxWrites /\ v <= w /\ v # 0
  BY <1>1, <1>3, MaxWritesAssumption DEF MIXED, BROKEN
<1>5. /\ file'.steps = file.steps /\ file'.cap = file.cap /\ file'.cursor = file.cursor
      /\ \A i \in Indices : file'.rec[i] = IF i = x THEN v ELSE file.rec[i]
      /\ file' \in [steps : 0 .. CURSOR, cap : 0 .. MaxCapacity, cursor : Indices,
                    rec : [Indices -> BROKEN .. MaxWrites]]
  <2> DEFINE rec == [file.rec EXCEPT ![x] = v]
  <2>1. rec \in [Indices -> BROKEN .. MaxWrites]
        /\ \A i \in Indices : rec[i] = IF i = x THEN v ELSE file.rec[i]
    BY <1>0, <1>3, <1>4 DEF TypeOK
  <2>2. file' = [file EXCEPT !.rec = rec]
    BY <1>2
  <2> HIDE DEF rec
  <2>3. QED
    BY <1>0, <2>1, <2>2 DEF TypeOK
<1>6. /\ UNCHANGED <<acked, stray>> /\ Opened' /\ handle'.cap = handle.cap
      /\ (v = w /\ handle'.pc = "cursor" /\ handle'.next = (x + 1) % file.cap
            /\ ahead' = ahead \cup {w})
         \/ (v # w /\ handle' = handle /\ ahead' = ahead /\ v < 0)
  <2>1. CASE v = w /\ WriteRecord
    BY <1>0, <1>3, <2>1 DEF WriteRecord, Opened, TypeOK
  <2>2. CASE v # w /\ WriteRecordFails
    BY <1>1, <2>2 DEF WriteRecordFails, ghosts, Opened, MIXED, BROKEN
  <2>3. QED
    BY <1>2, <2>1, <2>2
<1> DEFINE y == handle'.next
<1>7. /\ y \in Slots
      /\ v = w => /\ Dist(y, x) = file.cap - 1
                  /\ \A i \in Slots \ {x} : Dist(y, i) = Dist(x, i) - 1
      /\ v # w => y = x
      /\ \A i \in Slots : Dist(x, i) \in 0 .. file.cap - 1 /\ (Dist(x, i) = 0 => i = x)
      /\ \A i \in Slots : Dist(file.cursor, i) \in Int
  <2>1. file.cap \in Nat \ {0}
    BY <1>3
  <2>2. \A i \in Slots : Dist(file.cursor, i) \in Int
    BY <1>3 DEF Dist, Slots
  <2>3. QED
    BY <1>3, <1>6, <2>1, <2>2, NextSlot
<1>8. QED
  BY <1>1, <1>2, <1>3, <1>4, <1>5, <1>6, <1>7 DEF Wrote

\* A record write, whole or torn, costs the oldest record and no other.
LEMMA WriteSteps ==
  ASSUME IInv, WriteRecord \/ WriteRecordFails
  PROVE  IInv'
<1> DEFINE x == handle.next
<1> DEFINE w == writes + 1
<1> DEFINE y == handle'.next
<1>0. TypeOK /\ Shape /\ Kept /\ Order
  BY DEF IInv
<1>2. PICK v \in BROKEN .. MaxWrites : Wrote(v)
  BY WriteFacts
<1>1. Opened /\ handle.pc = "open" /\ writes < MaxWrites /\ writes' = w
  BY <1>2 DEF Wrote
<1>3. /\ file.cap \in 1 .. MaxCapacity /\ handle.cap = file.cap
      /\ Slots \subseteq Indices /\ x \in Slots /\ file.cursor \in Slots
      /\ \A i \in Slots : file.rec[i] \in Int /\ file.rec[i] <= writes
      /\ writes \in Nat /\ acked \subseteq 1 .. writes /\ stray \subseteq 1 .. writes
  BY <1>1, OpenFacts
<1>4. v \in BROKEN .. MaxWrites /\ v <= w /\ v # 0
  BY <1>2 DEF Wrote
<1>5. /\ file'.steps = file.steps /\ file'.cap = file.cap /\ file'.cursor = file.cursor
      /\ \A i \in Indices : file'.rec[i] = IF i = x THEN v ELSE file.rec[i]
      /\ file' \in [steps : 0 .. CURSOR, cap : 0 .. MaxCapacity, cursor : Indices,
                    rec : [Indices -> BROKEN .. MaxWrites]]
  BY <1>2 DEF Wrote
<1>6. /\ UNCHANGED <<acked, stray>> /\ Opened' /\ handle'.cap = handle.cap
      /\ (v = w /\ handle'.pc = "cursor" /\ handle'.next = (x + 1) % file.cap
            /\ ahead' = ahead \cup {w})
         \/ (v # w /\ handle' = handle /\ ahead' = ahead /\ v < 0)
  BY <1>2 DEF Wrote
<1>7. /\ y \in Slots
      /\ v = w => /\ Dist(y, x) = file.cap - 1
                  /\ \A i \in Slots \ {x} : Dist(y, i) = Dist(x, i) - 1
      /\ v # w => y = x
      /\ \A i \in Slots : Dist(x, i) \in 0 .. file.cap - 1 /\ (Dist(x, i) = 0 => i = x)
      /\ \A i \in Slots : Dist(file.cursor, i) \in Int
  BY <1>2 DEF Wrote
<1>8. TypeOK'
  <2>1. handle' \in [pc : {"closed", "create", "open", "cursor"}, cap : 0 .. MaxCapacity,
                     next : Indices]
    <3>1. CASE WriteRecord
      <4>1. (x + 1) % handle.cap \in Indices
        BY <1>3, <1>7, <3>1 DEF WriteRecord
      <4>2. QED
        BY <1>0, <3>1, <4>1, Zenon DEF WriteRecord, TypeOK
    <3>2. CASE WriteRecordFails
      BY <1>0, <3>2 DEF WriteRecordFails, TypeOK
    <3>3. QED
      BY <3>1, <3>2
  <2>2. w \in 0 .. MaxWrites /\ 1 .. writes \subseteq 1 .. w /\ w \in 1 .. w
    BY <1>1, <1>3, MaxWritesAssumption
  <2>3. QED
    BY <1>0, <1>1, <1>5, <1>6, <2>1, <2>2, Zenon DEF TypeOK
<1>9. Slots' = Slots
  BY <1>5 DEF Slots
<1>10. Shape'
  <2>1. file'.cap > 0 /\ file'.steps >= CAPACITY /\ file'.cursor \in Slots'
    BY <1>0, <1>3, <1>5, <1>9 DEF Shape
  <2>2. handle'.cap = file'.cap /\ handle'.next \in Slots' /\ Opened'
    BY <1>3, <1>5, <1>6, <1>7, <1>9
  <2>3. \A k \in Indices : file'.rec[k] <= writes'
    <3>1. \A k \in Indices : file.rec[k] <= writes /\ file.rec[k] \in Int
      BY <1>0, MaxWritesAssumption DEF Shape, TypeOK, BROKEN
    <3>2. QED
      BY <1>1, <1>3, <1>4, <1>5, <3>1, MaxWritesAssumption DEF BROKEN
  <2>4. handle'.pc = "cursor" =>
          (\E k \in Slots : file.rec[k] = writes /\ writes > 0 /\ Dist(handle.next, k) = file.cap - 1)'
    <3>1. SUFFICES ASSUME v = w
                   PROVE  /\ x \in Slots' /\ file'.rec[x] = writes' /\ writes' > 0
                          /\ (IF x >= y THEN x - y ELSE x - y + file'.cap) = file'.cap - 1
      BY <1>1, <1>6 DEF Dist
    <3>2. QED
      BY <1>1, <1>3, <1>5, <1>7, <1>9, <3>1 DEF Dist
  <2>5. handle'.pc # "create"
    BY <2>2 DEF Opened
  <2>6. QED
    BY <2>1, <2>2, <2>3, <2>4, <2>5 DEF Shape
<1>11. Kept'
  <2> SUFFICES ASSUME NEW n \in acked, writes' - n < file'.cap
               PROVE  (\E k \in Slots : /\ file.rec[k] = n
                                        /\ Safe(file.cursor, k, n)
                                        /\ Opened => Safe(handle.next, k, n))'
    BY <1>6 DEF Kept
  <2>1. n \in 1 .. writes /\ writes - n < file.cap
    BY <1>1, <1>3, <1>5
  <2>2. PICK k \in Slots : /\ file.rec[k] = n
                           /\ Safe(file.cursor, k, n) /\ Safe(x, k, n)
    BY <1>0, <1>1, <2>1 DEF Kept
  <2>3. k # x
    BY <1>1, <1>3, <1>5, <2>1, <2>2 DEF Safe, Dist, Slots
  <2>4. k \in Slots' /\ file'.rec[k] = n
    BY <1>3, <1>5, <1>9, <2>2, <2>3
  <2>5. Dist(file.cursor, k) >= file.cap - 1 - (w - n) /\ Dist(y, k) >= file.cap - 1 - (w - n)
    BY <1>3, <1>7, <2>1, <2>2, <2>3 DEF Safe
  <2>6. Safe(file.cursor, k, n)' /\ Safe(handle.next, k, n)'
    BY <1>1, <1>5, <2>5 DEF Safe, Dist
  <2>7. QED
    BY <2>4, <2>6
<1>12. Order'
  <2>1. ASSUME NEW k \in Slots, NEW l \in Slots, file'.rec[k] > 0, file'.rec[l] > 0,
               file'.rec[k] \notin stray \cup ahead', file'.rec[l] \notin stray \cup ahead',
               Dist(file.cursor, k) < Dist(file.cursor, l)
        PROVE  file'.rec[k] < file'.rec[l]
    <3>1. k # x /\ l # x
      BY <1>3, <1>5, <1>6, <2>1
    <3>2. file'.rec[k] = file.rec[k] /\ file'.rec[l] = file.rec[l] /\ ahead \subseteq ahead'
      BY <1>3, <1>5, <1>6, <3>1
    <3>3. QED
      BY <1>0, <2>1, <3>2 DEF Order, Ordered
  <2>2. ASSUME NEW k \in Slots, NEW l \in Slots, file'.rec[k] > 0, file'.rec[l] > 0,
               file'.rec[k] \notin stray, file'.rec[l] \notin stray,
               Dist(y, k) < Dist(y, l)
        PROVE  file'.rec[k] < file'.rec[l]
    <3>1. k # x
      BY <1>3, <1>5, <1>6, <1>7, <2>2
    <3>2. file'.rec[k] = file.rec[k] /\ file.rec[k] \in Int /\ file.rec[k] <= writes
      BY <1>3, <1>5, <3>1
    <3>3. CASE l = x
      BY <1>3, <1>5, <1>6, <2>2, <3>2, <3>3
    <3>4. CASE l # x
      <4>1. file'.rec[l] = file.rec[l] /\ Dist(x, k) < Dist(x, l)
        BY <1>3, <1>5, <1>6, <1>7, <2>2, <3>1, <3>4
      <4>2. QED
        BY <1>0, <1>1, <2>2, <3>2, <4>1 DEF Order, Ordered
    <3>5. QED
      BY <3>3, <3>4
  <2>3. Ordered(file.cursor, stray \cup ahead)'
    BY <1>5, <1>6, <1>9, <2>1 DEF Ordered, Dist
  <2>4. Ordered(handle.next, stray)'
    BY <1>5, <1>6, <1>9, <2>2 DEF Ordered, Dist
  <2>5. QED
    BY <2>3, <2>4 DEF Order
<1>13. QED
  BY <1>8, <1>10, <1>11, <1>12 DEF IInv

\* The write of the cursor acknowledges the record, and its failure does not.
LEMMA CursorSteps ==
  ASSUME IInv, PersistCursor \/ PersistCursorFails
  PROVE  IInv'
<1>0. TypeOK /\ Shape /\ Kept /\ Order
  BY DEF IInv
<1>1. handle.pc = "cursor" /\ Opened
  BY DEF PersistCursor, PersistCursorFails, Opened
<1>2. /\ file.cap \in 1 .. MaxCapacity /\ handle.cap = file.cap
      /\ Slots \subseteq Indices /\ handle.next \in Slots /\ file.cursor \in Slots
      /\ writes \in Nat /\ acked \subseteq 1 .. writes /\ stray \subseteq 1 .. writes
  BY <1>1, OpenFacts
<1>3. /\ handle'.pc = "open" /\ Opened' /\ handle'.cap = handle.cap /\ handle'.next = handle.next
      /\ UNCHANGED <<writes, stray>>
      /\ handle' \in [pc : {"closed", "create", "open", "cursor"}, cap : 0 .. MaxCapacity,
                      next : Indices]
  BY <1>0 DEF PersistCursor, PersistCursorFails, Opened, TypeOK, ghosts
<1>4. CASE PersistCursorFails
  <2>1. UNCHANGED <<file, acked, ahead>>
    BY <1>4 DEF PersistCursorFails, ghosts
  <2>2. TypeOK'
    BY <1>0, <1>3, <2>1 DEF TypeOK
  <2>3. Shape'
    BY <1>0, <1>1, <1>3, <2>1 DEF Shape, Slots, Opened
  <2>4. Kept' /\ Order'
    BY <1>0, <1>1, <1>3, <2>1 DEF Kept, Order, Ordered, Safe, Dist, Slots
  <2>5. QED
    BY <2>2, <2>3, <2>4 DEF IInv
<1>5. CASE PersistCursor
  <2>1. /\ file'.steps = file.steps /\ file'.cap = file.cap /\ file'.rec = file.rec
        /\ file'.cursor = handle.next /\ acked' = acked \cup {writes} /\ ahead' = {}
    BY <1>0, <1>5 DEF PersistCursor, TypeOK
  <2>2. PICK i \in Slots : /\ file.rec[i] = writes /\ writes > 0
                           /\ Dist(handle.next, i) = file.cap - 1
    BY <1>0, <1>1 DEF Shape
  <2>3. TypeOK'
    <3>1. file' \in [steps : 0 .. CURSOR, cap : 0 .. MaxCapacity, cursor : Indices,
                     rec : [Indices -> BROKEN .. MaxWrites]]
      BY <1>0, <1>2, <1>5 DEF PersistCursor, TypeOK
    <3>2. acked' \subseteq 1 .. writes
      BY <1>2, <2>1, <2>2
    <3>3. QED
      BY <1>0, <1>3, <2>1, <3>1, <3>2 DEF TypeOK
  <2>4. Shape'
    BY <1>0, <1>2, <1>3, <2>1 DEF Shape, Slots, Opened
  <2>5. Kept'
    <3> SUFFICES ASSUME NEW n \in acked', writes - n < file.cap
                 PROVE  \E k \in Slots : /\ file.rec[k] = n
                                         /\ Safe(handle.next, k, n)
      BY <1>3, <2>1 DEF Kept, Safe, Dist, Slots
    <3>1. CASE n \in acked
      BY <1>0, <1>1, <3>1 DEF Kept
    <3>2. CASE n = writes
      BY <1>2, <2>2, <3>2 DEF Safe
    <3>3. QED
      BY <2>1, <3>1, <3>2
  <2>6. Order'
    <3>1. Ordered(handle.next, stray)
      BY <1>0, <1>1 DEF Order
    <3>2. QED
      BY <1>3, <2>1, <3>1 DEF Order, Ordered, Dist, Slots
  <2>7. QED
    BY <2>3, <2>4, <2>5, <2>6 DEF IInv
<1>6. QED
  BY <1>4, <1>5
-----------------------------------------------------------------------------
(* The theorems *)

\* Every step keeps the invariant.
LEMMA StepInv == IInv /\ [Next]_vars => IInv'
<1> SUFFICES ASSUME IInv, [Next]_vars PROVE IInv'
  OBVIOUS
<1>1. CASE UNCHANGED vars
  BY <1>1 DEF vars, ghosts, IInv, TypeOK, Shape, Kept, Order, Ordered, Safe, Dist, Slots, Opened
<1>2. QED
  BY <1>1, HeaderSteps, WriteSteps, CursorSteps DEF Next

\* The invariant holds in every reachable state.
LEMMA Reachable == Spec => []IInv
BY InitInv, StepInv, PTL DEF Spec

\* The header, the handle and the records stay well typed; in particular
\* next_slot and the cursor never leave the log.
THEOREM TypeCorrect == Spec => []TypeOK
<1>1. IInv => TypeOK
  BY DEF IInv
<1>2. QED
  BY <1>1, Reachable, PTL

\* No failure and no crash costs an acknowledged record before the log has
\* gone round (append, open).
THEOREM AcknowledgedSurvives == Spec => []AcknowledgedKept
<1>1. IInv => AcknowledgedKept
  BY DEF IInv, Kept, AcknowledgedKept, Slots
<1>2. QED
  BY <1>1, Reachable, PTL

\* A replay is in the order of the appends but for what a crash left past the
\* cursor (replay_all).
THEOREM ReplayFollowsAppends == Spec => []ReplayOrdered
<1>1. ASSUME IInv PROVE ReplayOrdered
  <2>1. TypeOK /\ Shape /\ Order
    BY <1>1 DEF IInv
  <2> SUFFICES ASSUME file.cap > 0, NEW j \in Slots, NEW k \in Slots, j < k,
                      Live(file.rec[ReplaySlot(Start, j)]), Live(file.rec[ReplaySlot(Start, k)])
               PROVE  file.rec[ReplaySlot(Start, j)] < file.rec[ReplaySlot(Start, k)]
    BY DEF ReplayOrdered, Slots
  <2>2. file.cap \in Nat \ {0}
    BY <2>1 DEF TypeOK
  <2>3. Start \in Slots
    BY <2>1 DEF Start, Shape, Opened
  <2>4. /\ ReplaySlot(Start, j) \in Slots /\ Dist(Start, ReplaySlot(Start, j)) = j
        /\ ReplaySlot(Start, k) \in Slots /\ Dist(Start, ReplaySlot(Start, k)) = k
    BY <2>2, <2>3, ReplayDistance
  <2>5. Ordered(Start, stray)
    <3>1. CASE Opened
      BY <2>1, <3>1 DEF Order, Opened, Start
    <3>2. CASE ~Opened
      <4>1. stray \cup ahead = stray /\ Start = file.cursor
        BY <2>1, <3>2 DEF Shape, Opened, Start
      <4>2. QED
        BY <2>1, <4>1 DEF Order
    <3>3. QED
      BY <3>1, <3>2
  <2>6. QED
    BY <2>4, <2>5 DEF Ordered, Live
<1>2. QED
  BY <1>1, Reachable, PTL
-----------------------------------------------------------------------------
(* What a replay gathers *)

\* A set of naturals that is not empty has a least element: induction over the
\* slots a replay reads is an argument about the first one that is wrong.
LEMMA LeastNatural ==
  ASSUME NEW T \in SUBSET Nat, T # {}
  PROVE  \E n \in T : \A m \in T : n <= m
<1>1. \E n \in T : \A m \in T : ~(<<m, n>> \in OpToRel(<, Nat))
  BY NatLessThanWellFounded, WFMin, Zenon
<1>2. \A m, n \in Nat : m < n => <<m, n>> \in OpToRel(<, Nat)
  BY DEF OpToRel
<1>3. \E n \in T : \A m \in T : ~(m < n)
  BY <1>1, <1>2, Zenon
<1>4. QED
  BY <1>3

\* Sequences with the same elements are equal.
LEMMA SeqSame ==
  ASSUME NEW S, NEW a \in Seq(S), NEW b \in Seq(S), Len(a) = Len(b),
         \A k \in 1 .. Len(a) : a[k] = b[k]
  PROVE  a = b
<1>1. a \in [1 .. Len(a) -> S] /\ b \in [1 .. Len(a) -> S]
  OBVIOUS
<1>2. QED
  BY <1>1

\* A subsequence that ends before it begins is empty.
LEMMA SubSeqNone ==
  ASSUME NEW S, NEW a \in Seq(S), NEW m \in Int, NEW n \in Int, n < m
  PROVE  SubSeq(a, m, n) = <<>>
OBVIOUS

\* What is behind the first element.
LEMMA TailFacts ==
  ASSUME NEW S, NEW a \in Seq(S), a # <<>>
  PROVE  /\ Tail(a) \in Seq(S) /\ Len(a) \in Nat \ {0} /\ Len(Tail(a)) = Len(a) - 1
         /\ \A k \in 1 .. Len(Tail(a)) : Tail(a)[k] = a[k + 1]
         /\ \A k \in 1 .. Len(a) : a[k] \in S
OBVIOUS

\* The slots in the order in which a replay from slot x reads them.
Scan(x) == [k \in 1 .. file.cap |-> file.rec[ReplaySlot(x, k - 1)]]

\* When the records of S come after all others, a replay gathers the rest of
\* the log from the first of them on.
LEMMA GatherSuffix ==
  ASSUME file.cap \in Nat, NEW x, NEW S, NEW E, Scan(x) \in Seq(E),
         NEW g \in 0 .. file.cap,
         \A k \in 1 .. g : Scan(x)[k] \notin S,
         \A k \in g + 1 .. file.cap : Scan(x)[k] \in S
  PROVE  Gather(x, S) = SubSeq(Scan(x), g + 1, file.cap)
<1> DEFINE c == file.cap
           s == Scan(x)
           Pass(f, k) == IF k = 0 THEN <<>>
                         ELSE IF s[k] \in S THEN Append(f[k - 1], s[k]) ELSE f[k - 1]
           G(f) == [k \in 0 .. c |-> Pass(f, k)]
           W == [k \in 0 .. c |-> SubSeq(s, g + 1, k)]
           F == CHOOSE f : f = G(f)
<1>1. s \in Seq(E) /\ Len(s) = c /\ c \in Nat /\ \A k \in 1 .. c : s[k] \in E
  BY DEF Scan
<1>2. Gather(x, S) = F[c]
  <2> DEFINE H(f) == [k \in 0 .. file.cap |->
                        IF k = 0 THEN <<>>
                        ELSE LET r == file.rec[ReplaySlot(x, k - 1)]
                             IN  IF r \in S THEN Append(f[k - 1], r) ELSE f[k - 1]]
  <2>1. Gather(x, S) = (CHOOSE f : f = H(f))[file.cap]
    BY DEF Gather
  <2>2. \A k \in 1 .. c : s[k] = file.rec[ReplaySlot(x, k - 1)]
    BY DEF Scan
  <2>3. ASSUME NEW f PROVE G(f) = H(f)
    <3> HIDE DEF s
    <3>1. \A k \in 0 .. c : G(f)[k] = H(f)[k]
      BY <2>2
    <3>2. QED
      BY <3>1, Zenon
  <2> HIDE DEF G, H
  <2>4. \A f : f = G(f) <=> f = H(f)
    BY <2>3
  <2>5. (CHOOSE f : f = G(f)) = (CHOOSE f : f = H(f))
    BY <2>4
  <2>6. QED
    BY <2>1, <2>5, Zenon
<1> HIDE DEF s, c
<1>3. \A k \in 0 .. c : W[k] = Pass(W, k)
  <2> SUFFICES ASSUME NEW k \in 0 .. c PROVE SubSeq(s, g + 1, k) = Pass(W, k)
    BY Zenon
  <2>1. g \in 0 .. c
    BY DEF c
  <2>2. CASE k = 0
    BY <2>1, <2>2, <1>1, SubSeqNone
  <2>3. CASE k # 0 /\ k <= g
    <3>1. SubSeq(s, g + 1, k) = <<>> /\ SubSeq(s, g + 1, k - 1) = <<>>
      BY <1>1, <2>1, <2>3, SubSeqNone
    <3>2. s[k] \notin S /\ k - 1 \in 0 .. c
      BY <1>1, <2>3 DEF s, c
    <3>3. QED
      BY <2>3, <3>1, <3>2
  <2>4. CASE k > g
    <3>1. SubSeq(s, g + 1, k) = Append(SubSeq(s, g + 1, k - 1), s[k])
      BY <1>1, <2>1, <2>4
    <3>2. s[k] \in S /\ k - 1 \in 0 .. c /\ k # 0
      BY <1>1, <2>1, <2>4 DEF s, c
    <3>3. W[k - 1] = SubSeq(s, g + 1, k - 1)
      BY <3>2
    <3> HIDE DEF W
    <3>4. QED
      BY <3>1, <3>2, <3>3
  <2>5. k = 0 \/ (k # 0 /\ k <= g) \/ k > g
    BY <1>1, <2>1
  <2>6. QED
    BY <2>2, <2>3, <2>4, <2>5, Zenon
<1>4. W = G(W)
  BY <1>3, Zenon
<1>5. F = G(F)
  BY <1>4, Zenon
<1> HIDE DEF F
<1>6. \A k \in 0 .. c : F[k] = Pass(F, k)
  BY <1>5, Zenon
<1> HIDE DEF W
<1>7. \A k \in 0 .. c : F[k] = W[k]
  <2> DEFINE Bad == {k \in 0 .. c : F[k] # W[k]}
  <2>1. SUFFICES ASSUME Bad # {} PROVE FALSE
    OBVIOUS
  <2>2. Bad \in SUBSET Nat
    BY <1>1
  <2>3. PICK k \in Bad : \A m \in Bad : k <= m
    <3> HIDE DEF Bad
    <3>1. QED
      BY <2>1, <2>2, LeastNatural
  <2>4. k # 0
    BY <1>3, <1>6
  <2>5. F[k - 1] = W[k - 1]
    <3>1. k - 1 \in 0 .. c /\ ~(k <= k - 1)
      BY <1>1, <2>4
    <3>2. QED
      BY <2>3, <3>1
  <2>6. F[k] = Pass(F, k) /\ W[k] = Pass(W, k)
    BY <1>3, <1>6
  <2>7. QED
    BY <2>5, <2>6
<1>8. F[c] = W[c]
  BY <1>1, <1>7
<1>9. QED
  BY <1>1, <1>2, <1>8 DEF W, c, s
-----------------------------------------------------------------------------
(* The gaps of the log *)

\* Whole, and not in S.
Counts(r, S) == r > 0 /\ r \notin S

\* From slot x on, the slots whose record does not count come first.
GapsFirst(x, S) ==
  \A i, j \in Slots :
    (Dist(x, i) < Dist(x, j) /\ Counts(file.rec[i], S)) => Counts(file.rec[j], S)

\* For the open log, and for the log as it would be opened again.  The slots
\* between the cursor and next_slot are gaps then, because their records are
\* ahead of the cursor; those are the newest ones, and nobody was told that
\* they are written.
Packed ==
  /\ GapsFirst(file.cursor, stray \cup ahead)
  /\ Opened => /\ GapsFirst(handle.next, stray)
               /\ \A i \in Slots : Dist(file.cursor, i) < Dist(file.cursor, handle.next)
                                     => ~Counts(file.rec[i], stray \cup ahead)
  /\ \A i \in Slots : Counts(file.rec[i], stray \cup ahead) => \A n \in ahead : file.rec[i] < n
  /\ acked \cap (stray \cup ahead) = {} /\ ahead \cap stray = {}
  /\ handle.pc = "cursor" => writes \in ahead

\* Where a log is opened, or would be.
LEMMA HeaderPacked ==
  ASSUME IInv, Packed, (\E c \in Capacities : OpenFresh(c)) \/ CreateStep \/ Created
                       \/ OpenExisting \/ Crash
  PROVE  Packed'
<1>0. TypeOK /\ Shape
  BY DEF IInv
<1>1. ASSUME NEW c \in Capacities, OpenFresh(c) PROVE Packed'
  <2>1. /\ file'.cap = file.cap /\ file'.cursor = file.cursor /\ file'.rec = file.rec
        /\ UNCHANGED <<writes, acked, ahead, stray>> /\ handle'.pc = "create"
    BY <1>0, <1>1 DEF OpenFresh, TypeOK, ghosts
  <2>2. QED
    BY <2>1 DEF Packed, GapsFirst, Counts, Opened, Slots, Dist
<1>2. CASE CreateStep
  <2>1. UNCHANGED <<handle, writes, acked, ahead, stray>> /\ handle.pc = "create"
    BY <1>2 DEF CreateStep, ghosts
  <2>2. /\ file'.cursor = file.cursor /\ file'.rec = file.rec
        /\ file'.cap = IF file.steps + 1 = CAPACITY THEN handle.cap ELSE file.cap
    BY <1>0, <1>2 DEF CreateStep, TypeOK
  <2>3. ~Opened' /\ ahead = {}
    BY <1>0, <2>1 DEF Opened, Shape
  <2>4. CASE file.steps + 1 = CAPACITY
    <3>1. file.cap = 0 /\ handle.cap \in Capacities
      BY <1>0, <2>1, <2>4 DEF Shape, CAPACITY, TypeOK
    <3>2. \A i \in Slots' : file'.rec[i] = 0
      BY <1>0, <2>2, <2>4, <3>1, MaxCapacityAssumption
         DEF Shape, EMPTY, Slots, Indices, Capacities
    <3>3. \A i \in Slots' : \A S : ~Counts(file'.rec[i], S)
      BY <3>2 DEF Counts
    <3>4. QED
      BY <2>1, <2>3, <3>3 DEF Packed, GapsFirst
  <2>5. CASE file.steps + 1 # CAPACITY
    BY <2>1, <2>2, <2>3, <2>5 DEF Packed, GapsFirst, Counts, Slots, Dist
  <2>6. QED
    BY <2>4, <2>5
<1>3. ASSUME ~Opened, UNCHANGED <<file, writes, acked, ahead, stray>>,
             handle'.pc = "open", handle'.next = file.cursor, file.cap > 0
      PROVE  Packed'
  <2>1. stray \cup ahead = stray
    BY <1>0, <1>3 DEF Shape
  <2>2. file.cap \in Nat /\ file.cursor \in Slots
    BY <1>0, <1>3 DEF TypeOK, Shape
  <2>3. \A i \in Slots : ~(Dist(file.cursor, i) < Dist(file.cursor, file.cursor))
    BY <2>2 DEF Dist, Slots
  <2>4. QED
    BY <1>3, <2>1, <2>3 DEF Packed, GapsFirst, Counts, Slots, Dist
<1>4. CASE Created
  <2>1. /\ UNCHANGED <<file, writes, acked, ahead, stray>> /\ handle.pc = "create"
        /\ file.steps = CURSOR /\ handle'.pc = "open" /\ handle'.next = handle.next
    BY <1>0, <1>4 DEF Created, ghosts, TypeOK
  <2>2. ~Opened /\ file.cap > 0 /\ handle.next = file.cursor
    BY <1>0, <2>1 DEF Shape, Opened, CURSOR, CAPACITY
  <2>3. QED
    BY <1>3, <2>1, <2>2
<1>5. CASE OpenExisting
  <2>1. UNCHANGED <<file, writes, acked, ahead, stray>> /\ ~Opened /\ file.cap > 0
    BY <1>0, <1>5 DEF OpenExisting, ghosts, Opened, Shape
  <2>2. handle'.pc = "open" /\ handle'.next = file.cursor
    BY <1>0, <1>5, <2>1, CursorInside DEF OpenExisting
  <2>3. QED
    BY <1>3, <2>1, <2>2
<1>6. CASE Crash
  <2>1. /\ UNCHANGED <<file, writes, acked>> /\ handle'.pc = "closed"
        /\ stray' = stray \cup ahead /\ ahead' = {}
    BY <1>6 DEF Crash, Closed
  <2>2. ~Opened' /\ stray' \cup ahead' = stray \cup ahead
    BY <2>1 DEF Opened
  <2>3. QED
    BY <2>1, <2>2 DEF Packed, GapsFirst, Counts, Slots, Dist
<1>7. QED
  BY <1>1, <1>2, <1>4, <1>5, <1>6

\* The write of the cursor moves the log's end behind the new records.
LEMMA CursorPacked ==
  ASSUME IInv, Packed, PersistCursor \/ PersistCursorFails
  PROVE  Packed'
<1>0. TypeOK /\ Shape
  BY DEF IInv
<1>1. handle.pc = "cursor" /\ Opened
  BY DEF PersistCursor, PersistCursorFails, Opened
<1>2. file.cap \in Nat /\ handle.next \in Slots
  BY <1>0, <1>1 DEF TypeOK, Shape
<1>3. handle'.pc = "open" /\ Opened' /\ handle'.next = handle.next /\ UNCHANGED <<writes, stray>>
  BY <1>0 DEF PersistCursor, PersistCursorFails, Opened, TypeOK, ghosts
<1>4. CASE PersistCursorFails
  <2>1. UNCHANGED <<file, acked, ahead>>
    BY <1>4 DEF PersistCursorFails, ghosts
  <2>2. QED
    BY <1>1, <1>3, <2>1 DEF Packed, GapsFirst, Counts, Slots, Dist
<1>5. CASE PersistCursor
  <2>1. /\ file'.cap = file.cap /\ file'.rec = file.rec /\ file'.cursor = handle.next
        /\ acked' = acked \cup {writes} /\ ahead' = {}
    BY <1>0, <1>5 DEF PersistCursor, TypeOK
  <2>2. writes \in ahead /\ writes \notin stray
    BY <1>1 DEF Packed
  <2>3. stray' \cup ahead' = stray
    BY <1>3, <2>1
  <2>4. \A i \in Slots : ~(Dist(handle.next, i) < Dist(handle.next, handle.next))
    BY <1>2 DEF Dist, Slots
  <2>5. GapsFirst(handle.next, stray)
    BY <1>1 DEF Packed
  <2>6. acked' \cap stray = {}
    BY <2>1, <2>2 DEF Packed
  <2>7. QED
    BY <1>3, <2>1, <2>3, <2>4, <2>5, <2>6 DEF Packed, GapsFirst, Counts, Slots, Dist
<1>6. QED
  BY <1>4, <1>5

\* A record write leaves no gap behind a record that counts.
LEMMA WritePacked ==
  ASSUME IInv, Packed, WriteRecord \/ WriteRecordFails
  PROVE  Packed'
<1> DEFINE x == handle.next
           y == handle'.next
           c == file.cursor
           w == writes + 1
           old == stray \cup ahead
           new == stray' \cup ahead'
<1>1. PICK v \in BROKEN .. MaxWrites : Wrote(v)
  BY WriteFacts
<1>2. /\ file.cap \in 1 .. MaxCapacity /\ Slots \subseteq Indices /\ x \in Slots /\ c \in Slots
      /\ \A i \in Slots : file.rec[i] \in Int /\ file.rec[i] <= writes
      /\ writes \in Nat /\ acked \subseteq 1 .. writes /\ stray \subseteq 1 .. writes
  BY <1>1, OpenFacts DEF Wrote
<1>3. ahead \subseteq 1 .. writes
  BY DEF IInv, TypeOK
<1>4. /\ Slots' = Slots /\ file'.cap = file.cap /\ file'.cursor = c /\ Opened /\ Opened'
      /\ UNCHANGED <<acked, stray>> /\ writes' = w /\ y \in Slots
      /\ \A i \in Slots : file'.rec[i] = IF i = x THEN v ELSE file.rec[i]
      /\ \A i \in Slots : /\ Dist(x, i) \in 0 .. file.cap - 1 /\ (Dist(x, i) = 0 => i = x)
                          /\ Dist(c, i) \in Int
  BY <1>1, <1>2 DEF Wrote, Slots
<1>5. \/ /\ v = w /\ ahead' = ahead \cup {w} /\ handle'.pc = "cursor"
         /\ y = (x + 1) % file.cap /\ Dist(y, x) = file.cap - 1
         /\ \A i \in Slots \ {x} : Dist(y, i) = Dist(x, i) - 1
      \/ v < 0 /\ ahead' = ahead /\ y = x /\ handle'.pc = "open"
  BY <1>1 DEF Wrote
<1>6. \A i \in Slots : Counts(file'.rec[i], new) <=> i # x /\ Counts(file.rec[i], old)
  BY <1>2, <1>4, <1>5 DEF Counts
<1>7. GapsFirst(c, old) /\ GapsFirst(x, stray)
      /\ (\A i \in Slots : Dist(c, i) < Dist(c, x) => ~Counts(file.rec[i], old))
      /\ (\A i \in Slots : Counts(file.rec[i], old) => \A n \in ahead : file.rec[i] < n)
      /\ acked \cap old = {} /\ ahead \cap stray = {}
  BY <1>4, Zenon DEF Packed
<1>8. \A i, j \in Slots :
        (Dist(c, i) < Dist(c, j) /\ Counts(file'.rec[i], new)) => Counts(file'.rec[j], new)
  BY <1>2, <1>4, <1>6, <1>7, Zenon DEF GapsFirst
<1>9. ASSUME NEW i \in Slots, NEW j \in Slots, Dist(y, i) < Dist(y, j), Counts(file'.rec[i], stray)
      PROVE  Counts(file'.rec[j], stray)
  <2>1. CASE v = w
    <3>1. j = x => Counts(file'.rec[j], stray)
      BY <1>2, <1>4, <2>1 DEF Counts
    <3>2. i # x
      BY <1>2, <1>4, <1>5, <1>9, <2>1
    <3>3. j # x => Dist(x, i) < Dist(x, j)
      BY <1>2, <1>4, <1>5, <1>9, <2>1, <3>2
    <3>4. QED
      BY <1>4, <1>7, <1>9, <3>1, <3>2, <3>3 DEF GapsFirst, Counts
  <2>2. CASE v < 0
    <3>1. i # x
      BY <1>4, <1>9, <2>2 DEF Counts
    <3>2. j # x
      <4>1. Dist(x, x) = 0 /\ y = x
        BY <1>2, <1>5, <2>2 DEF Dist, Slots
      <4>2. QED
        BY <1>2, <1>4, <1>9, <4>1
    <3>3. QED
      BY <1>2, <1>4, <1>5, <1>7, <1>9, <2>2, <3>1, <3>2 DEF GapsFirst, Counts
  <2>3. QED
    BY <1>2, <1>5, <2>1, <2>2
<1>10. ASSUME NEW i \in Slots, Dist(c, i) < Dist(c, y)
       PROVE  ~Counts(file'.rec[i], new)
  <2>1. CASE i = x
    BY <1>6, <2>1
  <2>2. CASE i # x
    <3>1. Dist(c, i) < Dist(c, x)
      <4>1. CASE v < 0
        BY <1>2, <1>5, <1>10, <4>1
      <4>2. CASE v = w
        <5>1. y = IF x + 1 < file.cap THEN x + 1 ELSE 0
          BY <1>2, <1>5, <4>2, SlotAfter
        <5>2. QED
          BY <1>2, <1>10, <2>2, <5>1 DEF Dist, Slots
      <4>3. QED
        BY <1>5, <4>1, <4>2
    <3>2. QED
      BY <1>6, <1>7, <3>1
  <2>3. QED
    BY <2>1, <2>2
<1>11. \A i \in Slots : Counts(file'.rec[i], new) => \A n \in ahead' : file'.rec[i] < n
  <2> SUFFICES ASSUME NEW i \in Slots, Counts(file'.rec[i], new), NEW n \in ahead'
               PROVE  file'.rec[i] < n
    OBVIOUS
  <2>1. file'.rec[i] = file.rec[i] /\ Counts(file.rec[i], old)
    BY <1>4, <1>6, Zenon
  <2>2. n \in ahead \/ n = w
    BY <1>5
  <2>3. QED
    BY <1>2, <1>7, <2>1, <2>2
<1>12. acked \cap new = {} /\ ahead' \cap stray = {} /\ (handle'.pc = "cursor" => w \in ahead')
  <2>1. w \notin acked /\ w \notin stray
    BY <1>2
  <2>2. stray' = stray
    BY <1>4
  <2>3. CASE ahead' = ahead \cup {w}
    BY <1>7, <2>1, <2>2, <2>3
  <2>4. CASE ahead' = ahead /\ handle'.pc = "open"
    BY <1>7, <2>2, <2>4
  <2>5. QED
    BY <1>5, <2>3, <2>4
<1>13. GapsFirst(file.cursor, stray \cup ahead)'
  BY <1>4, <1>8, Zenon DEF GapsFirst, Dist
<1>14. GapsFirst(handle.next, stray)'
  BY <1>4, <1>9 DEF GapsFirst, Dist
<1>15. \A i \in Slots' : Dist(file.cursor, i)' < Dist(file.cursor, handle.next)'
                           => ~Counts(file'.rec[i], new)
  BY <1>4, <1>10, Zenon DEF Dist
<1>16. QED
  BY <1>4, <1>11, <1>12, <1>13, <1>14, <1>15 DEF Packed, Counts

\* Every step keeps the gaps together.
LEMMA StepPacked == IInv /\ Packed /\ [Next]_vars => Packed'
<1> SUFFICES ASSUME IInv, Packed, [Next]_vars PROVE Packed'
  OBVIOUS
<1>1. CASE UNCHANGED vars
  BY <1>1 DEF vars, ghosts, Packed, GapsFirst, Counts, Dist, Slots, Opened
<1>2. QED
  BY <1>1, HeaderPacked, WritePacked, CursorPacked DEF Next

\* There are none at first.
LEMMA InitPacked == Init => Packed
BY DEF Init, Packed, GapsFirst, Counts, Opened, Closed, Slots

\* The gaps are together in every reachable state.
LEMMA ReachablePacked == Spec => [](IInv /\ Packed)
BY InitPacked, InitInv, StepInv, StepPacked, PTL DEF Spec
-----------------------------------------------------------------------------
(* Increasing sequences *)

Increasing(s) == \A i, j \in 1 .. Len(s) : i < j => s[i] < s[j]
Elements(s) == {s[k] : k \in 1 .. Len(s)}

\* An increasing sequence whose elements are the smallest ones of another is
\* the beginning of that one.
LEMMA IncreasingPrefix ==
  ASSUME NEW a \in Seq(Int), NEW b \in Seq(Int), Increasing(a), Increasing(b),
         Elements(b) \subseteq Elements(a),
         \A m \in Elements(a) \ Elements(b), n \in Elements(b) : n < m
  PROVE  Len(b) <= Len(a) /\ \A k \in 1 .. Len(b) : b[k] = a[k]
<1> DEFINE Bad == {k \in 1 .. Len(b) : k > Len(a) \/ b[k] # a[k]}
<1>1. /\ Len(a) \in Nat /\ Len(b) \in Nat
      /\ \A k \in 1 .. Len(a) : a[k] \in Int
      /\ \A k \in 1 .. Len(b) : b[k] \in Int
  OBVIOUS
<1>2. SUFFICES Bad = {}
  <2>1. ASSUME Bad = {}, NEW k \in 1 .. Len(b) PROVE k <= Len(a) /\ b[k] = a[k]
    <3>1. k \notin Bad
      BY <2>1
    <3>2. QED
      BY <1>1, <3>1
  <2>2. ASSUME Bad = {} PROVE Len(b) <= Len(a)
    <3>1. CASE Len(b) = 0
      BY <1>1, <3>1
    <3>2. CASE Len(b) # 0
      <4>1. Len(b) \in 1 .. Len(b)
        BY <1>1, <3>2
      <4>2. QED
        BY <2>1, <2>2, <4>1
    <3>3. QED
      BY <3>1, <3>2
  <2>3. QED
    BY <2>1, <2>2
<1>3. SUFFICES ASSUME Bad # {} PROVE FALSE
  OBVIOUS
<1>4. Bad \in SUBSET Nat
  BY <1>1
<1>5. PICK k \in Bad : \A m \in Bad : k <= m
  <2> HIDE DEF Bad
  <2>1. QED
    BY <1>3, <1>4, LeastNatural, Zenon
<1>6. k \in 1 .. Len(b) /\ (k > Len(a) \/ b[k] # a[k])
  OBVIOUS
<1>7. \A j \in 1 .. k - 1 : j \in 1 .. Len(a) /\ j \in 1 .. Len(b) /\ a[j] = b[j]
  BY <1>1, <1>5
<1>8. PICK m \in 1 .. Len(a) : a[m] = b[k]
  BY <1>6, Zenon DEF Elements
<1>9. m >= k
  <2>1. CASE m < k
    <3>1. a[m] = b[m] /\ b[m] < b[k]
      BY <1>1, <1>6, <1>7, <2>1 DEF Increasing
    <3>2. QED
      BY <1>1, <1>6, <1>8, <3>1
  <2>2. QED
    BY <1>1, <1>6, <2>1
<1>10. k \in 1 .. Len(a) /\ b[k] # a[k] /\ m > k
  BY <1>1, <1>6, <1>8, <1>9
<1>11. a[k] < b[k]
  BY <1>8, <1>10 DEF Increasing
<1>12. a[k] \in Elements(a) /\ b[k] \in Elements(b)
  BY <1>6, <1>10 DEF Elements
<1>13. CASE a[k] \notin Elements(b)
  BY <1>1, <1>6, <1>10, <1>11, <1>12, <1>13
<1>14. CASE a[k] \in Elements(b)
  <2>1. PICK j \in 1 .. Len(b) : b[j] = a[k]
    BY <1>14 DEF Elements
  <2>2. j < k
    <3>1. CASE j > k
      <4>1. b[k] < b[j]
        BY <1>6, <3>1 DEF Increasing
      <4>2. QED
        BY <1>1, <1>6, <1>11, <2>1, <4>1
    <3>2. j # k
      BY <1>10, <2>1
    <3>3. QED
      BY <1>1, <1>6, <3>1, <3>2
  <2>3. a[j] = a[k] /\ a[j] < a[k]
    BY <1>1, <1>7, <1>10, <2>1, <2>2 DEF Increasing
  <2>4. QED
    BY <1>1, <1>10, <2>3
<1>15. QED
  BY <1>13, <1>14

\* Increasing sequences with the same elements are the same.
LEMMA IncreasingUnique ==
  ASSUME NEW a \in Seq(Int), NEW b \in Seq(Int), Increasing(a), Increasing(b),
         Elements(a) = Elements(b)
  PROVE  a = b
<1>1. Len(b) <= Len(a) /\ \A k \in 1 .. Len(b) : b[k] = a[k]
  BY IncreasingPrefix
<1>2. Len(a) <= Len(b)
  BY IncreasingPrefix
<1>3. Len(a) = Len(b)
  BY <1>1, <1>2
<1>4. QED
  BY <1>1, <1>3, SeqSame

\* A larger element behind an increasing sequence.
LEMMA IncreasingAppend ==
  ASSUME NEW a \in Seq(Int), NEW n \in Int, Increasing(a), \A m \in Elements(a) : m < n
  PROVE  /\ Append(a, n) \in Seq(Int) /\ Increasing(Append(a, n))
         /\ Elements(Append(a, n)) = Elements(a) \cup {n}
<1> DEFINE b == Append(a, n)
<1>1. /\ b \in Seq(Int) /\ Len(b) = Len(a) + 1 /\ Len(a) \in Nat
      /\ \A k \in 1 .. Len(a) : b[k] = a[k] /\ a[k] \in Int
      /\ b[Len(a) + 1] = n
  OBVIOUS
<1> HIDE DEF b
<1>2. \A k \in 1 .. Len(a) : a[k] < n
  BY DEF Elements
<1>3. Increasing(b)
  <2> SUFFICES ASSUME NEW i \in 1 .. Len(b), NEW j \in 1 .. Len(b), i < j PROVE b[i] < b[j]
    BY DEF Increasing
  <2>1. i \in 1 .. Len(a) /\ b[i] = a[i]
    BY <1>1
  <2>2. CASE j = Len(a) + 1
    BY <1>1, <1>2, <2>1, <2>2
  <2>3. CASE j # Len(a) + 1
    <3>0. Len(b) = Len(a) + 1 /\ Len(a) \in Nat
      BY <1>1
    <3>1. j \in 1 .. Len(a)
      BY <2>3, <3>0
    <3>2. b[j] = a[j]
      BY <1>1, <3>1
    <3>3. QED
      BY <2>1, <3>1, <3>2 DEF Increasing
  <2>4. QED
    BY <2>2, <2>3
<1>4. Elements(b) = Elements(a) \cup {n}
  <2>1. 1 .. Len(b) = (1 .. Len(a)) \cup {Len(a) + 1}
    BY <1>1
  <2>2. \A k \in 1 .. Len(a) : b[k] = a[k]
    BY <1>1
  <2>3. Elements(b) = {b[k] : k \in 1 .. Len(a)} \cup {b[Len(a) + 1]}
    BY <2>1 DEF Elements
  <2>4. {b[k] : k \in 1 .. Len(a)} = Elements(a)
    BY <2>2 DEF Elements
  <2>5. QED
    BY <1>1, <2>3, <2>4
<1>5. QED
  BY <1>1, <1>3, <1>4 DEF b

\* Without its first element an increasing sequence has all but the smallest.
LEMMA IncreasingTail ==
  ASSUME NEW a \in Seq(Int), a # <<>>, Increasing(a)
  PROVE  /\ Tail(a) \in Seq(Int) /\ Increasing(Tail(a))
         /\ Elements(Tail(a)) = Elements(a) \ {a[1]}
<1> DEFINE b == Tail(a)
<1>1. /\ b \in Seq(Int) /\ Len(a) \in Nat \ {0} /\ Len(b) = Len(a) - 1
      /\ \A k \in 1 .. Len(b) : b[k] = a[k + 1]
      /\ \A k \in 1 .. Len(a) : a[k] \in Int
  BY TailFacts
<1> HIDE DEF b
<1>2. Increasing(b)
  <2> SUFFICES ASSUME NEW i \in 1 .. Len(b), NEW j \in 1 .. Len(b), i < j PROVE b[i] < b[j]
    BY DEF Increasing
  <2>1. i + 1 \in 1 .. Len(a) /\ j + 1 \in 1 .. Len(a) /\ i + 1 < j + 1
    BY <1>1
  <2>2. a[i + 1] < a[j + 1]
    BY <2>1 DEF Increasing
  <2>3. QED
    BY <1>1, <2>2
<1>3. \A k \in 1 .. Len(a) : a[k] = a[1] => k = 1
  <2> SUFFICES ASSUME NEW k \in 1 .. Len(a), k # 1 PROVE a[k] # a[1]
    OBVIOUS
  <2>1. 1 \in 1 .. Len(a) /\ 1 < k
    BY <1>1
  <2>2. a[1] < a[k]
    BY <2>1 DEF Increasing
  <2>3. QED
    BY <1>1, <2>1, <2>2
<1>4. ASSUME NEW m PROVE m \in Elements(b) <=> m \in Elements(a) \ {a[1]}
  <2>1. ASSUME m \in Elements(b) PROVE m \in Elements(a) \ {a[1]}
    <3>1. PICK k \in 1 .. Len(b) : m = b[k]
      BY <2>1 DEF Elements
    <3>2. m = a[k + 1] /\ k + 1 \in 1 .. Len(a) /\ k + 1 # 1
      BY <1>1, <3>1
    <3>3. QED
      BY <1>3, <3>2 DEF Elements
  <2>2. ASSUME m \in Elements(a) \ {a[1]} PROVE m \in Elements(b)
    <3>1. PICK k \in 1 .. Len(a) : m = a[k] /\ k # 1
      BY <2>2 DEF Elements
    <3>2. k - 1 \in 1 .. Len(b) /\ b[k - 1] = m
      BY <1>1, <3>1
    <3>3. QED
      BY <3>2 DEF Elements
  <2>3. QED
    BY <2>1, <2>2
<1>5. QED
  BY <1>1, <1>2, <1>4 DEF b
-----------------------------------------------------------------------------
(* The log as a sequence *)

\* What stands for the log of CircularLog.
Log == Gather(Start, LiveRecords)

\* The records of that log.
LiveIn == {r \in LiveRecords : \E i \in Slots : file.rec[i] = r}

\* The log is the sequence of its records in the order of their numbers, and
\* it is full exactly when the slot that is written next holds one of them.
LogInv ==
  /\ Log \in Seq(Int) /\ Increasing(Log) /\ Elements(Log) = LiveIn
  /\ file.cap \in Nat
  /\ file.cap > 0 =>
       /\ Start \in Slots
       /\ file.rec[Start] \in LiveRecords => Len(Log) = file.cap /\ Log[1] = file.rec[Start]
       /\ Len(Log) = file.cap => file.rec[Start] \in LiveRecords

\* Every slot is the one a replay reads as many slots after its first as it is
\* away from it.
LEMMA SlotAtDistance ==
  ASSUME file.cap \in Nat \ {0}, NEW x \in Slots, NEW i \in Slots
  PROVE  Dist(x, i) \in Slots /\ ReplaySlot(x, Dist(x, i)) = i
<1>1. Dist(x, i) \in Slots
  BY DEF Dist, Slots
<1>2. /\ ReplaySlot(x, Dist(x, i)) \in Slots
      /\ Dist(x, ReplaySlot(x, Dist(x, i))) = Dist(x, i)
  BY <1>1, ReplayDistance
<1> DEFINE y == ReplaySlot(x, Dist(x, i))
<1> HIDE DEF y
<1>3. y \in Slots /\ Dist(x, y) = Dist(x, i)
  BY <1>2 DEF y
<1>4. y = i
  BY <1>3 DEF Dist, Slots
<1>5. QED
  BY <1>1, <1>4 DEF y

\* Where a replay starts, the gaps come first and the records are in order.
LEMMA StartFacts ==
  ASSUME IInv, Packed, file.cap > 0
  PROVE  /\ file.cap \in Nat \ {0} /\ Slots \subseteq Indices /\ Start \in Slots
         /\ \A i \in Slots : file.rec[i] \in Int /\ file.rec[i] <= writes
         /\ writes \in Nat /\ stray \subseteq 1 .. writes
         /\ Ordered(Start, stray) /\ GapsFirst(Start, stray)
<1>0. TypeOK /\ Shape /\ Order
  BY DEF IInv
<1>1. file.cap \in 1 .. MaxCapacity
  BY <1>0 DEF TypeOK
<1>2. Slots \subseteq Indices
  BY <1>1, MaxCapacityAssumption DEF Slots, Indices
<1>3. \A i \in Indices : file.rec[i] \in Int
  BY <1>0, MaxWritesAssumption DEF TypeOK, BROKEN
<1>4. /\ \A i \in Slots : file.rec[i] \in Int /\ file.rec[i] <= writes
      /\ writes \in Nat /\ stray \subseteq 1 .. writes
  BY <1>0, <1>2, <1>3 DEF Shape, TypeOK
<1>5. CASE Opened
  <2>1. Start = handle.next
    BY <1>5 DEF Start, Opened
  <2>2. QED
    BY <1>0, <1>1, <1>2, <1>4, <1>5, <2>1 DEF Shape, Order, Packed
<1>6. CASE ~Opened
  <2>1. Start = file.cursor
    BY <1>6 DEF Start, Opened
  <2>2. stray \cup ahead = stray
    BY <1>0, <1>6 DEF Shape
  <2>3. QED
    BY <1>0, <1>1, <1>2, <1>4, <2>1, <2>2 DEF Shape, Order, Packed
<1>7. QED
  BY <1>5, <1>6

\* The facts follow from the invariants of the log.
LEMMA LogFacts == IInv /\ Packed => LogInv
<1> SUFFICES ASSUME IInv, Packed PROVE LogInv
  OBVIOUS
<1> DEFINE c == file.cap
           s == Scan(Start)
<1>0. c \in Nat
  BY DEF IInv, TypeOK
<1>1. CASE c = 0
  <2>1. s \in Seq(Int) /\ Len(s) = 0
    BY <1>1 DEF Scan
  <2>2. Log = SubSeq(s, 1, 0)
    <3>1. /\ 0 \in 0 .. c /\ 0 + 1 = 1
          /\ \A k \in 1 .. 0 : s[k] \notin LiveRecords
          /\ \A k \in 0 + 1 .. c : s[k] \in LiveRecords
      BY <1>1
    <3>2. Gather(Start, LiveRecords) = SubSeq(s, 0 + 1, c)
      BY <1>0, <2>1, <3>1, GatherSuffix, Zenon
    <3>3. QED
      BY <1>1, <3>2 DEF Log
  <2>3. Log = <<>>
    BY <2>1, <2>2
  <2>4. LiveIn = {}
    BY <1>1 DEF LiveIn, Slots
  <2>5. QED
    BY <1>1, <2>3, <2>4 DEF LogInv, Increasing, Elements
<1>2. CASE c > 0
  <2>1. /\ c \in Nat \ {0} /\ Start \in Slots /\ \A i \in Slots : file.rec[i] \in Int
        /\ writes \in Nat /\ Ordered(Start, stray) /\ GapsFirst(Start, stray)
    BY <1>2, StartFacts
  <2>2. \A i \in Slots : file.rec[i] \in LiveRecords <=> Counts(file.rec[i], stray)
    BY <1>2, StartFacts DEF LiveRecords, Counts
  <2> DEFINE at(k) == ReplaySlot(Start, k - 1)
  <2>3. \A k \in 1 .. c : /\ at(k) \in Slots /\ Dist(Start, at(k)) = k - 1
                          /\ s[k] = file.rec[at(k)]
    <3>1. \A k \in 1 .. c : k - 1 \in Slots
      BY <2>1 DEF Slots
    <3>2. QED
      BY <2>1, <3>1, ReplayDistance DEF Scan
  <2>4. s \in Seq(Int) /\ Len(s) = c /\ \A k \in 1 .. c : s[k] \in Int
    <3>1. s = [k \in 1 .. c |-> s[k]]
      BY DEF Scan
    <3>2. \A k \in 1 .. c : s[k] \in Int
      BY <2>1, <2>3
    <3> HIDE DEF s
    <3>3. s \in [1 .. c -> Int]
      BY <3>1, <3>2
    <3>4. QED
      BY <2>1, <3>2, <3>3
  <2> HIDE DEF s, at
  <2>5. \A j, k \in 1 .. c : j < k /\ s[j] \in LiveRecords => s[k] \in LiveRecords /\ s[j] < s[k]
    <3> SUFFICES ASSUME NEW j \in 1 .. c, NEW k \in 1 .. c, j < k, s[j] \in LiveRecords
                 PROVE  s[k] \in LiveRecords /\ s[j] < s[k]
      OBVIOUS
    <3>1. at(j) \in Slots /\ at(k) \in Slots /\ Dist(Start, at(j)) < Dist(Start, at(k))
      BY <2>1, <2>3
    <3>2. Counts(s[j], stray) /\ Counts(s[k], stray)
      BY <2>1, <2>2, <2>3, <3>1 DEF GapsFirst
    <3>3. s[j] < s[k]
      BY <2>1, <2>3, <3>1, <3>2 DEF Ordered, Counts
    <3>4. QED
      BY <2>2, <2>3, <3>2, <3>3
  <2>6. PICK g \in 0 .. c : /\ \A k \in 1 .. g : s[k] \notin LiveRecords
                            /\ \A k \in g + 1 .. c : s[k] \in LiveRecords
    <3> DEFINE T == {k \in 0 .. c : \A m \in k + 1 .. c : s[m] \in LiveRecords}
    <3>1. T \in SUBSET Nat /\ c \in T
      BY <2>1
    <3>2. PICK g \in T : \A m \in T : g <= m
      <4> HIDE DEF T
      <4>1. QED
        BY <3>1, LeastNatural
    <3>3. ASSUME NEW k \in 1 .. g PROVE s[k] \notin LiveRecords
      <4>1. CASE s[k] \in LiveRecords
        <5>1. k - 1 \in T
          BY <2>1, <2>5, <4>1
        <5>2. QED
          BY <2>1, <3>2, <5>1
      <4>2. QED
        BY <4>1
    <3>4. QED
      BY <3>2, <3>3
  <2>7. Log = SubSeq(s, g + 1, c)
    BY <2>1, <2>4, <2>6, GatherSuffix, Zenon DEF Log, s
  <2>8. /\ Log \in Seq(Int) /\ Len(Log) = c - g
        /\ \A k \in 1 .. c - g : Log[k] = s[g + k]
    BY <2>1, <2>4, <2>6, <2>7
  <2> HIDE DEF Log
  <2>9. Increasing(Log)
    <3> SUFFICES ASSUME NEW j \in 1 .. Len(Log), NEW k \in 1 .. Len(Log), j < k
                 PROVE  Log[j] < Log[k]
      BY DEF Increasing
    <3>1. Log[j] = s[g + j] /\ Log[k] = s[g + k]
      BY <2>8
    <3>2. /\ g + j \in 1 .. c /\ g + k \in 1 .. c /\ g + j < g + k
          /\ g + j \in g + 1 .. c
      BY <2>1, <2>8
    <3>3. s[g + j] \in LiveRecords
      BY <2>6, <3>2
    <3>4. QED
      BY <2>5, <3>1, <3>2, <3>3
  <2>10. Elements(Log) = LiveIn
    <3>1. ASSUME NEW r \in Elements(Log) PROVE r \in LiveIn
      <4>1. PICK k \in 1 .. Len(Log) : r = Log[k]
        BY <3>1 DEF Elements
      <4>2. r = s[g + k] /\ g + k \in 1 .. c /\ g + k \in g + 1 .. c
        BY <2>1, <2>8, <4>1
      <4>3. QED
        BY <2>3, <2>6, <4>2 DEF LiveIn
    <3>2. ASSUME NEW r \in LiveIn PROVE r \in Elements(Log)
      <4>1. PICK i \in Slots : file.rec[i] = r
        BY <3>2 DEF LiveIn
      <4>2. Dist(Start, i) \in Slots /\ ReplaySlot(Start, Dist(Start, i)) = i
        BY <2>1, SlotAtDistance
      <4> DEFINE m == Dist(Start, i) + 1
      <4>3. m \in 1 .. c /\ m - 1 = Dist(Start, i)
        BY <2>1, <4>2 DEF Slots
      <4>4. s[m] = r
        BY <2>3, <4>1, <4>2, <4>3 DEF at
      <4>5. m \in g + 1 .. c
        <5>1. ~(m \in 1 .. g)
          BY <2>6, <3>2, <4>4 DEF LiveIn
        <5>2. QED
          BY <2>1, <4>3, <5>1
      <4>6. m - g \in 1 .. Len(Log) /\ Log[m - g] = s[m]
        <5>1. m - g \in 1 .. c - g /\ g + (m - g) = m
          BY <2>1, <4>5
        <5>2. QED
          BY <2>8, <5>1
      <4>7. QED
        BY <4>4, <4>6 DEF Elements
    <3>3. QED
      BY <3>1, <3>2
  <2>11. s[1] = file.rec[Start]
    <3>1. at(1) \in Slots /\ Dist(Start, at(1)) = 0
      BY <2>1, <2>3
    <3>2. at(1) = Start
      BY <2>1, <3>1 DEF Dist, Slots
    <3>3. QED
      BY <2>1, <2>3, <3>2
  <2>12. s[1] \in LiveRecords => Len(Log) = c /\ Log[1] = s[1]
    <3> SUFFICES ASSUME s[1] \in LiveRecords PROVE Len(Log) = c /\ Log[1] = s[1]
      OBVIOUS
    <3>1. g = 0
      BY <2>1, <2>6
    <3>2. QED
      BY <2>1, <2>8, <3>1
  <2>13. Len(Log) = c => s[1] \in LiveRecords
    <3> SUFFICES ASSUME Len(Log) = c PROVE s[1] \in LiveRecords
      OBVIOUS
    <3>1. g = 0 /\ 1 \in g + 1 .. c
      BY <2>1, <2>8
    <3>2. QED
      BY <2>6, <3>1
  <2>14. QED
    BY <2>1, <2>8, <2>9, <2>10, <2>11, <2>12, <2>13 DEF LogInv
<1>3. QED
  BY <1>0, <1>1, <1>2
-----------------------------------------------------------------------------
(* The log implements CircularLog *)

\* The same records are the same log.
LEMMA SameLog ==
  ASSUME LogInv, LogInv', LiveIn' = LiveIn
  PROVE  Log' = Log
<1>1. /\ Log \in Seq(Int) /\ Log' \in Seq(Int) /\ Increasing(Log) /\ Increasing(Log')
      /\ Elements(Log) = Elements(Log')
  BY DEF LogInv
<1> HIDE DEF Log
<1>2. QED
  BY <1>1, IncreasingUnique

\* Opening and creating a log, and a failed write of the cursor, do not show;
\* the write of the capacity makes the log, empty.
LEMMA QuietSteps ==
  ASSUME IInv, LogInv, LogInv',
         (\E c \in Capacities : OpenFresh(c)) \/ CreateStep \/ Created \/ OpenExisting
         \/ PersistCursorFails
  PROVE  [CL!Next]_(CL!vars)
<1>0. TypeOK /\ Shape
  BY DEF IInv
<1>1. UNCHANGED <<writes, acked, stray>> /\ file'.rec = file.rec
  BY <1>0, Zenon DEF TypeOK, OpenFresh, CreateStep, Created, OpenExisting, PersistCursorFails, ghosts
<1>2. CASE file'.cap = file.cap
  <2>1. LiveIn' = LiveIn
    BY <1>1, <1>2 DEF LiveIn, LiveRecords, Slots
  <2>2. Log' = Log
    BY <2>1, SameLog
  <2>3. QED
    BY <1>1, <1>2, <2>2 DEF CL!vars, Log
<1>3. CASE file'.cap # file.cap
  <2>0. CreateStep
    BY <1>0, <1>3 DEF TypeOK, OpenFresh, Created, OpenExisting, PersistCursorFails
  <2>1. file.cap = 0 /\ file'.cap \in Capacities
    <3>1. /\ handle.pc = "create"
          /\ file'.cap = IF file.steps + 1 = CAPACITY THEN handle.cap ELSE file.cap
      BY <1>0, <2>0 DEF CreateStep, TypeOK
    <3>2. file.steps + 1 = CAPACITY /\ file'.cap = handle.cap
      BY <1>3, <3>1
    <3>3. QED
      BY <1>0, <3>1, <3>2 DEF Shape, TypeOK, CAPACITY
  <2>2. \A i \in Indices : file.rec[i] = 0
    BY <1>0, <2>1 DEF Shape, EMPTY
  <2>3. Slots \subseteq Indices /\ Slots' \subseteq Indices
    BY <2>1, MaxCapacityAssumption DEF Slots, Indices, Capacities
  <2>4. 0 \notin LiveRecords
    BY DEF LiveRecords
  <2>5. LiveIn = {} /\ LiveIn' = {}
    BY <1>1, <2>2, <2>3, <2>4 DEF LiveIn, LiveRecords
  <2>6. Log' = Log
    BY <2>5, SameLog
  <2>7. CL!Create
    BY <1>1, <2>1, <2>6, MaxCapacityAssumption DEF CL!Create, Log, Capacities
  <2>8. QED
    BY <2>7 DEF CL!Next
<1>4. QED
  BY <1>2, <1>3

\* A crash costs the newest records, which no append has acknowledged.
LEMMA CrashForgets ==
  ASSUME IInv, Packed, LogInv, LogInv', Crash
  PROVE  CL!Forget
<1>0. TypeOK /\ Shape
  BY DEF IInv
<1>1. UNCHANGED <<file, writes, acked>> /\ stray' = stray \cup ahead
  BY DEF Crash
<1>2. LiveIn' = LiveIn \ ahead
  BY <1>1 DEF LiveIn, LiveRecords, Slots
<1>3. \A n \in LiveIn', m \in LiveIn \ LiveIn' : n < m
  <2> SUFFICES ASSUME NEW n \in LiveIn', NEW m \in LiveIn \ LiveIn' PROVE n < m
    OBVIOUS
  <2>1. m \in ahead /\ n \notin ahead /\ n \in LiveIn
    BY <1>2
  <2>2. PICK i \in Slots : file.rec[i] = n
    BY <2>1 DEF LiveIn
  <2>3. Counts(file.rec[i], stray \cup ahead)
    BY <1>0, <2>1, <2>2 DEF LiveIn, LiveRecords, Counts, TypeOK
  <2>4. QED
    BY <2>1, <2>2, <2>3 DEF Packed
<1> DEFINE a == Log
           b == Log'
<1>4. /\ a \in Seq(Int) /\ b \in Seq(Int) /\ Increasing(a) /\ Increasing(b)
      /\ Elements(a) = LiveIn /\ Elements(b) = LiveIn'
  BY DEF LogInv
<1>5. UNCHANGED file.cap
  BY <1>1
<1> HIDE DEF a, b
<1>6. Len(b) <= Len(a) /\ \A k \in 1 .. Len(b) : b[k] = a[k]
  <2>1. Elements(b) \subseteq Elements(a)
    BY <1>2, <1>4
  <2>2. \A m \in Elements(a) \ Elements(b), n \in Elements(b) : n < m
    BY <1>3, <1>4
  <2>3. QED
    BY <1>4, <2>1, <2>2, IncreasingPrefix
<1>7. b = SubSeq(a, 1, Len(b)) /\ Len(b) \in 0 .. Len(a)
  <2>1. Len(a) \in Nat /\ Len(b) \in Nat
    BY <1>4
  <2>2. /\ SubSeq(a, 1, Len(b)) \in Seq(Int) /\ Len(SubSeq(a, 1, Len(b))) = Len(b)
        /\ \A k \in 1 .. Len(b) : SubSeq(a, 1, Len(b))[k] = a[k]
    BY <1>4, <1>6, <2>1
  <2> DEFINE d == SubSeq(a, 1, Len(b))
  <2> HIDE DEF d
  <2>3. d \in Seq(Int) /\ Len(d) = Len(b) /\ \A k \in 1 .. Len(b) : d[k] = b[k]
    BY <1>6, <2>2, Zenon DEF d
  <2>4. b = d
    BY <1>4, <2>3, SeqSame
  <2>5. QED
    BY <1>6, <2>1, <2>4 DEF d
<1>8. ASSUME NEW j \in Len(b) + 1 .. Len(a) PROVE a[j] \notin acked
  <2>0. Len(a) \in Nat /\ Len(b) \in Nat /\ j \in 1 .. Len(a) /\ Len(b) < j
    BY <1>4
  <2>1. a[j] \in LiveIn /\ a[j] \in Int
    BY <1>4, <2>0 DEF Elements
  <2>2. a[j] \notin Elements(b)
    <3> SUFFICES ASSUME NEW m \in 1 .. Len(b), b[m] = a[j] PROVE FALSE
      BY DEF Elements
    <3>1. m \in 1 .. Len(a) /\ m < j /\ a[m] = a[j]
      BY <1>6, <2>0
    <3>2. a[m] < a[j]
      BY <1>4, <2>0, <3>1 DEF Increasing
    <3>3. QED
      BY <2>1, <3>1, <3>2
  <2>3. a[j] \in ahead
    BY <1>2, <1>4, <2>1, <2>2
  <2>4. QED
    BY <2>3 DEF Packed
<1>9. QED
  BY <1>1, <1>5, <1>7, <1>8, Zenon DEF CL!Forget, a, b, Log

\* An append that returns Ok acknowledges the last record of the log.
LEMMA CursorAcknowledges ==
  ASSUME IInv, Packed, LogInv, LogInv', PersistCursor
  PROVE  CL!Acknowledge
<1>0. TypeOK /\ Shape
  BY DEF IInv
<1>1. /\ file'.cap = file.cap /\ file'.rec = file.rec /\ UNCHANGED <<writes, stray>>
      /\ acked' = acked \cup {writes} /\ handle.pc = "cursor"
  BY <1>0 DEF PersistCursor, TypeOK
<1>2. LiveIn' = LiveIn
  BY <1>1 DEF LiveIn, LiveRecords, Slots
<1>3. Log' = Log
  BY <1>2, SameLog
<1>4. writes \in LiveIn
  <2>1. PICK i \in Slots : file.rec[i] = writes /\ writes > 0
    BY <1>0, <1>1 DEF Shape
  <2>2. writes \notin stray
    BY <1>1 DEF Packed
  <2>3. QED
    BY <1>0, <2>1, <2>2 DEF LiveIn, LiveRecords, TypeOK
<1> DEFINE a == Log
<1>5. /\ a \in Seq(Int) /\ Increasing(a) /\ Elements(a) = LiveIn
  BY DEF LogInv
<1>6. \A r \in LiveIn : r <= writes
  BY <1>0 DEF LiveIn, LiveRecords, TypeOK
<1> HIDE DEF a
<1>7. PICK k \in 1 .. Len(a) : a[k] = writes
  BY <1>4, <1>5 DEF Elements
<1>8. Len(a) \in Nat /\ Len(a) \in 1 .. Len(a) /\ a # <<>>
  BY <1>5, <1>7
<1>9. k = Len(a)
  <2>1. CASE k < Len(a)
    <3>1. a[k] < a[Len(a)] /\ a[Len(a)] \in LiveIn
      BY <1>5, <1>7, <1>8, <2>1 DEF Increasing, Elements
    <3>2. a[Len(a)] \in Int /\ writes \in Int
      BY <1>0, <1>5, <1>8 DEF TypeOK
    <3>3. QED
      BY <1>6, <1>7, <3>1, <3>2
  <2>2. QED
    BY <1>7, <1>8, <2>1
<1>10. QED
  BY <1>1, <1>3, <1>7, <1>8, <1>9 DEF CL!Acknowledge, a, Log

\* The record at next_slot, when it is one of the log, is in no other slot: it
\* leaves the log when it is overwritten, and only a whole write adds one.
LEMMA WriteRecords ==
  ASSUME IInv, Packed, NEW v \in BROKEN .. MaxWrites, Wrote(v)
  PROVE  LiveIn' = (LiveIn \ {file.rec[handle.next]})
                   \cup (IF v = writes + 1 THEN {writes + 1} ELSE {})
<1> DEFINE x == handle.next
           w == writes + 1
<1>0. Opened /\ writes' = w /\ stray' = stray /\ Slots' = Slots
  BY DEF Wrote, Slots
<1>1. /\ file.cap \in Nat \ {0} /\ Slots \subseteq Indices /\ Start = x /\ x \in Slots
      /\ \A i \in Slots : file.rec[i] \in Int /\ file.rec[i] <= writes
      /\ writes \in Nat /\ stray \subseteq 1 .. writes /\ Ordered(x, stray)
  <2>1. Start = x
    BY <1>0 DEF Start, Opened
  <2>2. file.cap > 0
    BY <1>0, OpenFacts
  <2>3. QED
    BY <2>1, <2>2, StartFacts
<1>2. \A i \in Slots : file'.rec[i] = IF i = x THEN v ELSE file.rec[i]
  BY <1>1 DEF Wrote
<1>3. v \in Int /\ (v = w \/ v < 0)
  BY MaxWritesAssumption DEF Wrote, BROKEN
<1>4. ASSUME NEW i \in Slots, i # x, file.rec[i] \in LiveRecords PROVE file.rec[i] # file.rec[x]
  <2>1. Dist(x, x) = 0 /\ Dist(x, i) > 0
    BY <1>1, <1>4 DEF Dist, Slots
  <2>2. CASE file.rec[i] = file.rec[x]
    <3>1. /\ file.rec[x] > 0 /\ file.rec[x] \notin stray
          /\ file.rec[i] > 0 /\ file.rec[i] \notin stray
      BY <1>4, <2>2 DEF LiveRecords
    <3>2. file.rec[x] < file.rec[i]
      BY <1>1, <2>1, <3>1 DEF Ordered
    <3>3. QED
      BY <1>1, <2>2, <3>2
  <2>3. QED
    BY <2>2
<1>5. LiveRecords' = LiveRecords \cup {w} /\ w \notin LiveRecords
  BY <1>0, <1>1 DEF LiveRecords
<1>6. ASSUME NEW r \in LiveIn' PROVE r \in LiveIn \ {file.rec[x]} \/ (v = w /\ r = w)
  <2>1. PICK i \in Slots : file'.rec[i] = r
    BY <1>0 DEF LiveIn
  <2>2. r \in LiveRecords \/ r = w
    BY <1>5 DEF LiveIn
  <2>3. CASE i = x
    <3>1. r = v
      BY <1>2, <2>1, <2>3
    <3>2. r > 0
      BY <1>1, <2>2 DEF LiveRecords
    <3>3. QED
      BY <1>3, <3>1, <3>2
  <2>4. CASE i # x
    <3>1. r = file.rec[i] /\ r # w
      BY <1>1, <1>2, <2>1, <2>4
    <3>2. QED
      BY <1>4, <2>2, <2>4, <3>1 DEF LiveIn
  <2>5. QED
    BY <2>3, <2>4
<1>7. ASSUME NEW r \in LiveIn \ {file.rec[x]} PROVE r \in LiveIn'
  <2>1. PICK i \in Slots : file.rec[i] = r
    BY DEF LiveIn
  <2>2. file'.rec[i] = r
    BY <1>2, <2>1
  <2>3. QED
    BY <1>0, <1>5, <2>2 DEF LiveIn
<1>8. ASSUME v = w PROVE w \in LiveIn'
  BY <1>0, <1>1, <1>2, <1>5, <1>8 DEF LiveIn
<1>9. QED
  BY <1>6, <1>7, <1>8

\* A record that is written is added, and the oldest one leaves a full log; a
\* write that fails half-way costs a full log its oldest record.
LEMMA WriteAdds ==
  ASSUME IInv, Packed, LogInv, LogInv', WriteRecord \/ WriteRecordFails
  PROVE  [CL!Next]_(CL!vars)
<1> DEFINE x == handle.next
           w == writes + 1
           a == Log
           b == Log'
           d == IF Len(a) = file.cap THEN Tail(a) ELSE a
<1>1. PICK v \in BROKEN .. MaxWrites : Wrote(v)
  BY WriteFacts
<1>2. UNCHANGED <<acked, file.cap>> /\ Opened /\ file.cap \in Nat \ {0} /\ Start = x
  BY <1>1, OpenFacts DEF Wrote, Start, Opened
<1>3. LiveIn' = (LiveIn \ {file.rec[x]}) \cup (IF v = w THEN {w} ELSE {})
  BY <1>1, WriteRecords
<1>4. /\ a \in Seq(Int) /\ b \in Seq(Int) /\ Increasing(a) /\ Increasing(b)
      /\ Elements(a) = LiveIn /\ Elements(b) = LiveIn'
      /\ file.rec[x] \in LiveRecords => Len(a) = file.cap /\ a[1] = file.rec[x]
      /\ Len(a) = file.cap => file.rec[x] \in LiveRecords
  BY <1>2 DEF LogInv
<1> HIDE DEF a, b
<1>5. d \in Seq(Int) /\ Increasing(d) /\ Elements(d) = LiveIn \ {file.rec[x]}
  <2>1. CASE Len(a) = file.cap
    <3>1. a # <<>>
      BY <1>2, <2>1
    <3>2. QED
      BY <1>4, <2>1, <3>1, IncreasingTail
  <2>2. CASE Len(a) # file.cap
    <3>1. file.rec[x] \notin LiveIn
      BY <1>4, <2>2 DEF LiveIn
    <3>2. QED
      BY <1>4, <2>2, <3>1
  <2>3. QED
    BY <2>1, <2>2
<1>6. w \in Int /\ \A r \in LiveIn : r < w
  BY DEF IInv, TypeOK, LiveIn, LiveRecords
<1>7. CASE v = w
  <2>1. /\ Append(d, w) \in Seq(Int) /\ Increasing(Append(d, w))
        /\ Elements(Append(d, w)) = Elements(d) \cup {w}
    <3>1. \A m \in Elements(d) : m < w
      BY <1>5, <1>6
    <3> HIDE DEF d
    <3>2. QED
      BY <1>5, <1>6, <3>1, IncreasingAppend
  <2>2. Elements(Append(d, w)) = Elements(b)
    BY <1>3, <1>4, <1>5, <1>7, <2>1
  <2>3. b = Append(d, w)
    BY <1>4, <2>1, <2>2, IncreasingUnique, Zenon
  <2>4. b # <<>> /\ b[Len(b)] = w
    <3> HIDE DEF d
    <3>1. QED
      BY <1>5, <1>6, <2>3
  <2>5. \A k \in 1 .. Len(a) : a[k] < w
    BY <1>4, <1>6 DEF Elements
  <2>6. CL!Add
    BY <1>2, <2>3, <2>4, <2>5 DEF CL!Add, a, b, Log
  <2>7. QED
    BY <2>6 DEF CL!Next
<1>8. CASE v # w
  <2>1. Elements(d) = Elements(b)
    BY <1>3, <1>4, <1>5, <1>8
  <2>2. b = d
    BY <1>4, <1>5, <2>1, IncreasingUnique, Zenon
  <2>3. CASE Len(a) = file.cap
    <3>1. CL!Tear
      BY <1>2, <2>2, <2>3 DEF CL!Tear, a, b, Log
    <3>2. QED
      BY <3>1 DEF CL!Next
  <2>4. CASE Len(a) # file.cap
    BY <1>2, <2>2, <2>4 DEF CL!vars, a, b, Log
  <2>5. QED
    BY <2>3, <2>4
<1>9. QED
  BY <1>7, <1>8

\* The log implements CircularLog: an append adds the newest record and drops
\* the oldest one of a full log, a torn append costs at most that one, and a
\* crash at any point, or any number of crashes and failed writes, costs
\* records only from the newest end, and none of those an append has returned
\* Ok for (open, append, replay_all).
THEOREM LogIsCircular == Spec => ImplementsCircularLog
<1>1. Init => CL!Init
  <2> SUFFICES ASSUME Init PROVE CL!Init
    OBVIOUS
  <2>1. file.cap = 0 /\ acked = {}
    BY DEF Init
  <2>2. IInv /\ Packed
    BY InitInv, InitPacked
  <2>3. Log \in Seq(Int) /\ Elements(Log) = LiveIn
    BY <2>2, LogFacts DEF LogInv
  <2>4. LiveIn = {}
    BY <2>1 DEF LiveIn, Slots
  <2>5. Log = <<>>
    <3> HIDE DEF Log
    <3>1. Len(Log) = 0
      <4>1. Len(Log) \in Nat
        BY <2>3
      <4>2. CASE Len(Log) # 0
        <5>1. 1 \in 1 .. Len(Log)
          BY <4>1, <4>2
        <5>2. Log[1] \in Elements(Log)
          BY <5>1 DEF Elements
        <5>3. QED
          BY <2>3, <2>4, <5>2
      <4>3. QED
        BY <4>2
    <3>2. QED
      BY <2>3, <3>1
  <2>6. QED
    BY <2>1, <2>5 DEF CL!Init, Log
<1>2. IInv /\ Packed => LogInv
  BY LogFacts
<1>3. ASSUME IInv, Packed, LogInv, LogInv', [Next]_vars PROVE [CL!Next]_(CL!vars)
  <2>1. CASE \/ (\E c \in Capacities : OpenFresh(c)) \/ CreateStep \/ Created \/ OpenExisting
             \/ PersistCursorFails
    BY <1>3, <2>1, QuietSteps
  <2>2. CASE WriteRecord \/ WriteRecordFails
    BY <1>3, <2>2, WriteAdds
  <2>3. CASE PersistCursor
    BY <1>3, <2>3, CursorAcknowledges DEF CL!Next
  <2>4. CASE Crash
    BY <1>3, <2>4, CrashForgets DEF CL!Next
  <2>5. CASE UNCHANGED vars
    <3>1. LiveIn' = LiveIn /\ UNCHANGED <<file, acked>>
      BY <2>5 DEF vars, ghosts, LiveIn, LiveRecords, Slots
    <3>2. Log' = Log
      BY <1>3, <3>1, SameLog
    <3>3. QED
      BY <3>1, <3>2 DEF CL!vars, Log
  <2>6. QED
    BY <1>3, <2>1, <2>2, <2>3, <2>4, <2>5 DEF Next
<1>4. QED
  BY <1>1, <1>2, <1>3, ReachablePacked, PTL DEF Spec, ImplementsCircularLog, CL!Spec
=============================================================================
