---------------------------- MODULE IoLoopProofs ----------------------------
(***************************************************************************)
(* Theorems about IoLoop, for every number of slots, lanes and entries of   *)
(* the submission queue, and for every workload.                            *)
(***************************************************************************)
EXTENDS IoLoop, FiniteSetTheorems, TLAPS

\* A leaf that names no prover is for the SMT solver, tried twice, and for Zenon
\* where the solver finds nothing.
USE SMTT(60), SMTT(70), Zenon

Types == TypeOK /\ IsFiniteSet(flight)

\* A number no read in flight has: there are more candidates than reads.
LEMMA FreshIdExists ==
  ASSUME IsFiniteSet(flight)
  PROVE  FreshId \in Nat
<1> DEFINE n == Cardinality(flight)
<1> DEFINE g == [i \in 0 .. n |-> CHOOSE f \in flight : f.id = i]
<1>1. n \in Nat
  BY FS_CardinalityType
<1>2. IsFiniteSet(0 .. n) /\ Cardinality(0 .. n) = n + 1
  BY <1>1, FS_Interval
<1>3. SUFFICES \E i \in 0 .. n : \A f \in flight : f.id # i
  BY <1>1 DEF FreshId
<1>4. SUFFICES ASSUME \A i \in 0 .. n : \E f \in flight : f.id = i
               PROVE  FALSE
  OBVIOUS
<1>5. \A i \in 0 .. n : g[i] \in flight /\ g[i].id = i
  BY <1>4
<1>6. g \in [0 .. n -> flight]
  BY <1>5
<1> HIDE DEF g
<1>7. \E i, j \in 0 .. n : i # j /\ g[i] = g[j]
  BY <1>1, <1>2, <1>6, FS_PigeonHole
<1>8. QED
  BY <1>5, <1>7
-----------------------------------------------------------------------------
(* Type correctness *)

\* The end of the thread is well typed.
LEMMA ExitTypes ==
  ASSUME Exit
  PROVE  /\ loop' \in [pc : LoopPcs, next : 0 .. SlotCount, batch : SUBSET Slots,
                       todo : SUBSET Slots, req : [Slots -> 0 .. MaxRequests]]
         /\ flight' = {} /\ IsFiniteSet(flight') /\ dirty' \in BOOLEAN /\ asleep' \in BOOLEAN
         /\ loop'.pc = "exited"
<1>1. NoRequests \in [Slots -> 0 .. MaxRequests]
  BY MaxRequestsAssumption DEF NoRequests
<1>2. IsFiniteSet({})
  BY FS_EmptySet
<1>3. 0 \in 0 .. SlotCount
  BY SlotCountAssumption
<1>4. QED
  BY <1>1, <1>2, <1>3, Zenon DEF Exit, Start, LoopPcs

\* The initial state is well typed.
LEMMA InitTypes == Init => Types
<1> SUFFICES ASSUME Init PROVE Types
  OBVIOUS
<1>1. NoRequests \in [Slots -> 0 .. MaxRequests]
  BY MaxRequestsAssumption DEF NoRequests
<1>2. 0 \in Slots /\ 0 \in 0 .. SlotCount /\ 0 \in 0 .. MaxRequests
  BY SlotCountAssumption, MaxRequestsAssumption DEF Slots
<1>3. Len(work) \in Nat
  BY WorkloadsAssumption DEF Init
<1>4. IsFiniteSet({})
  BY FS_EmptySet
<1>5. Idle \in [pc : LanePcs, slot : Slots, ticket : 0 .. MaxRequests]
  BY <1>2 DEF Idle, LanePcs
<1>6. loop \in [pc : LoopPcs, next : 0 .. SlotCount, batch : SUBSET Slots,
               todo : SUBSET Slots, req : [Slots -> 0 .. MaxRequests]]
  BY <1>1, <1>2 DEF Init, Start, LoopPcs
<1>7. issued \in 0 .. Len(work)
  BY <1>3 DEF Init
<1>8. QED
  BY <1>2, <1>4, <1>5, <1>6, <1>7, Zenon
  DEF Types, TypeOK, Init, Statuses, Reads

\* A step of a lane keeps the types.
LEMMA LaneTypes ==
  ASSUME Types, NEW l \in Lanes, LaneStep(l)
  PROVE  Types'
<1> USE DEF Types, TypeOK
<1>1. /\ lane[l] \in [pc : LanePcs, slot : Slots, ticket : 0 .. MaxRequests]
      /\ Idle \in [pc : LanePcs, slot : Slots, ticket : 0 .. MaxRequests]
  BY SlotCountAssumption, MaxRequestsAssumption DEF Idle, LanePcs, Slots
<1>2. Len(work) \in Nat /\ Len(work) <= MaxRequests
  BY WorkloadsAssumption
<1>3. CASE LoadMiss(l)
  <2>1. issued + 1 \in 0 .. Len(work) /\ issued + 1 \in 0 .. MaxRequests
    BY <1>2, <1>3, MaxRequestsAssumption DEF LoadMiss
  <2>2. [pc |-> "scan", slot |-> 0, ticket |-> issued + 1]
          \in [pc : LanePcs, slot : Slots, ticket : 0 .. MaxRequests]
    BY <2>1, SlotCountAssumption DEF LanePcs, Slots
  <2>3. QED
    BY <1>3, <2>1, <2>2 DEF LoadMiss, uringVars
<1>4. CASE ScanSlot(l)
  <2> DEFINE e == IF queue[lane[l].slot].status = "EMPTY" THEN [lane[l] EXCEPT !.pc = "write"]
                  ELSE IF lane[l].slot + 1 < SlotCount THEN [lane[l] EXCEPT !.slot = lane[l].slot + 1]
                  ELSE Idle
  <2> HIDE DEF Types, TypeOK
  <2>0. lane[l].slot \in Slots
    BY <1>1
  <2>1. lane[l].slot + 1 < SlotCount => lane[l].slot + 1 \in Slots
    BY <2>0, SlotCountAssumption DEF Slots
  <2>2. e \in [pc : LanePcs, slot : Slots, ticket : 0 .. MaxRequests]
    BY <1>1, <2>1 DEF LanePcs
  <2>3. lane' = [lane EXCEPT ![l] = e]
    BY <1>4 DEF ScanSlot
  <2> HIDE DEF e
  <2>4. lane' \in [Lanes -> [pc : LanePcs, slot : Slots, ticket : 0 .. MaxRequests]]
    BY <2>2, <2>3 DEF Types, TypeOK
  <2>5. UNCHANGED <<queue, work, issued, raced, loop, uringVars, shutdown>>
    BY <1>4 DEF ScanSlot
  <2>6. QED
    BY <2>4, <2>5 DEF uringVars, Types, TypeOK
<1>5. CASE WriteRequest(l)
  BY <1>1, <1>5, ZenonT(60) DEF WriteRequest, uringVars, LanePcs
<1>6. CASE PublishRequest(l)
  BY <1>1, <1>6, ZenonT(60) DEF PublishRequest, uringVars, LanePcs, Statuses
<1>7. CASE PollOk(l)
  <2>1. lane' = [lane EXCEPT ![l] = Idle]
        /\ queue' = [queue EXCEPT ![lane[l].slot] = [@ EXCEPT !.status = "EMPTY"]]
        /\ UNCHANGED <<work, issued, raced, loop, uringVars, shutdown>>
    BY <1>7, Zenon DEF PollOk
  <2>2. lane' \in [Lanes -> [pc : LanePcs, slot : Slots, ticket : 0 .. MaxRequests]]
    BY <1>1, <2>1
  <2>3. queue' \in [Slots -> [status : Statuses, ticket : 0 .. MaxRequests]]
    <3>1. queue[lane[l].slot] \in [status : Statuses, ticket : 0 .. MaxRequests]
      BY <1>1
    <3>2. PICK q : q = [queue[lane[l].slot] EXCEPT !.status = "EMPTY"]
      BY Zenon
    <3>3. q \in [status : Statuses, ticket : 0 .. MaxRequests]
      BY <3>1, <3>2, Zenon DEF Statuses
    <3>4. queue' = [queue EXCEPT ![lane[l].slot] = q]
      BY <2>1, <3>2, Zenon
    <3>5. queue \in [Slots -> [status : Statuses, ticket : 0 .. MaxRequests]]
      OBVIOUS
    <3> HIDE DEF Types, TypeOK
    <3>6. QED
      BY <3>3, <3>4, <3>5, Zenon
  <2> HIDE DEF Types, TypeOK
  <2>4. QED
    BY <2>1, <2>2, <2>3 DEF uringVars, Types, TypeOK
<1>8. CASE PollGivesUp(l)
  BY <1>1, <1>8 DEF PollGivesUp, uringVars
<1>9. QED
  BY <1>3, <1>4, <1>5, <1>6, <1>7, <1>8, Zenon DEF LaneStep

\* Moving one read to another stage.
LEMMA SetStageMoves ==
  ASSUME Types, NEW f \in flight, NEW stage \in {"sq", "run", "ok", "failed"},
         SetStage(f, stage)
  PROVE  /\ flight' \subseteq Reads /\ IsFiniteSet(flight')
         /\ \E g \in Reads :
              /\ flight' = (flight \ {f}) \cup {g}
              /\ g.slot = f.slot /\ g.ticket = f.ticket /\ g.stage = stage
<1> DEFINE g == [f EXCEPT !.stage = stage]
<1>1. f \in Reads
  BY DEF Types, TypeOK
<1>2. /\ g \in Reads /\ g.slot = f.slot /\ g.ticket = f.ticket /\ g.stage = stage
  BY <1>1 DEF Reads
<1>3. flight' = (flight \ {f}) \cup {g}
  BY DEF SetStage
<1> HIDE DEF g
<1>4. IsFiniteSet(flight')
  BY <1>3, FS_RemoveElement, FS_AddElement, Zenon DEF Types
<1>5. flight' \subseteq Reads
  BY <1>2, <1>3 DEF Types, TypeOK
<1>6. QED
  BY <1>2, <1>3, <1>4, <1>5

\* The kernel's steps keep the types.
LEMMA KernelTypes ==
  ASSUME Types, KernelTake \/ KernelSleep \/ KernelFinish
  PROVE  Types'
<1>1. CASE KernelTake
  <2>1. PICK f \in flight : SetStage(f, "run")
    BY <1>1 DEF KernelTake, Stage
  <2>2. flight' \subseteq Reads /\ IsFiniteSet(flight')
    BY <2>1, SetStageMoves
  <2>3. QED
    BY <1>1, <2>2 DEF KernelTake, Types, TypeOK, laneVars
<1>2. CASE KernelSleep
  BY <1>2 DEF KernelSleep, Types, TypeOK, laneVars
<1>3. CASE KernelFinish
  <2>1. PICK f \in flight, ok \in BOOLEAN :
          /\ SetStage(f, IF ok THEN "ok" ELSE "failed")
          /\ served' = IF ok THEN served \cup {f.ticket} ELSE served
    BY <1>3 DEF KernelFinish, Stage
  <2>2. flight' \subseteq Reads /\ IsFiniteSet(flight')
    BY <2>1, SetStageMoves
  <2>3. f.ticket \in 0 .. MaxRequests
    BY DEF Types, TypeOK, Reads
  <2>4. served' \subseteq 0 .. MaxRequests
    BY <2>1, <2>3, Zenon DEF Types, TypeOK
  <2>5. QED
    BY <1>3, <2>2, <2>4 DEF KernelFinish, Types, TypeOK, laneVars
<1>4. QED
  BY <1>1, <1>2, <1>3

LoopRecords ==
  [pc : LoopPcs, next : 0 .. SlotCount, batch : SUBSET Slots,
   todo : SUBSET Slots, req : [Slots -> 0 .. MaxRequests]]

Queues == [Slots -> [status : Statuses, ticket : 0 .. MaxRequests]]

\* What a step of the thread has to keep, with the lanes out of it.
LEMMA LoopFrame ==
  ASSUME Types, queue' \in Queues, loop' \in LoopRecords,
         flight' \subseteq Reads, IsFiniteSet(flight'),
         dirty' \in BOOLEAN, asleep' \in BOOLEAN, shutdown' \in BOOLEAN,
         UNCHANGED <<laneVars, served>>
  PROVE  Types'
BY DEF Types, TypeOK, laneVars, Queues, LoopRecords

\* A completion keeps the types.
LEMMA CompleteTypes ==
  ASSUME Types, NEW s \in Slots, NEW ok \in BOOLEAN, Complete(s, ok)
  PROVE  queue' \in Queues
BY DEF Types, TypeOK, Complete, Queues, Statuses

\* Setting fields of the thread's record.
LEMMA LoopUpdate ==
  ASSUME NEW r \in LoopRecords, NEW pc \in LoopPcs, NEW todo \in SUBSET Slots
  PROVE  /\ [r EXCEPT !.pc = pc] \in LoopRecords
         /\ [r EXCEPT !.todo = todo] \in LoopRecords
         /\ [r EXCEPT !.next = 0, !.pc = pc] \in LoopRecords
         /\ [r EXCEPT !.pc = pc, !.batch = {}, !.req = NoRequests] \in LoopRecords
<1>1. NoRequests \in [Slots -> 0 .. MaxRequests] /\ 0 \in 0 .. SlotCount
  BY MaxRequestsAssumption, SlotCountAssumption DEF NoRequests
<1>2. QED
  BY <1>1, Zenon DEF LoopRecords

\* The steps of the thread keep the types.
LEMMA LoopTypes ==
  ASSUME Types, LoopStep \/ FlushFails \/ WaitFails
  PROVE  Types'
<1>0. /\ queue \in Queues /\ loop \in LoopRecords /\ flight \subseteq Reads
      /\ IsFiniteSet(flight) /\ dirty \in BOOLEAN /\ asleep \in BOOLEAN /\ shutdown \in BOOLEAN
  BY DEF Types, TypeOK, Queues, LoopRecords
<1>1. ASSUME Exit, queue' \in Queues, UNCHANGED <<laneVars, served, shutdown>>
      PROVE  Types'
  <2>1. loop' \in LoopRecords /\ flight' \subseteq Reads /\ IsFiniteSet(flight')
    BY <1>1, ExitTypes DEF LoopRecords
  <2>2. dirty' \in BOOLEAN /\ asleep' \in BOOLEAN
    BY <1>1, ExitTypes
  <2>3. QED
    BY <1>0, <1>1, <2>1, <2>2, LoopFrame
<1>2. ASSUME loop' \in LoopRecords, queue' \in Queues, UNCHANGED <<laneVars, uringVars, shutdown>>
      PROVE  Types'
  BY <1>0, <1>2, LoopFrame DEF uringVars
<1>3. CASE Leave
  BY <1>0, <1>1, <1>3 DEF Leave
<1>4. CASE Top \/ Drained \/ WaitEnds
  <2>1. \E pc \in LoopPcs : loop' = [loop EXCEPT !.pc = pc]
    BY <1>4 DEF Top, Drained, WaitEnds, LoopPcs
  <2>2. queue' \in Queues /\ UNCHANGED <<laneVars, uringVars, shutdown>>
    BY <1>0, <1>4 DEF Top, Drained, WaitEnds
  <2>3. QED
    BY <1>0, <1>2, <2>1, <2>2, LoopUpdate, Zenon
<1>5. ASSUME NEW f \in flight, Drain(f) PROVE Types'
  <2>1. f.slot \in Slots
    BY <1>0 DEF Reads
  <2>2. queue' \in Queues
    BY <1>5, <2>1, CompleteTypes, Zenon DEF Drain
  <2>3. CASE Claimed(f.slot)
    <3>1. flight' = flight \ {f} /\ UNCHANGED <<loop, dirty, asleep, laneVars, served, shutdown>>
      BY <1>5, <2>3 DEF Drain
    <3>2. IsFiniteSet(flight')
      BY <1>0, <3>1, FS_RemoveElement
    <3>3. QED
      BY <1>0, <2>2, <3>1, <3>2, LoopFrame
  <2>4. CASE ~Claimed(f.slot)
    BY <1>1, <1>5, <2>2, <2>4 DEF Drain
  <2>5. QED
    BY <2>3, <2>4
<1>6. CASE ClaimSlot
  <2> DEFINE s == loop.next
  <2>1. s \in Slots /\ s + 1 \in 0 .. SlotCount
    BY <1>0, <1>6, SlotCountAssumption DEF ClaimSlot, LoopRecords, Slots
  <2>2. queue[s].ticket \in 0 .. MaxRequests
    BY <1>0, <2>1 DEF Queues
  <2>3. queue' \in Queues
    BY <1>0, <1>6, <2>1 DEF ClaimSlot, Queues, Statuses
  <2>4. [loop.req EXCEPT ![s] = queue[s].ticket] \in [Slots -> 0 .. MaxRequests]
    BY <1>0, <2>2, Zenon DEF LoopRecords
  <2> DEFINE req == [loop.req EXCEPT ![s] = queue[s].ticket]
  <2> DEFINE e == [loop EXCEPT !.next = s + 1, !.batch = loop.batch \cup {s},
                               !.todo = loop.todo \cup {s}, !.req = req]
  <2> DEFINE d == [loop EXCEPT !.next = s + 1]
  <2>5. loop' = e \/ loop' = d
    BY <1>6 DEF ClaimSlot
  <2>6. req \in [Slots -> 0 .. MaxRequests]
    BY <2>4
  <2>7. e \in LoopRecords
    <3> HIDE DEF req
    <3>1. loop.batch \cup {s} \in SUBSET Slots /\ loop.todo \cup {s} \in SUBSET Slots
      BY <1>0, <2>1 DEF LoopRecords
    <3>2. QED
      BY <1>0, <2>1, <2>6, <3>1, Zenon DEF LoopRecords
  <2>8. d \in LoopRecords
    BY <1>0, <2>1 DEF LoopRecords
  <2>9. loop' \in LoopRecords
    BY <2>5, <2>7, <2>8
  <2>10. QED
    BY <1>2, <1>6, <2>3, <2>9 DEF ClaimSlot
<1>7. CASE ClaimEnds
  <2>1. \E pc \in LoopPcs : loop' = [loop EXCEPT !.next = 0, !.pc = pc]
    BY <1>7, Zenon DEF ClaimEnds, LoopPcs
  <2>2. QED
    BY <1>0, <1>2, <1>7, <2>1, LoopUpdate, Zenon DEF ClaimEnds
<1>8. CASE Flush
  <2>1. loop' \in LoopRecords
    BY <1>0, <1>8, LoopUpdate, Zenon DEF Flush, LoopPcs
  <2>2. QED
    BY <1>0, <1>8, <2>1, LoopFrame, ZenonT(60) DEF Flush
<1>9. ASSUME NEW s \in Slots, SubmitRead(s) PROVE Types'
  <2> DEFINE g == [slot |-> s, ticket |-> loop.req[s], id |-> FreshId, stage |-> "sq"]
  <2>1. g \in Reads
    BY <1>0, FreshIdExists DEF Reads, LoopRecords
  <2>2. flight' = flight \cup {g}
    BY <1>9 DEF SubmitRead
  <2> HIDE DEF g
  <2>3. flight' \subseteq Reads /\ IsFiniteSet(flight')
    BY <1>0, <2>1, <2>2, FS_AddElement
  <2>4. loop' \in LoopRecords
    BY <1>0, <1>9 DEF SubmitRead, Handled, LoopRecords
  <2>5. QED
    BY <1>0, <1>9, <2>3, <2>4, LoopFrame DEF SubmitRead
<1>10. ASSUME NEW s \in Slots, SubmitFails(s) \/ Unregistered(s) PROVE Types'
  <2>1. queue' \in Queues
    BY <1>10, CompleteTypes, Zenon DEF SubmitFails, Unregistered
  <2>2. QED
    BY <1>1, <1>10, <2>1, Zenon DEF SubmitFails, Unregistered
<1>11. ASSUME NEW s \in Slots, AnswerFence(s) \/ AnswerOther(s) PROVE Types'
  <2>1. queue' \in Queues /\ Answered(s) /\ UNCHANGED <<laneVars, served, shutdown>>
    BY <1>11, CompleteTypes, Zenon DEF AnswerFence, AnswerOther
  <2>2. CASE Claimed(s)
    <3>1. loop' = Handled(s) /\ UNCHANGED <<flight, dirty, asleep>>
      BY <2>1, <2>2 DEF Answered
    <3>2. loop' \in LoopRecords
      BY <1>0, <3>1 DEF Handled, LoopRecords
    <3>3. QED
      BY <1>0, <2>1, <3>1, <3>2, LoopFrame
  <2>3. CASE ~Claimed(s)
    BY <1>1, <2>1, <2>3 DEF Answered
  <2>4. QED
    BY <2>2, <2>3
<1>12. CASE FlushFails
  <2>1. queue' \in Queues
    BY <1>0, <1>12 DEF FlushFails, Queues, Statuses
  <2>2. QED
    BY <1>1, <1>12, <2>1 DEF FlushFails
<1>13. CASE WaitFails
  BY <1>0, <1>1, <1>13 DEF WaitFails
<1>14. QED
  BY <1>3, <1>4, <1>5, <1>6, <1>7, <1>8, <1>9, <1>10, <1>11, <1>12, <1>13 DEF LoopStep
-----------------------------------------------------------------------------
(* The inductive invariant *)

\* The lanes that have written a slot and not left it.
Busy(l) == lane[l].pc \in {"publish", "poll"}

\* A lane has its slot to itself from the first store to the last poll: the
\* slot is EMPTY until it publishes, is not EMPTY after that, and holds the
\* words the lane has written.
LaneInv ==
  ~raced =>
    /\ \A l \in Lanes : lane[l].pc = "publish" => queue[lane[l].slot].status = "EMPTY"
    /\ \A l \in Lanes : lane[l].pc = "poll" => queue[lane[l].slot].status # "EMPTY"
    /\ \A l \in Lanes : Busy(l) => queue[lane[l].slot].ticket = lane[l].ticket
    /\ \A l, m \in Lanes : (Busy(l) /\ Busy(m) /\ lane[l].slot = lane[m].slot) => l = m

\* What the thread has in hand is what is CLAIMED, and the copies it works
\* with are still what the slots hold.
Hands ==
  (~raced /\ Running) =>
    /\ \A s \in Slots : Claimed(s) <=> (s \in loop.todo \/ \E f \in flight : f.slot = s)
    /\ \A f \in flight : f.slot \notin loop.todo
    /\ \A f, g \in flight : f.slot = g.slot => f = g
    /\ \A s \in loop.todo : loop.req[s] = queue[s].ticket
    /\ \A f \in flight : f.ticket = queue[f.slot].ticket

\* An OK slot holds a request that has been served.
Answers ==
  /\ \A f \in flight : f.stage = "ok" => f.ticket \in served
  /\ ~raced => \A s \in Slots :
       queue[s].status = "OK" => work[queue[s].ticket].op = "fence" \/ queue[s].ticket \in served

IInv == Types /\ LaneInv /\ Hands /\ Answers

\* The initial state satisfies it.
LEMMA InitInv == Init => IInv
<1> SUFFICES ASSUME Init PROVE IInv
  OBVIOUS
<1>1. Types
  BY InitTypes
<1>2. LaneInv
  BY DEF Init, LaneInv, Idle, Busy
<1>3. Hands
  BY DEF Init, Hands, Start, Claimed
<1>4. Answers
  BY DEF Init, Answers
<1>5. QED
  BY <1>1, <1>2, <1>3, <1>4 DEF IInv
-----------------------------------------------------------------------------
(* Steps of the thread *)

\* A completion stores the status of a CLAIMED slot, and nothing else.
LEMMA CompleteStores ==
  ASSUME Types, NEW s \in Slots, NEW ok \in BOOLEAN, Complete(s, ok)
  PROVE  \A r \in Slots :
           /\ queue'[r].ticket = queue[r].ticket
           /\ queue'[r].status = IF r = s /\ Claimed(s)
                                   THEN (IF ok THEN "OK" ELSE "ERROR") ELSE queue[r].status
<1>1. CASE Claimed(s)
  <2> DEFINE e == [queue[s] EXCEPT !.status = IF ok THEN "OK" ELSE "ERROR"]
  <2>1. queue' = [queue EXCEPT ![s] = e]
    BY <1>1 DEF Complete
  <2>2. e.ticket = queue[s].ticket /\ e.status = IF ok THEN "OK" ELSE "ERROR"
    BY DEF Types, TypeOK
  <2> HIDE DEF e
  <2>3. QED
    BY <1>1, <2>1, <2>2 DEF Types, TypeOK
<1>2. CASE ~Claimed(s)
  BY <1>2 DEF Complete
<1>3. QED
  BY <1>1, <1>2

\* Claiming a slot that is PUBLISHED.
LEMMA ClaimStores ==
  ASSUME Types, ClaimSlot
  PROVE  /\ loop.next \in Slots
         /\ \A r \in Slots :
              /\ queue'[r].ticket = queue[r].ticket
              /\ queue'[r].status = IF r = loop.next /\ queue[r].status = "PUBLISHED"
                                      THEN "CLAIMED" ELSE queue[r].status
<1> DEFINE s == loop.next
<1>1. s \in Slots
  BY SlotCountAssumption DEF ClaimSlot, Types, TypeOK, Slots
<1>2. CASE queue[s].status = "PUBLISHED"
  <2> DEFINE e == [queue[s] EXCEPT !.status = "CLAIMED"]
  <2>1. queue' = [queue EXCEPT ![s] = e]
    BY <1>2 DEF ClaimSlot
  <2>2. e.ticket = queue[s].ticket /\ e.status = "CLAIMED"
    BY <1>1 DEF Types, TypeOK
  <2> HIDE DEF e
  <2>3. QED
    BY <1>1, <1>2, <2>1, <2>2 DEF Types, TypeOK
<1>3. CASE queue[s].status # "PUBLISHED"
  BY <1>1, <1>3 DEF ClaimSlot
<1>4. QED
  BY <1>2, <1>3

\* The thread never changes a request, never takes a slot from EMPTY or to
\* EMPTY, stores OK only for a read that has succeeded or for a FENCE, and
\* leaves the lanes alone.
KeepsRequests ==
  /\ \A r \in Slots :
       /\ queue'[r].ticket = queue[r].ticket
       /\ queue'[r].status = "EMPTY" <=> queue[r].status = "EMPTY"
       /\ (queue'[r].status = "OK" /\ ~raced) =>
             \/ queue[r].status = "OK"
             \/ queue[r].ticket \in served
             \/ work[queue[r].ticket].op = "fence"
  /\ UNCHANGED <<laneVars, served>>

\* No step of the thread does more than that.
LEMMA LoopKeeps ==
  ASSUME Types, Hands, Answers, LoopStep \/ FlushFails \/ WaitFails
  PROVE  KeepsRequests
<1>1. CASE UNCHANGED <<queue, laneVars, served>>
  BY <1>1 DEF KeepsRequests
<1>2. CASE Leave \/ Top \/ Drained \/ ClaimEnds \/ Flush \/ WaitEnds \/ WaitFails
  BY <1>1, <1>2, Zenon DEF Leave, Top, Drained, ClaimEnds, Flush, WaitEnds, WaitFails, uringVars
<1>3. ASSUME NEW s \in Slots, SubmitRead(s)
      PROVE  UNCHANGED <<queue, laneVars, served>>
  BY <1>3 DEF SubmitRead
<1>4. CASE ClaimSlot
  <2>1. UNCHANGED <<laneVars, served>>
    BY <1>4 DEF ClaimSlot, uringVars
  <2>2. QED
    BY <1>4, <2>1, ClaimStores DEF KeepsRequests
<1>5. ASSUME NEW s \in Slots, SubmitFails(s) \/ Unregistered(s) \/ AnswerOther(s)
      PROVE  /\ Complete(s, FALSE)
             /\ UNCHANGED <<laneVars, served>>
  BY <1>5, Zenon DEF SubmitFails, Unregistered, AnswerOther
<1>6. ASSUME NEW s \in Slots, AnswerFence(s)
      PROVE  /\ Complete(s, TRUE)
             /\ UNCHANGED <<laneVars, served>>
             /\ ~raced => work[queue[s].ticket].op = "fence"
  <2>1. Running /\ s \in loop.todo /\ work[loop.req[s]].op = "fence"
    BY <1>6 DEF AnswerFence, Serving, Running
  <2>2. QED
    BY <1>6, <2>1, Zenon DEF AnswerFence, Hands
<1>7. ASSUME NEW f \in flight, Drain(f)
      PROVE  /\ f.slot \in Slots
             /\ Complete(f.slot, f.stage = "ok")
             /\ UNCHANGED <<laneVars, served>>
             /\ (~raced /\ f.stage = "ok") => queue[f.slot].ticket \in served
  <2>1. Running /\ f.slot \in Slots
    BY <1>7 DEF Drain, Running, Types, TypeOK, Reads
  <2>2. QED
    BY <1>7, <2>1 DEF Drain, Hands, Answers
<1>8. CASE FlushFails
  <2>1. \A r \in Slots : \/ queue'[r] = queue[r]
                         \/ Claimed(r) /\ queue'[r] = [queue[r] EXCEPT !.status = "ERROR"]
    BY <1>8 DEF FlushFails
  <2>2. \A r \in Slots : queue[r] \in [status : Statuses, ticket : 0 .. MaxRequests]
    BY DEF Types, TypeOK
  <2>3. UNCHANGED <<laneVars, served>>
    BY <1>8 DEF FlushFails
  <2>4. QED
    BY <2>1, <2>2, <2>3, Zenon DEF Claimed, KeepsRequests
<1>9. ASSUME NEW s \in Slots, NEW ok \in BOOLEAN, Complete(s, ok), UNCHANGED <<laneVars, served>>,
             (~raced /\ ok) => queue[s].ticket \in served \/ work[queue[s].ticket].op = "fence"
      PROVE  KeepsRequests
  BY <1>9, CompleteStores DEF Claimed, KeepsRequests
<1>10. ASSUME NEW f \in flight, Drain(f)
       PROVE  KeepsRequests
  <2>1. (f.stage = "ok") \in BOOLEAN
    OBVIOUS
  <2>2. QED
    BY <1>7, <1>9, <1>10, <2>1, Zenon
<1>11. QED
  BY <1>1, <1>2, <1>3, <1>4, <1>5, <1>6, <1>8, <1>9, <1>10, Zenon DEF LoopStep

\* A step of the thread keeps the lanes' part.
LEMMA LoopLane ==
  ASSUME IInv, LoopStep \/ FlushFails \/ WaitFails
  PROVE  LaneInv'
<1>1. KeepsRequests
  BY LoopKeeps DEF IInv
<1>2. \A l \in Lanes : lane'[l] = lane[l] /\ lane[l].slot \in Slots
  BY <1>1 DEF KeepsRequests, laneVars, IInv, Types, TypeOK
<1>3. raced' = raced
  BY <1>1 DEF KeepsRequests, laneVars
<1>4. QED
  BY <1>1, <1>2, <1>3 DEF IInv, LaneInv, KeepsRequests, Busy

\* The thread lets go of a slot: the request is answered, or its read has
\* been reaped.
LEMMA LetGo ==
  ASSUME Types, Hands, Running, NEW s \in Slots, NEW ok \in BOOLEAN, Complete(s, ok), Claimed(s),
         UNCHANGED raced,
         loop'.todo = loop.todo \ {s}, loop'.req = loop.req,
         flight' = {f \in flight : f.slot # s}
  PROVE  Hands'
<1> SUFFICES ASSUME ~raced PROVE Hands'
  BY DEF Hands
<1>1. \A r \in Slots : queue'[r].ticket = queue[r].ticket
  BY CompleteStores
<1>2. \A r \in Slots : Claimed(r)' <=> (Claimed(r) /\ r # s)
  BY CompleteStores DEF Claimed
<1>3. loop.todo \subseteq Slots /\ \A f \in flight : f.slot \in Slots
  BY DEF Types, TypeOK, Reads
<1>4. QED
  BY <1>1, <1>2, <1>3 DEF Hands

\* A step of the thread keeps the thread's part.
LEMMA LoopHands ==
  ASSUME IInv, LoopStep \/ FlushFails \/ WaitFails
  PROVE  Hands'
<1>0. Types /\ Hands /\ KeepsRequests
  BY LoopKeeps DEF IInv
<1>1. UNCHANGED raced /\ loop.todo \subseteq Slots /\ loop \in LoopRecords
  BY <1>0 DEF KeepsRequests, laneVars, Types, TypeOK, LoopRecords
<1>2. CASE Exit
  BY <1>2 DEF Exit, Start, Hands, Running
<1>3. CASE Leave \/ FlushFails \/ WaitFails
  BY <1>2, <1>3 DEF Leave, FlushFails, WaitFails
<1>4. CASE Top \/ Drained \/ WaitEnds \/ ClaimEnds
  <2>1. Running /\ UNCHANGED <<queue, flight>>
    BY <1>4 DEF Top, Drained, WaitEnds, ClaimEnds, Running, uringVars
  <2>2. loop'.todo = loop.todo /\ loop'.req = loop.req
    BY <1>1, <1>4, Zenon DEF Top, Drained, WaitEnds, ClaimEnds, LoopRecords
  <2>3. QED
    BY <1>0, <1>1, <2>1, <2>2 DEF Hands, Claimed
<1>5. CASE Flush
  <2>1. Running /\ UNCHANGED <<queue, flight>> /\ loop.todo = {}
    BY <1>5 DEF Flush, Running
  <2>2. loop'.todo = {}
    BY <1>1, <1>5, <2>1 DEF Flush, LoopRecords
  <2>3. QED
    BY <1>0, <1>1, <2>1, <2>2 DEF Hands, Claimed
<1>6. ASSUME NEW f \in flight, Drain(f), ~raced PROVE Hands'
  <2>1. Running /\ f.slot \in Slots
    BY <1>0, <1>6 DEF Drain, Running, Types, TypeOK, Reads
  <2>2. Claimed(f.slot) /\ f.slot \notin loop.todo
    BY <1>0, <1>6, <2>1 DEF Hands
  <2>3. flight' = flight \ {f} /\ UNCHANGED loop
    BY <1>6, <2>2 DEF Drain
  <2>4. flight' = {g \in flight : g.slot # f.slot}
    BY <1>0, <1>6, <2>1, <2>3 DEF Hands
  <2>5. loop'.todo = loop.todo \ {f.slot} /\ loop'.req = loop.req
    BY <2>2, <2>3
  <2>6. Complete(f.slot, f.stage = "ok") /\ (f.stage = "ok") \in BOOLEAN
    BY <1>6 DEF Drain
  <2>7. QED
    BY <1>0, <1>1, <2>1, <2>2, <2>4, <2>5, <2>6, LetGo, Zenon
<1>7. ASSUME NEW s \in Slots, AnswerFence(s) \/ AnswerOther(s), ~raced PROVE Hands'
  <2>1. Running /\ s \in loop.todo /\ Answered(s)
    BY <1>7, Zenon DEF AnswerFence, AnswerOther, Serving, Running
  <2>2. Claimed(s) /\ \A f \in flight : f.slot # s
    BY <1>0, <1>7, <2>1 DEF Hands
  <2>3. loop' = Handled(s) /\ UNCHANGED flight
    BY <2>1, <2>2 DEF Answered
  <2>4. loop'.todo = loop.todo \ {s} /\ loop'.req = loop.req
    BY <1>1, <2>3 DEF Handled, LoopRecords
  <2>5. flight' = {f \in flight : f.slot # s}
    BY <2>2, <2>3
  <2>6. \E ok \in BOOLEAN : Complete(s, ok)
    BY <1>7, Zenon DEF AnswerFence, AnswerOther
  <2>7. QED
    BY <1>0, <1>1, <2>1, <2>2, <2>4, <2>5, <2>6, LetGo
<1>8. ASSUME NEW s \in Slots, SubmitRead(s), ~raced PROVE Hands'
  <2> DEFINE g == [slot |-> s, ticket |-> loop.req[s], id |-> FreshId, stage |-> "sq"]
  <2>1. Running /\ s \in loop.todo /\ UNCHANGED queue
    BY <1>8 DEF SubmitRead, Serving, Running
  <2>2. flight' = flight \cup {g} /\ g.slot = s /\ g.ticket = loop.req[s]
    BY <1>8 DEF SubmitRead
  <2> HIDE DEF g
  <2>3. loop'.todo = loop.todo \ {s} /\ loop'.req = loop.req
    BY <1>1, <1>8 DEF SubmitRead, Handled, LoopRecords
  <2>4. QED
    BY <1>0, <1>1, <1>8, <2>1, <2>2, <2>3 DEF Hands, Claimed
<1>9. CASE ClaimSlot
  <2> DEFINE s == loop.next
  <2>1. Running /\ UNCHANGED flight /\ s \in Slots
    BY <1>0, <1>9, ClaimStores DEF ClaimSlot, Running, uringVars
  <2>2. CASE queue[s].status = "PUBLISHED"
    <3>1. loop'.todo = loop.todo \cup {s} /\ loop'.req = [loop.req EXCEPT ![s] = queue[s].ticket]
      BY <1>1, <1>9, <2>2, Zenon DEF ClaimSlot, LoopRecords
    <3>2. \A r \in Slots : /\ Claimed(r)' <=> (Claimed(r) \/ r = s)
                           /\ queue'[r].ticket = queue[r].ticket
      BY <1>0, <1>9, <2>1, <2>2, ClaimStores DEF Claimed
    <3>3. ~Claimed(s)
      BY <2>2 DEF Claimed
    <3>4. \A r \in Slots : loop'.req[r] = IF r = s THEN queue[s].ticket ELSE loop.req[r]
      BY <1>1, <2>1, <3>1 DEF LoopRecords
    <3>5. \A f \in flight : f.slot \in Slots
      BY <1>0 DEF Types, TypeOK, Reads
    <3> HIDE DEF s
    <3>6. QED
      BY <1>0, <1>1, <2>1, <3>1, <3>2, <3>3, <3>4, <3>5 DEF Hands
  <2>3. CASE queue[s].status # "PUBLISHED"
    <3>1. UNCHANGED queue /\ loop'.todo = loop.todo /\ loop'.req = loop.req
      BY <1>1, <1>9, <2>3 DEF ClaimSlot, LoopRecords
    <3>2. QED
      BY <1>0, <1>1, <2>1, <3>1 DEF Hands, Claimed
  <2>4. QED
    BY <2>2, <2>3
<1>10. CASE raced
  BY <1>1, <1>10 DEF Hands
<1>11. ASSUME NEW s \in Slots, SubmitFails(s) \/ Unregistered(s) PROVE Hands'
  BY <1>2, <1>11, Zenon DEF SubmitFails, Unregistered
<1>12. QED
  BY <1>3, <1>4, <1>5, <1>6, <1>7, <1>8, <1>9, <1>10, <1>11 DEF LoopStep

\* A step of the thread keeps the answers.
LEMMA LoopAnswers ==
  ASSUME IInv, LoopStep \/ FlushFails \/ WaitFails
  PROVE  Answers'
<1>0. Types /\ Hands /\ Answers /\ KeepsRequests
  BY LoopKeeps DEF IInv
<1>1. UNCHANGED <<work, served, raced>>
  BY <1>0 DEF KeepsRequests, laneVars
<1>2. flight' \subseteq flight \/ \E g : flight' = flight \cup {g} /\ g.stage = "sq"
  <2>1. CASE Exit
    BY <2>1 DEF Exit
  <2>2. CASE Leave \/ Top \/ Drained \/ ClaimSlot \/ ClaimEnds \/ Flush \/ WaitEnds
             \/ FlushFails \/ WaitFails
    BY <2>1, <2>2, Zenon
    DEF Leave, Top, Drained, ClaimSlot, ClaimEnds, Flush, WaitEnds, FlushFails, WaitFails, uringVars
  <2>3. ASSUME NEW f \in flight, Drain(f) PROVE flight' \subseteq flight
    BY <2>1, <2>3 DEF Drain, Exit
  <2>4. ASSUME NEW s \in Slots,
               SubmitFails(s) \/ Unregistered(s) \/ AnswerFence(s) \/ AnswerOther(s)
        PROVE  flight' \subseteq flight
    BY <2>4, Zenon DEF SubmitFails, Unregistered, AnswerFence, AnswerOther, Answered, Exit
  <2>5. ASSUME NEW s \in Slots, SubmitRead(s)
        PROVE  \E g : flight' = flight \cup {g} /\ g.stage = "sq"
    <3> DEFINE g == [slot |-> s, ticket |-> loop.req[s], id |-> FreshId, stage |-> "sq"]
    <3>1. flight' = flight \cup {g} /\ g.stage = "sq"
      BY <2>5 DEF SubmitRead
    <3>2. QED
      BY <3>1, Zenon
  <2>6. QED
    BY <2>2, <2>3, <2>4, <2>5 DEF LoopStep
<1>3. \A f \in flight' : f.stage = "ok" => f.ticket \in served'
  BY <1>0, <1>1, <1>2 DEF Answers
<1>4. ASSUME ~raced, NEW s \in Slots, queue'[s].status = "OK"
      PROVE  work[queue'[s].ticket].op = "fence" \/ queue'[s].ticket \in served
  BY <1>0, <1>4 DEF KeepsRequests, Answers
<1>5. QED
  BY <1>1, <1>3, <1>4 DEF Answers
-----------------------------------------------------------------------------
(* Steps of the kernel and of the lanes *)

\* A read that moves on is still the same request in the same slot.
LEMMA KernelInv ==
  ASSUME IInv, KernelTake \/ KernelSleep \/ KernelFinish
  PROVE  LaneInv' /\ Hands' /\ Answers'
<1>0. Types /\ LaneInv /\ Hands /\ Answers
  BY DEF IInv
<1>1. UNCHANGED <<queue, laneVars, loop>> /\ served \subseteq served'
  BY DEF KernelTake, KernelSleep, KernelFinish
<1>2. LaneInv'
  BY <1>0, <1>1 DEF LaneInv, Busy, laneVars
<1>3. CASE UNCHANGED flight
  BY <1>0, <1>1, <1>2, <1>3 DEF Hands, Answers, Claimed, Running, laneVars
<1>4. ASSUME NEW f \in flight, NEW stage \in {"run", "ok", "failed"}, SetStage(f, stage),
             stage = "ok" => f.ticket \in served'
      PROVE  Hands' /\ Answers'
  <2>1. PICK g \in Reads : /\ flight' = (flight \ {f}) \cup {g}
                           /\ g.slot = f.slot /\ g.ticket = f.ticket /\ g.stage = stage
    BY <1>0, <1>4, SetStageMoves
  <2>2. Hands'
    BY <1>0, <1>1, <2>1 DEF Hands, Claimed, Running, laneVars
  <2>3. Answers'
    BY <1>0, <1>1, <1>4, <2>1 DEF Answers, laneVars
  <2>4. QED
    BY <2>2, <2>3
<1>5. CASE KernelTake
  BY <1>2, <1>4, <1>5 DEF KernelTake, Stage
<1>6. CASE KernelFinish
  <2>1. PICK f \in flight, ok \in BOOLEAN :
          /\ SetStage(f, IF ok THEN "ok" ELSE "failed")
          /\ served' = IF ok THEN served \cup {f.ticket} ELSE served
    BY <1>6, Zenon DEF KernelFinish, Stage
  <2>2. CASE ok
    BY <1>2, <1>4, <2>1, <2>2
  <2>3. CASE ~ok
    BY <1>2, <1>4, <2>1, <2>3
  <2>4. QED
    BY <2>2, <2>3
<1>7. CASE KernelSleep
  BY <1>2, <1>3, <1>7 DEF KernelSleep
<1>8. QED
  BY <1>5, <1>6, <1>7

\* A lane changes one slot, which the thread does not have, and a slot it
\* makes OK does not exist.
LEMMA LaneSide ==
  ASSUME IInv, NEW l \in Lanes, NEW s \in Slots, LaneStep(l), ~raced',
         UNCHANGED <<work, loop, flight, served, shutdown>>,
         \A r \in Slots \ {s} : queue'[r] = queue[r],
         ~Claimed(s), ~Claimed(s)', queue'[s].status # "OK", ~raced
  PROVE  Hands' /\ Answers'
<1>1. loop.todo \subseteq Slots /\ \A f \in flight : f.slot \in Slots
  BY DEF IInv, Types, TypeOK, Reads
<1>2. Hands'
  BY <1>1 DEF IInv, Hands, Claimed, Running
<1>3. Answers'
  BY DEF IInv, Answers
<1>4. QED
  BY <1>2, <1>3

\* Stores of a lane into one slot.
LEMMA LaneStores ==
  ASSUME Types, NEW s \in Slots, NEW x
  PROVE  /\ [queue EXCEPT ![s] = [@ EXCEPT !.ticket = x]] =
              [queue EXCEPT ![s] = [status |-> queue[s].status, ticket |-> x]]
         /\ [queue EXCEPT ![s] = [@ EXCEPT !.status = x]] =
              [queue EXCEPT ![s] = [status |-> x, ticket |-> queue[s].ticket]]
<1> DEFINE r == queue[s]
<1>1. r \in [status : Statuses, ticket : 0 .. MaxRequests]
  BY DEF Types, TypeOK
<1>2. /\ [r EXCEPT !.ticket = x] = [status |-> r.status, ticket |-> x]
      /\ [r EXCEPT !.status = x] = [status |-> x, ticket |-> r.ticket]
  BY <1>1
<1>3. QED
  BY <1>2, Zenon

\* A step of a lane keeps the invariant.
LEMMA LaneKeeps ==
  ASSUME IInv, NEW l \in Lanes, LaneStep(l)
  PROVE  LaneInv' /\ Hands' /\ Answers'
<1>0. Types /\ LaneInv /\ Hands /\ Answers
  BY DEF IInv
<1>1. /\ lane \in [Lanes -> [pc : LanePcs, slot : Slots, ticket : 0 .. MaxRequests]]
      /\ queue \in [Slots -> [status : Statuses, ticket : 0 .. MaxRequests]]
  BY <1>0 DEF Types, TypeOK
<1> DEFINE s == lane[l].slot
<1>2. s \in Slots
  BY <1>1
<1>3. UNCHANGED <<work, loop, flight, served, shutdown>> /\ (raced => raced')
  <2>1. CASE WriteRequest(l)
    BY <2>1 DEF WriteRequest, uringVars
  <2>2. CASE LoadMiss(l) \/ ScanSlot(l)
    BY <2>2 DEF LoadMiss, ScanSlot, uringVars
  <2>3. CASE PublishRequest(l) \/ PollOk(l) \/ PollGivesUp(l)
    BY <2>3 DEF PublishRequest, PollOk, PollGivesUp, uringVars
  <2>4. QED
    BY <2>1, <2>2, <2>3 DEF LaneStep
<1>4. CASE raced'
  BY <1>0, <1>3, <1>4 DEF LaneInv, Hands, Answers
<1>5. SUFFICES ASSUME ~raced', ~raced
               PROVE  LaneInv' /\ Hands' /\ Answers'
  BY <1>3, <1>4
<1>6. ASSUME UNCHANGED queue, NEW e, lane' = [lane EXCEPT ![l] = e], e.pc \notin {"publish", "poll"}
      PROVE  LaneInv' /\ Hands' /\ Answers'
  <2>1. \A m \in Lanes : m # l => lane'[m] = lane[m]
    BY <1>1, <1>6
  <2>2. lane'[l].pc \notin {"publish", "poll"}
    BY <1>1, <1>6
  <2>3. LaneInv'
    BY <1>0, <1>5, <1>6, <2>1, <2>2 DEF LaneInv, Busy
  <2>4. Hands' /\ Answers'
    BY <1>0, <1>3, <1>5, <1>6 DEF Hands, Answers, Claimed, Running
  <2>5. QED
    BY <2>3, <2>4
<1>7. CASE LoadMiss(l)
  BY <1>6, <1>7, Zenon DEF LoadMiss
<1>8. CASE ScanSlot(l)
  <2> DEFINE e == IF queue[s].status = "EMPTY" THEN [lane[l] EXCEPT !.pc = "write"]
                  ELSE IF s + 1 < SlotCount THEN [lane[l] EXCEPT !.slot = s + 1]
                  ELSE Idle
  <2>1. lane' = [lane EXCEPT ![l] = e] /\ UNCHANGED queue /\ lane[l].pc = "scan"
    BY <1>8 DEF ScanSlot
  <2>2. lane[l] \in [pc : LanePcs, slot : Slots, ticket : 0 .. MaxRequests]
    BY <1>1
  <2>3. e.pc \in {"write", "scan", "idle"}
    BY <2>1, <2>2 DEF Idle
  <2> HIDE DEF e
  <2>4. QED
    BY <1>6, <2>1, <2>3, Zenon
<1>9. CASE PollGivesUp(l)
  BY <1>6, <1>9, Zenon DEF PollGivesUp, Idle
<1>10. CASE WriteRequest(l)
  <2> DEFINE e == [lane[l] EXCEPT !.pc = "publish"]
  <2>1. lane' = [lane EXCEPT ![l] = e]
    BY <1>10 DEF WriteRequest
  <2>2. e.pc = "publish" /\ e.slot = s /\ e.ticket = lane[l].ticket
    BY <1>1
  <2> HIDE DEF e
  <2>3. /\ \A m \in Lanes : m # l => lane'[m] = lane[m]
        /\ lane'[l] = e
    BY <1>1, <2>1
  <2>4. /\ queue[s].status = "EMPTY"
        /\ \A m \in Lanes : ~(lane[m].pc = "publish" /\ lane[m].slot = s)
    BY <1>5, <1>10 DEF WriteRequest
  <2>5. queue' = [queue EXCEPT ![s] = [status |-> queue[s].status, ticket |-> lane[l].ticket]]
    BY <1>0, <1>2, <1>10, LaneStores, Zenon DEF WriteRequest
  <2>6. /\ \A r \in Slots \ {s} : queue'[r] = queue[r]
        /\ queue'[s].status = "EMPTY" /\ queue'[s].ticket = lane[l].ticket
    BY <1>1, <1>2, <2>4, <2>5
  <2>7. \A m \in Lanes : lane[m].slot \in Slots
    BY <1>1
  <2>8. \A m \in Lanes : Busy(m) => lane[m].slot # s
    BY <1>0, <1>5, <2>4 DEF LaneInv, Busy
  <2>9. LaneInv'
    <3> HIDE DEF s
    <3>1. \A m \in Lanes : Busy(m)' => m = l \/ (m # l /\ Busy(m) /\ lane'[m] = lane[m])
      BY <2>3 DEF Busy
    <3>2. QED
      BY <1>0, <1>5, <2>2, <2>3, <2>6, <2>7, <2>8, <3>1 DEF LaneInv, Busy
  <2>10. Hands' /\ Answers'
    <3>1. queue[s].status # "CLAIMED" /\ queue'[s].status # "CLAIMED"
      BY <2>4, <2>6
    <3>2. QED
      BY <1>2, <1>3, <1>5, <2>4, <2>6, <3>1, LaneSide, ZenonT(60) DEF Claimed
  <2>11. QED
    BY <2>9, <2>10
<1>11. CASE PublishRequest(l)
  <2> DEFINE e == [lane[l] EXCEPT !.pc = "poll"]
  <2>1. lane' = [lane EXCEPT ![l] = e] /\ lane[l].pc = "publish"
    BY <1>11 DEF PublishRequest
  <2>2. e.pc = "poll" /\ e.slot = s /\ e.ticket = lane[l].ticket
    BY <1>1
  <2> HIDE DEF e
  <2>3. /\ \A m \in Lanes : m # l => lane'[m] = lane[m]
        /\ lane'[l] = e
    BY <1>1, <2>1
  <2>4. queue[s].status = "EMPTY" /\ queue[s].ticket = lane[l].ticket
    BY <1>0, <1>5, <2>1 DEF LaneInv, Busy
  <2>5. queue' = [queue EXCEPT ![s] = [status |-> "PUBLISHED", ticket |-> queue[s].ticket]]
    BY <1>0, <1>2, <1>11, LaneStores, Zenon DEF PublishRequest
  <2>6. /\ \A r \in Slots \ {s} : queue'[r] = queue[r]
        /\ queue'[s].status = "PUBLISHED" /\ queue'[s].ticket = lane[l].ticket
    BY <1>1, <1>2, <2>4, <2>5
  <2>7. \A m \in Lanes : lane[m].slot \in Slots
    BY <1>1
  <2>8. \A m \in Lanes : Busy(m) /\ m # l => lane[m].slot # s
    BY <1>0, <1>5, <2>1 DEF LaneInv, Busy
  <2>9. LaneInv'
    <3> HIDE DEF s
    <3>1. \A m \in Lanes : Busy(m)' => m = l \/ (m # l /\ Busy(m) /\ lane'[m] = lane[m])
      BY <2>3 DEF Busy
    <3>2. QED
      BY <1>0, <1>5, <2>2, <2>3, <2>6, <2>7, <2>8, <3>1 DEF LaneInv, Busy
  <2>10. Hands' /\ Answers'
    <3>1. queue[s].status # "CLAIMED" /\ queue'[s].status # "CLAIMED"
      BY <2>4, <2>6
    <3>2. QED
      BY <1>2, <1>3, <1>5, <2>4, <2>6, <3>1, LaneSide, ZenonT(60) DEF Claimed
  <2>11. QED
    BY <2>9, <2>10
<1>12. CASE PollOk(l)
  <2>1. lane' = [lane EXCEPT ![l] = Idle] /\ lane[l].pc = "poll" /\ queue[s].status = "OK"
    BY <1>12 DEF PollOk
  <2>2. /\ \A m \in Lanes : m # l => lane'[m] = lane[m]
        /\ lane'[l].pc = "idle"
    BY <1>1, <2>1 DEF Idle
  <2>3. queue' = [queue EXCEPT ![s] = [status |-> "EMPTY", ticket |-> queue[s].ticket]]
    BY <1>0, <1>2, <1>12, LaneStores, Zenon DEF PollOk
  <2>4. (\A r \in Slots \ {s} : queue'[r] = queue[r]) /\ queue'[s].status = "EMPTY"
    BY <1>1, <1>2, <2>3
  <2>5. \A m \in Lanes : lane[m].slot \in Slots
    BY <1>1
  <2>6. \A m \in Lanes : Busy(m) /\ m # l => lane[m].slot # s
    BY <1>0, <1>5, <2>1 DEF LaneInv, Busy
  <2>7. LaneInv'
    <3> HIDE DEF s
    <3>1. \A m \in Lanes : Busy(m)' => m # l /\ Busy(m) /\ lane'[m] = lane[m]
      BY <2>2 DEF Busy
    <3>2. QED
      BY <1>0, <1>5, <2>2, <2>4, <2>5, <2>6, <3>1 DEF LaneInv, Busy
  <2>8. Hands' /\ Answers'
    <3>1. queue[s].status # "CLAIMED" /\ queue'[s].status # "CLAIMED"
      BY <2>1, <2>4
    <3>2. QED
      BY <1>2, <1>3, <1>5, <2>1, <2>4, <3>1, LaneSide, ZenonT(60) DEF Claimed
  <2>9. QED
    BY <2>7, <2>8
<1>13. QED
  BY <1>7, <1>8, <1>9, <1>10, <1>11, <1>12 DEF LaneStep
-----------------------------------------------------------------------------
(* The theorems *)

\* Every step keeps the invariant.
LEMMA StepInv == IInv /\ [Next]_vars => IInv'
<1> SUFFICES ASSUME IInv, [Next]_vars PROVE IInv'
  OBVIOUS
<1>0. Types
  BY DEF IInv
<1>1. ASSUME NEW l \in Lanes, LaneStep(l) PROVE IInv'
  BY <1>0, <1>1, LaneTypes, LaneKeeps DEF IInv
<1>2. CASE KernelTake \/ KernelSleep \/ KernelFinish
  BY <1>0, <1>2, KernelTypes, KernelInv DEF IInv
<1>3. CASE LoopStep \/ FlushFails \/ WaitFails
  BY <1>0, <1>3, LoopTypes, LoopLane, LoopHands, LoopAnswers DEF IInv
<1>4. CASE Stop
  <2>1. UNCHANGED <<queue, laneVars, loop, uringVars>> /\ shutdown' = TRUE
    BY <1>4 DEF Stop
  <2>2. Types'
    BY <1>0, <2>1 DEF Types, TypeOK, laneVars, uringVars
  <2>3. LaneInv' /\ Hands' /\ Answers'
    BY <2>1 DEF IInv, LaneInv, Hands, Answers, Busy, Claimed, Running, laneVars, uringVars
  <2>4. QED
    BY <2>2, <2>3 DEF IInv
<1>5. CASE UNCHANGED vars
  <2>1. UNCHANGED <<queue, laneVars, loop, uringVars, shutdown>>
    BY <1>5 DEF vars
  <2>2. Types'
    BY <1>0, <2>1 DEF Types, TypeOK, laneVars, uringVars
  <2>3. LaneInv' /\ Hands' /\ Answers'
    BY <2>1 DEF IInv, LaneInv, Hands, Answers, Busy, Claimed, Running, laneVars, uringVars
  <2>4. QED
    BY <2>2, <2>3 DEF IInv
<1>6. QED
  BY <1>1, <1>2, <1>3, <1>4, <1>5 DEF Next

\* The invariant holds in every reachable state.
LEMMA Reachable == Spec => []IInv
BY InitInv, StepInv, PTL DEF Spec

\* The queue, the lanes, the thread and the reads in flight stay well typed.
THEOREM TypeCorrect == Spec => []TypeOK
<1>1. IInv => TypeOK
  BY DEF IInv, Types
<1>2. QED
  BY <1>1, Reachable, PTL

\* The thread claims every request once and loses none while it runs: what is
\* CLAIMED is what it has in hand (claim_io_requests_words and the loop).
THEOREM ClaimsOnce == Spec => []ClaimedExactlyOnce
<1>1. IInv => ClaimedExactlyOnce
  BY DEF IInv, Hands, ClaimedExactlyOnce
<1>2. QED
  BY <1>1, Reachable, PTL

\* A lane that leaves LOAD_MISS through OK has seen the answer to its own
\* request, whatever the order in which reads end.
THEOREM OkIsOwn == Spec => []OkMeansServed
<1>1. IInv => OkMeansServed
  BY DEF IInv, Types, TypeOK, LaneInv, Answers, OkMeansServed, Busy
<1>2. QED
  BY <1>1, Reachable, PTL

-----------------------------------------------------------------------------
(* The wait for completions *)

\* Entries are committed while a batch is served and flushed at its end; an
\* entry that a sleeping kernel thread has not seen has a flush to come.
WakeInv ==
  /\ loop.pc # "dispatch" => ~dirty
  /\ asleep /\ (\E f \in flight : f.stage = "sq") => dirty
  /\ loop.pc = "wait" => flight # {}

\* The kernel's thread takes entries while it is awake and sleeps when there
\* are none; what it finishes stays in flight until it is reaped.
LEMMA KernelWake ==
  ASSUME Types, WakeInv, KernelTake \/ KernelSleep \/ KernelFinish
  PROVE  WakeInv'
<1>1. UNCHANGED <<loop, dirty>>
  BY DEF KernelTake, KernelSleep, KernelFinish
<1>2. CASE KernelSleep
  BY <1>1, <1>2 DEF KernelSleep, Stage, WakeInv
<1>3. ASSUME NEW f \in flight, NEW stage \in {"run", "ok", "failed"}, SetStage(f, stage),
             asleep' => asleep
      PROVE  WakeInv'
  <2>1. PICK g \in Reads : /\ flight' = (flight \ {f}) \cup {g}
                           /\ g.slot = f.slot /\ g.ticket = f.ticket /\ g.stage = stage
    BY <1>3, SetStageMoves
  <2>2. QED
    BY <1>1, <1>3, <2>1 DEF WakeInv
<1>4. CASE KernelTake
  BY <1>3, <1>4 DEF KernelTake, Stage
<1>5. CASE KernelFinish
  <2>1. PICK f \in flight, ok \in BOOLEAN : SetStage(f, IF ok THEN "ok" ELSE "failed")
    BY <1>5, Zenon DEF KernelFinish, Stage
  <2>2. asleep' = asleep
    BY <1>5 DEF KernelFinish
  <2>3. QED
    BY <1>3, <2>1, <2>2
<1>6. QED
  BY <1>2, <1>4, <1>5

\* The thread ends a batch with a flush, waits with something in flight, and
\* takes its reads with it when it ends.
LEMMA LoopWake ==
  ASSUME Types, WakeInv, LoopStep \/ FlushFails \/ WaitFails
  PROVE  WakeInv'
<1>0. loop \in LoopRecords
  BY DEF Types, TypeOK, LoopRecords
<1>1. CASE Exit
  BY <1>1 DEF Exit, Start, WakeInv
<1>2. ASSUME NEW pc \in LoopPcs \ {"wait", "dispatch"}, loop.pc # "dispatch", loop'.pc = pc,
             flight' \subseteq flight, UNCHANGED <<dirty, asleep>>
      PROVE  WakeInv'
  BY <1>2 DEF WakeInv
<1>3. CASE Top \/ Drained \/ WaitEnds
  <2>1. loop.pc # "dispatch" /\ UNCHANGED <<flight, dirty, asleep>>
    BY <1>3 DEF Top, Drained, WaitEnds, uringVars
  <2>2. PICK pc \in {"drain", "claim", "top"} : loop' = [loop EXCEPT !.pc = pc]
    BY <1>3 DEF Top, Drained, WaitEnds
  <2>3. loop'.pc = pc
    BY <1>0, <2>2 DEF LoopRecords
  <2>4. QED
    BY <1>2, <2>1, <2>2, <2>3 DEF LoopPcs
<1>4. ASSUME NEW f \in flight, Drain(f), ~Exit PROVE WakeInv'
  BY <1>2, <1>4 DEF Drain, LoopPcs
<1>5. CASE ClaimSlot
  <2>1. loop.pc = "claim" /\ loop'.pc = "claim" /\ UNCHANGED <<flight, dirty, asleep>>
    BY <1>0, <1>5, Zenon DEF ClaimSlot, uringVars, LoopRecords
  <2>2. QED
    BY <1>2, <2>1 DEF LoopPcs
<1>6. CASE ClaimEnds
  <2>1. loop.pc = "claim" /\ UNCHANGED <<flight, dirty, asleep>>
    BY <1>6 DEF ClaimEnds, uringVars
  <2>2. PICK pc : /\ loop' = [loop EXCEPT !.next = 0, !.pc = pc]
                  /\ pc = IF loop.batch # {} THEN "dispatch"
                          ELSE IF flight # {} THEN "wait" ELSE "top"
    BY <1>6, Zenon DEF ClaimEnds
  <2>3. loop'.pc = pc
    BY <1>0, <2>2 DEF LoopRecords
  <2>4. QED
    BY <2>1, <2>2, <2>3 DEF WakeInv
<1>7. CASE Flush
  <2>1. /\ loop'.pc = "top"
    BY <1>0, <1>7 DEF Flush, LoopRecords
  <2>2. QED
    BY <1>7, <2>1 DEF Flush, WakeInv, Types, TypeOK
<1>8. ASSUME NEW s \in Slots, SubmitRead(s) PROVE WakeInv'
  <2>1. loop'.pc = "dispatch"
    BY <1>0, <1>8 DEF SubmitRead, Serving, Handled, LoopRecords
  <2>2. QED
    BY <1>8, <2>1 DEF SubmitRead, WakeInv
<1>9. ASSUME NEW s \in Slots, AnswerFence(s) \/ AnswerOther(s), ~Exit PROVE WakeInv'
  <2>1. loop'.pc = "dispatch" /\ UNCHANGED <<flight, dirty, asleep>>
    <3>1. /\ loop.pc = "dispatch" /\ loop' = [loop EXCEPT !.todo = @ \ {s}]
          /\ UNCHANGED <<flight, dirty, asleep>>
      BY <1>9, Zenon DEF AnswerFence, AnswerOther, Answered, Serving, Handled
    <3>2. QED
      BY <1>0, <3>1 DEF LoopRecords
  <2>2. QED
    BY <2>1 DEF WakeInv
<1>10. ASSUME NEW s \in Slots, SubmitFails(s) \/ Unregistered(s) PROVE Exit
  BY <1>10, Zenon DEF SubmitFails, Unregistered
<1>11. CASE Leave \/ FlushFails \/ WaitFails
  BY <1>1, <1>11 DEF Leave, FlushFails, WaitFails
<1>12. QED
  BY <1>1, <1>3, <1>4, <1>5, <1>6, <1>7, <1>8, <1>9, <1>10, <1>11 DEF LoopStep

\* The IO thread never sleeps on a completion that cannot come: when it waits a
\* read is in flight, all entries are flushed, and the kernel's thread has seen
\* them or is awake to see them.
THEOREM WaitIsBounded == Spec => []WaitHasAnEnd
<1>1. Init => WakeInv
  BY DEF Init, Start, WakeInv
<1>2. IInv /\ WakeInv /\ [Next]_vars => WakeInv'
  <2> SUFFICES ASSUME IInv, WakeInv, [Next]_vars PROVE WakeInv'
    OBVIOUS
  <2>1. Types
    BY DEF IInv
  <2>2. CASE UNCHANGED <<loop, flight, dirty, asleep>>
    BY <2>2 DEF WakeInv
  <2>3. ASSUME NEW l \in Lanes, LaneStep(l) PROVE UNCHANGED <<loop, flight, dirty, asleep>>
    BY <2>3, Zenon DEF LaneStep, LoadMiss, ScanSlot, WriteRequest, PublishRequest, PollOk,
       PollGivesUp, uringVars
  <2>4. CASE Stop \/ UNCHANGED vars
    BY <2>2, <2>4, Zenon DEF Stop, vars, uringVars
  <2>5. QED
    BY <2>1, <2>2, <2>3, <2>4, KernelWake, LoopWake DEF Next
<1>3. WakeInv => WaitHasAnEnd
  BY DEF WakeInv, WaitHasAnEnd, Stage
<1>4. QED
  BY <1>1, <1>2, <1>3, Reachable, PTL DEF Spec
=============================================================================
