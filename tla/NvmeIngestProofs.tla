-------------------------- MODULE NvmeIngestProofs --------------------------
(***************************************************************************)
(* Proofs about NvmeIngest, for every number of slots and reads, every size *)
(* of the IO queue and of the submission queue, and every order in which    *)
(* the io_uring finishes the reads.                                         *)
(***************************************************************************)
EXTENDS NvmeIngest, FiniteSetTheorems, TLAPS

\* A leaf that names no prover is for the SMT solver, tried twice, and for Zenon
\* where the solver finds nothing.
USE SMTT(60), SMTT(70), Zenon

\* An entry at the end of a queue leaves the others where they are.
LEMMA AppendKeeps ==
  ASSUME NEW S, NEW q \in Seq(S), NEW x
  PROVE  /\ Len(Append(q, x)) = Len(q) + 1 /\ Append(q, x)[Len(q) + 1] = x /\ Len(q) \in Nat
         /\ \A k \in 1 .. Len(q) : Append(q, x)[k] = q[k]
OBVIOUS

Entries == [slot : Slots, read : 1 .. Len(reads), stage : {"sq", "run"}]
Completions == [slot : Slots, read : 1 .. Len(reads), res : Int]
Words == [status : {"EMPTY", "PUBLISHED", "DONE"}, bytes : Nat, read : 0 .. MaxReads]
Counters == [submitted : [Paths -> Nat], completed : Nat, failed : Nat,
             submitted_bytes : Nat, completed_bytes : Nat]
Reads == [path : Paths, len : ReadLens, fate : Fates, got : Nat]

\* The types of all variables.
Types ==
  /\ pending \in [Slots -> 0 .. Len(reads)]
  /\ flight \in SUBSET Entries /\ IsFiniteSet(flight)
  /\ cq \in Seq(Completions)
  /\ inflight \in Int /\ unflushed \in Nat /\ asleep \in BOOLEAN /\ polling \in BOOLEAN
  /\ queue \in [0 .. QueueSlots - 1 -> Words]
  /\ telemetry \in Counters
  /\ reads \in Seq(Reads) /\ Len(reads) <= MaxReads
  /\ memory \in [Slots -> 0 .. Len(reads)]
  /\ mark \in 0 .. Len(reads) /\ clean \in BOOLEAN

\* The slot of a read that has not been reaped waits for that read, and the
\* read belongs to the present reckoning if that began with nothing in flight.
Match(o) ==
  /\ pending[o.slot] = o.read /\ reads[o.read].fate = "flight"
  /\ clean => o.read > mark

\* The results a read may report.
ResultsOf(r) == IF r.path = "mapped" THEN -1 .. r.len ELSE -1 .. 1

\* At most one read is under way in a slot, in the io_uring or as a completion
\* whose bytes are in the slot.
Matched ==
  /\ \A f \in flight : Match(f)
  /\ \A k \in 1 .. Len(cq) : /\ Match(cq[k]) /\ memory[cq[k].slot] = cq[k].read
                             /\ cq[k].res \in ResultsOf(reads[cq[k].read])
  /\ \A f, g \in flight : f.slot = g.slot => f = g
  /\ \A j, k \in 1 .. Len(cq) : cq[j].slot = cq[k].slot => j = k
  /\ \A f \in flight, k \in 1 .. Len(cq) : f.slot # cq[k].slot
  /\ \A s, t \in Slots : pending[s] = pending[t] /\ pending[s] # 0 => s = t

\* What the histories say: a read whose end is open is under way, no read gets
\* more than it asked for, and a failure or a path leaves its trace in the
\* telemetry.
Accounted ==
  /\ \A i \in 1 .. Len(reads) :
       /\ reads[i].fate = "flight" => \/ \E f \in flight : f.read = i
                                      \/ \E k \in 1 .. Len(cq) : cq[k].read = i
       /\ reads[i].got <= reads[i].len
       /\ reads[i].fate # "published" => reads[i].got = 0
  /\ clean /\ telemetry.failed = 0 => \A i \in Since : reads[i].fate # "failed"
  /\ \A i \in Since : telemetry.submitted[reads[i].path] > 0

\* The balance of the counters.
Balance ==
  /\ inflight = Cardinality(flight) + Len(cq)
  /\ clean => SubmittedReads = telemetry.completed + telemetry.failed + inflight
                                 + Cardinality(Lost)

\* d adds up, read by read, the bytes that were asked for and not received.
Owing(d) ==
  /\ d \in [mark .. Len(reads) -> Int]
  /\ d[mark] = 0
  /\ \A i \in Since : d[i] = d[i - 1] + (reads[i].len - reads[i].got)
  /\ \A i, j \in mark .. Len(reads) : i <= j => d[i] <= d[j]
  /\ d[Len(reads)] = telemetry.submitted_bytes - telemetry.completed_bytes

\* The byte counters differ by that sum.
BytesOwed == clean => \E d : Owing(d)

IInv == Types /\ Matched /\ Accounted /\ Balance /\ BytesOwed

USE ReadPathAssumption, SlotCountAssumption, QueueSlotsAssumption, ReadLensAssumption,
    MaxReadsAssumption

\* The initial state satisfies it.
LEMMA InitIInv == Init => IInv
<1> SUFFICES ASSUME Init PROVE IInv
  OBVIOUS
<1>1. /\ reads = <<>> /\ Len(reads) = 0 /\ cq = <<>> /\ Len(cq) = 0 /\ flight = {}
      /\ mark = 0 /\ inflight = 0 /\ telemetry = NoTelemetry /\ Since = {} /\ Lost = {}
  BY DEF Init, Since, Lost
<1>2. telemetry \in Counters
  BY <1>1 DEF NoTelemetry, Counters, Paths
<1>3. IsFiniteSet({}) /\ Cardinality({}) = 0
  BY FS_EmptySet
<1>4. Types
  <2>1. queue \in [0 .. QueueSlots - 1 -> Words]
    BY DEF Init, Words
  <2>2. reads \in Seq(Reads) /\ cq \in Seq(Completions)
    BY <1>1
  <2>3. pending \in [Slots -> 0 .. Len(reads)] /\ memory \in [Slots -> 0 .. Len(reads)]
    BY <1>1 DEF Init
  <2>4. flight \in SUBSET Entries /\ IsFiniteSet(flight)
    BY <1>1, <1>3
  <2>5. inflight \in Int /\ unflushed \in Nat /\ asleep \in BOOLEAN /\ polling \in BOOLEAN
    BY DEF Init
  <2>6. Len(reads) <= MaxReads /\ mark \in 0 .. Len(reads) /\ clean \in BOOLEAN
    BY <1>1 DEF Init
  <2>7. QED
    BY <1>2, <2>1, <2>2, <2>3, <2>4, <2>5, <2>6 DEF Types
<1>5. Matched
  BY <1>1 DEF Init, Matched
<1>6. Accounted
  BY <1>1 DEF Accounted
<1>7. Balance
  BY <1>1, <1>3 DEF Balance, SubmittedReads, NoTelemetry, Paths
<1>8. BytesOwed
  <2>1. Owing([i \in 0 .. 0 |-> 0])
    BY <1>1 DEF Owing, NoTelemetry
  <2>2. QED
    BY <2>1 DEF BytesOwed
<1>9. QED
  BY <1>4, <1>5, <1>6, <1>7, <1>8 DEF IInv

\* A step that leaves the reads and the slots alone keeps the invariant.
LEMMA QuietSteps ==
  ASSUME IInv, UNCHANGED <<pending, flight, cq, inflight, telemetry, reads, memory, mark, clean>>,
         queue' \in [0 .. QueueSlots - 1 -> Words],
         unflushed' \in Nat, asleep' \in BOOLEAN, polling' \in BOOLEAN
  PROVE  IInv'
<1>1. Types'
  BY DEF IInv, Types, Entries, Completions
<1>2. Matched'
  BY DEF IInv, Matched, Match
<1>3. Accounted' /\ Balance'
  BY DEF IInv, Accounted, Balance, Since, Lost, SubmittedReads
<1>4. BytesOwed'
  BY DEF IInv, BytesOwed, Owing, Since
<1>5. QED
  BY <1>1, <1>2, <1>3, <1>4 DEF IInv

\* The kernel's thread going to sleep, the begin and the end of a poll, and the
\* consumer.
LEMMA OtherSteps ==
  ASSUME IInv, \/ KernelSleep \/ PollBegins \/ PollEnds
               \/ \E s \in DOMAIN queue : Consume(s) \/ Recycle(s)
  PROVE  IInv'
<1>0. /\ queue \in [0 .. QueueSlots - 1 -> Words] /\ unflushed \in Nat
      /\ asleep \in BOOLEAN /\ polling \in BOOLEAN
  BY DEF IInv, Types
<1>1. CASE KernelSleep \/ PollBegins \/ PollEnds
  <2>1. UNCHANGED <<pending, flight, cq, inflight, telemetry, reads, memory, mark, clean, queue>>
    BY <1>1 DEF KernelSleep, PollBegins, PollEnds, uring, history
  <2>2. unflushed' \in Nat /\ asleep' \in BOOLEAN /\ polling' \in BOOLEAN
    BY <1>0, <1>1 DEF KernelSleep, PollBegins, PollEnds, uring
  <2>3. QED
    BY <1>0, <2>1, <2>2, QuietSteps
<1>2. ASSUME NEW s \in DOMAIN queue, Consume(s) \/ Recycle(s) PROVE IInv'
  <2>1. UNCHANGED <<pending, flight, cq, asleep, inflight, telemetry, reads, memory, mark, clean,
                    unflushed, polling>>
    BY <1>2 DEF Consume, Recycle, uring, history
  <2>2. s \in 0 .. QueueSlots - 1 /\ queue[s] \in Words
    BY <1>0, <1>2
  <2>3. PICK st \in {"EMPTY", "DONE"} : queue' = [queue EXCEPT ![s] = [@ EXCEPT !.status = st]]
    BY <1>2 DEF Consume, Recycle
  <2>4. [queue[s] EXCEPT !.status = st] \in Words
    BY <2>2 DEF Words
  <2>5. queue' \in [0 .. QueueSlots - 1 -> Words]
    BY <1>0, <2>2, <2>3, <2>4
  <2>6. QED
    BY <1>0, <2>1, <2>5, QuietSteps
<1>3. QED
  BY <1>1, <1>2

\* The thread takes an entry: the read is under way as before.
LEMMA TakeStep ==
  ASSUME IInv, KernelTake
  PROVE  IInv'
<1>0. Types /\ Matched /\ Accounted /\ Balance /\ BytesOwed
  BY DEF IInv
<1>1. PICK f \in flight : /\ f.stage = "sq"
                          /\ flight' = (flight \ {f}) \cup {[f EXCEPT !.stage = "run"]}
  BY DEF KernelTake
<1>2. UNCHANGED <<pending, cq, asleep, inflight, unflushed, queue, telemetry, polling, reads,
                  memory, mark, clean>>
  BY DEF KernelTake, history
<1> DEFINE g == [f EXCEPT !.stage = "run"]
<1>3. f \in Entries /\ g \in Entries /\ g.slot = f.slot /\ g.read = f.read /\ g # f
  <2>1. f \in Entries
    BY <1>0, <1>1 DEF Types
  <2>2. QED
    BY <1>1, <2>1 DEF Entries
<1> HIDE DEF g
<1>4. flight' = (flight \ {f}) \cup {g}
  BY <1>1 DEF g
<1>5. g \notin flight
  BY <1>0, <1>1, <1>3 DEF Matched
<1>6. IsFiniteSet(flight') /\ Cardinality(flight') = Cardinality(flight)
  <2>1. IsFiniteSet(flight)
    BY <1>0 DEF Types
  <2>2. IsFiniteSet(flight \ {f}) /\ Cardinality(flight \ {f}) = Cardinality(flight) - 1
    BY <1>1, <2>1, FS_RemoveElement
  <2>3. g \notin flight \ {f}
    BY <1>5
  <2>4. Cardinality(flight') = Cardinality(flight) - 1 + 1 /\ IsFiniteSet(flight')
    BY <1>4, <2>2, <2>3, FS_AddElement
  <2>5. Cardinality(flight) \in Nat
    BY <2>1, FS_CardinalityType
  <2>6. QED
    BY <2>4, <2>5
<1>7. Types'
  <2>1. flight' \in SUBSET Entries
    BY <1>0, <1>3, <1>4 DEF Types
  <2>2. QED
    BY <1>0, <1>2, <1>6, <2>1 DEF Types, Entries, Completions
<1>8. \A h \in flight' : (h \in flight /\ h # f) \/ h = g
  BY <1>4
<1>9. Matched'
  <2>1. \A o : Match(o)' <=> Match(o)
    BY <1>2 DEF Match
  <2>2. Match(g)
    BY <1>0, <1>1, <1>3 DEF Matched, Match
  <2>3. \A h \in flight' : Match(h)'
    BY <1>0, <1>8, <2>1, <2>2 DEF Matched
  <2>4. \A h, k \in flight' : h.slot = k.slot => h = k
    BY <1>0, <1>1, <1>3, <1>8 DEF Matched
  <2>5. \A h \in flight', k \in 1 .. Len(cq) : h.slot # cq[k].slot
    BY <1>0, <1>1, <1>3, <1>8 DEF Matched
  <2>6. QED
    BY <1>0, <1>2, <2>3, <2>4, <2>5 DEF Matched, Match
<1>10. Accounted'
  <2>1. \A k \in flight : \E h \in flight' : h.read = k.read
    BY <1>3, <1>4
  <2>2. QED
    BY <1>0, <1>2, <2>1 DEF Accounted, Since
<1>11. Balance' /\ BytesOwed'
  BY <1>0, <1>2, <1>6 DEF Balance, BytesOwed, Owing, Since, Lost, SubmittedReads
<1>12. QED
  BY <1>7, <1>9, <1>10, <1>11 DEF IInv

\* A read ends: its entry becomes a completion, behind the others, and its
\* bytes are in its slot.
LEMMA FinishStep ==
  ASSUME IInv, KernelFinish
  PROVE  IInv'
<1>0. Types /\ Matched /\ Accounted /\ Balance /\ BytesOwed
  BY DEF IInv
<1>a. PICK f \in flight : \E res \in Results(f.read) :
        /\ flight' = flight \ {f}
        /\ cq' = Append(cq, [slot |-> f.slot, read |-> f.read, res |-> res])
        /\ memory' = [memory EXCEPT ![f.slot] = f.read]
  BY Zenon DEF KernelFinish
<1>1. PICK res \in Results(f.read) :
        /\ flight' = flight \ {f}
        /\ cq' = Append(cq, [slot |-> f.slot, read |-> f.read, res |-> res])
        /\ memory' = [memory EXCEPT ![f.slot] = f.read]
  BY <1>a
<1>2. UNCHANGED <<pending, asleep, inflight, unflushed, queue, telemetry, polling, reads, mark,
                  clean>>
  BY DEF KernelFinish, history
<1> DEFINE c == [slot |-> f.slot, read |-> f.read, res |-> res]
<1>3. /\ f \in Entries /\ f.slot \in Slots /\ f.read \in 1 .. Len(reads)
      /\ reads[f.read] \in Reads
  BY <1>0 DEF Types, Entries
<1>4. res \in Int
  BY <1>3 DEF Results, Reads
<1>5. c \in Completions /\ c.slot = f.slot /\ c.read = f.read /\ c.res = res
  BY <1>3, <1>4 DEF Completions
<1> HIDE DEF c
<1>6. /\ cq' \in Seq(Completions) /\ Len(cq') = Len(cq) + 1 /\ Len(cq) \in Nat
      /\ cq'[Len(cq) + 1] = c /\ \A k \in 1 .. Len(cq) : cq'[k] = cq[k]
  <2>1. cq \in Seq(Completions) /\ cq' = Append(cq, c)
    BY <1>0, <1>1 DEF Types, c
  <2>2. QED
    BY <1>5, <2>1
<1>7. \A k \in 1 .. Len(cq') : k \in 1 .. Len(cq) \/ k = Len(cq) + 1
  BY <1>6
<1>8. /\ memory' \in [Slots -> 0 .. Len(reads)] /\ memory'[f.slot] = f.read
      /\ \A s \in Slots \ {f.slot} : memory'[s] = memory[s]
  BY <1>0, <1>1, <1>3 DEF Types
<1>9. IsFiniteSet(flight') /\ Cardinality(flight') = Cardinality(flight) - 1
  BY <1>0, <1>1, FS_RemoveElement DEF Types
<1>10. Types'
  BY <1>0, <1>1, <1>2, <1>6, <1>8, <1>9 DEF Types, Entries, Completions
<1>11. Matched'
  <2>1. \A h \in flight' : h \in flight /\ h.slot # f.slot
    BY <1>0, <1>1 DEF Matched
  <2>2. \A k \in 1 .. Len(cq) : cq[k].slot \in Slots /\ cq[k].slot # f.slot
    <3>1. \A k \in 1 .. Len(cq) : cq[k] \in Completions
      BY <1>0 DEF Types
    <3>2. QED
      BY <1>0, <3>1 DEF Matched, Completions
  <2>3. Match(f) /\ \A o : Match(o)' <=> Match(o)
    BY <1>0, <1>2 DEF Matched, Match
  <2>4. \A h \in flight' : Match(h)'
    BY <1>0, <2>1, <2>3 DEF Matched
  <2>5. Match(c)
    BY <1>5, <2>3 DEF Match
  <2>6. \A k \in 1 .. Len(cq) : Match(cq[k]) /\ memory[cq[k].slot] = cq[k].read
                                /\ cq[k].res \in ResultsOf(reads[cq[k].read])
    BY <1>0 DEF Matched
  <2>7. ASSUME NEW k \in 1 .. Len(cq')
        PROVE  Match(cq[k])' /\ memory'[cq'[k].slot] = cq'[k].read
               /\ cq'[k].res \in ResultsOf(reads'[cq'[k].read])
    <3>1. CASE k \in 1 .. Len(cq)
      <4>1. cq'[k] = cq[k] /\ memory'[cq[k].slot] = memory[cq[k].slot]
        BY <1>6, <1>8, <2>2, <3>1
      <4>2. QED
        BY <1>2, <2>6, <3>1, <4>1 DEF Match
    <3>2. CASE k = Len(cq) + 1
      <4>1. cq'[k] = c
        BY <1>6, <3>2
      <4>2. res \in ResultsOf(reads[f.read])
        BY <1>1 DEF Results, ResultsOf
      <4>3. QED
        BY <1>2, <1>5, <1>8, <2>5, <4>1, <4>2 DEF Match
    <3>3. QED
      BY <1>7, <3>1, <3>2
  <2>8. \A j, k \in 1 .. Len(cq') : cq'[j].slot = cq'[k].slot => j = k
    <3>1. \A j, k \in 1 .. Len(cq) : cq[j].slot = cq[k].slot => j = k
      BY <1>0 DEF Matched
    <3>2. QED
      BY <1>5, <1>6, <1>7, <2>2, <3>1
  <2>9. \A h \in flight', k \in 1 .. Len(cq') : h.slot # cq'[k].slot
    <3>1. \A h \in flight, k \in 1 .. Len(cq) : h.slot # cq[k].slot
      BY <1>0 DEF Matched
    <3>2. QED
      BY <1>5, <1>6, <1>7, <2>1, <3>1
  <2>10. \A h, k \in flight' : h.slot = k.slot => h = k
    BY <1>0, <2>1 DEF Matched
  <2>11. \A s, t \in Slots : pending'[s] = pending'[t] /\ pending'[s] # 0 => s = t
    BY <1>0, <1>2 DEF Matched
  <2>12. QED
    BY <2>4, <2>7, <2>8, <2>9, <2>10, <2>11 DEF Matched
<1>12. Accounted'
  <2>1. ASSUME NEW i, (\E h \in flight : h.read = i) \/ (\E k \in 1 .. Len(cq) : cq[k].read = i)
        PROVE  (\E h \in flight' : h.read = i) \/ (\E k \in 1 .. Len(cq') : cq'[k].read = i)
    <3>1. \A k \in 1 .. Len(cq) : k \in 1 .. Len(cq')
      BY <1>6
    <3>2. Len(cq) + 1 \in 1 .. Len(cq') /\ cq'[Len(cq) + 1].read = f.read
      BY <1>5, <1>6
    <3>3. QED
      BY <1>1, <1>6, <2>1, <3>1, <3>2
  <2>2. QED
    BY <1>0, <1>2, <2>1, Zenon DEF Accounted, Since
<1>13. Balance'
  <2>1. Cardinality(flight) \in Nat
    BY <1>0, FS_CardinalityType DEF Types
  <2>2. Cardinality(flight') + Len(cq') = Cardinality(flight) + Len(cq)
    BY <1>6, <1>9, <2>1
  <2>3. QED
    BY <1>0, <1>2, <2>2 DEF Balance, Since, Lost, SubmittedReads
<1>14. BytesOwed'
  BY <1>0, <1>2 DEF BytesOwed, Owing, Since
<1>15. QED
  BY <1>10, <1>11, <1>12, <1>13, <1>14 DEF IInv

\* The reads that were refused are finitely many.
LEMMA LostFinite ==
  ASSUME Types
  PROVE  IsFiniteSet(Lost)
<1>1. IsFiniteSet(1 .. Len(reads))
  BY FS_Interval DEF Types
<1>2. Lost \in SUBSET (1 .. Len(reads))
  BY DEF Types, Lost, Since
<1>3. QED
  BY <1>1, <1>2, FS_Subset, Zenon

\* What a submission changes.
LEMMA SubmitFacts ==
  ASSUME Types, NEW s \in Slots, NEW path \in Paths, NEW len \in ReadLens, Submit(s, path, len)
  PROVE  LET i == Len(reads) + 1 IN
         /\ i \in 1 .. MaxReads /\ Len(reads) \in Nat
         /\ reads' \in Seq(Reads) /\ Len(reads') = i
         /\ reads'[i] = [path |-> path, len |-> len, fate |-> "flight", got |-> 0]
         /\ \A k \in 1 .. Len(reads) : reads'[k] = reads[k] /\ reads[k] \in Reads
         /\ flight' = flight \cup {[slot |-> s, read |-> i, stage |-> "sq"]}
         /\ pending[s] = 0 /\ pending'[s] = i /\ pending' \in [Slots -> 0 .. i]
         /\ \A t \in Slots \ {s} : pending'[t] = pending[t]
         /\ inflight' = inflight + 1 /\ unflushed' \in Nat
         /\ telemetry' \in Counters
         /\ telemetry'.submitted[path] = telemetry.submitted[path] + 1
         /\ \A p \in Paths \ {path} : telemetry'.submitted[p] = telemetry.submitted[p]
         /\ telemetry'.submitted_bytes = telemetry.submitted_bytes + len
         /\ telemetry'.completed = telemetry.completed /\ telemetry'.failed = telemetry.failed
         /\ telemetry'.completed_bytes = telemetry.completed_bytes
         /\ UNCHANGED <<cq, asleep, queue, polling, memory, mark, clean>>
<1> DEFINE i == Len(reads) + 1
           r == [path |-> path, len |-> len, fate |-> "flight", got |-> 0]
<1>1. /\ Len(reads) < MaxReads /\ reads' = Append(reads, r)
      /\ flight' = flight \cup {[slot |-> s, read |-> i, stage |-> "sq"]}
      /\ pending[s] = 0 /\ pending' = [pending EXCEPT ![s] = i]
      /\ inflight' = inflight + 1 /\ unflushed' = unflushed + 1
      /\ UNCHANGED <<cq, asleep, queue, polling, memory, mark, clean>>
  BY DEF Submit, SlotFree, history
<1>2. r \in Reads
  BY DEF Reads, Fates
<1>3. reads \in Seq(Reads) /\ Len(reads) \in Nat
  BY DEF Types
<1> HIDE DEF r
<1>4. /\ reads' \in Seq(Reads) /\ Len(reads') = i /\ reads'[i] = r
      /\ \A k \in 1 .. Len(reads) : reads'[k] = reads[k] /\ reads[k] \in Reads
  BY <1>1, <1>2, <1>3
<1>5. i \in 1 .. MaxReads
  BY <1>1, <1>3
<1>6. /\ pending'[s] = i /\ pending' \in [Slots -> 0 .. i]
      /\ \A t \in Slots \ {s} : pending'[t] = pending[t]
  <2>1. pending \in [Slots -> 0 .. Len(reads)]
    BY DEF Types
  <2>2. pending \in [Slots -> 0 .. i] /\ i \in 0 .. i
    BY <1>3, <2>1
  <2>3. QED
    BY <1>1, <2>2
<1>7. /\ telemetry' \in Counters
      /\ telemetry'.submitted[path] = telemetry.submitted[path] + 1
      /\ \A p \in Paths \ {path} : telemetry'.submitted[p] = telemetry.submitted[p]
      /\ telemetry'.submitted_bytes = telemetry.submitted_bytes + len
      /\ telemetry'.completed = telemetry.completed /\ telemetry'.failed = telemetry.failed
      /\ telemetry'.completed_bytes = telemetry.completed_bytes
  <2> DEFINE sub == [telemetry.submitted EXCEPT ![path] = @ + 1]
             bytes == telemetry.submitted_bytes + len
  <2>1. telemetry \in Counters /\ len \in Nat
    BY DEF Types
  <2>2. telemetry' = [telemetry EXCEPT !.submitted = sub, !.submitted_bytes = bytes]
    BY <2>1 DEF Submit, Counters
  <2>3. telemetry.submitted \in [Paths -> Nat] /\ telemetry.submitted_bytes \in Nat
    BY <2>1 DEF Counters
  <2>4. /\ sub \in [Paths -> Nat] /\ bytes \in Nat /\ sub[path] = telemetry.submitted[path] + 1
        /\ \A p \in Paths \ {path} : sub[p] = telemetry.submitted[p]
    BY <2>1, <2>3
  <2> HIDE DEF sub
  <2>5. /\ telemetry' \in Counters /\ telemetry'.submitted = sub
        /\ telemetry'.submitted_bytes = bytes
        /\ telemetry'.completed = telemetry.completed /\ telemetry'.failed = telemetry.failed
        /\ telemetry'.completed_bytes = telemetry.completed_bytes
    BY <2>1, <2>2, <2>4, Zenon DEF Counters
  <2>6. QED
    BY <2>4, <2>5
<1>8. unflushed' \in Nat
  BY <1>1 DEF Types
<1>9. QED
  BY <1>1, <1>3, <1>4, <1>5, <1>6, <1>7, <1>8 DEF r

\* A submission puts a new read into a slot in which nothing is under way.
LEMMA SubmitStep ==
  ASSUME IInv, NEW s \in Slots, NEW path \in Paths, NEW len \in ReadLens, Submit(s, path, len)
  PROVE  IInv'
<1> DEFINE i == Len(reads) + 1
           e == [slot |-> s, read |-> i, stage |-> "sq"]
<1>0. Types /\ Matched /\ Accounted /\ Balance /\ BytesOwed
  BY DEF IInv
<1>1. /\ i \in 1 .. MaxReads /\ Len(reads) \in Nat
      /\ reads' \in Seq(Reads) /\ Len(reads') = i
      /\ reads'[i].path = path /\ reads'[i].len = len /\ reads'[i].fate = "flight"
      /\ reads'[i].got = 0
      /\ \A k \in 1 .. Len(reads) : reads'[k] = reads[k] /\ reads[k] \in Reads
      /\ UNCHANGED <<cq, asleep, queue, polling, memory, mark, clean>>
  <2>1. /\ i \in 1 .. MaxReads /\ Len(reads) \in Nat
        /\ reads' \in Seq(Reads) /\ Len(reads') = i
        /\ \A k \in 1 .. Len(reads) : reads'[k] = reads[k] /\ reads[k] \in Reads
        /\ UNCHANGED <<cq, asleep, queue, polling, memory, mark, clean>>
    BY <1>0, SubmitFacts, ZenonT(60)
  <2>2. reads'[i] = [path |-> path, len |-> len, fate |-> "flight", got |-> 0]
    BY <1>0, SubmitFacts
  <2>3. QED
    BY <2>1, <2>2
<1>2. /\ flight' = flight \cup {e}
      /\ pending[s] = 0 /\ pending'[s] = i /\ pending' \in [Slots -> 0 .. i]
      /\ \A t \in Slots \ {s} : pending'[t] = pending[t]
      /\ inflight' = inflight + 1 /\ unflushed' \in Nat
  BY <1>0, SubmitFacts, Zenon
<1>3. /\ telemetry' \in Counters /\ telemetry \in Counters
      /\ telemetry'.submitted[path] = telemetry.submitted[path] + 1
      /\ \A p \in Paths \ {path} : telemetry'.submitted[p] = telemetry.submitted[p]
      /\ telemetry'.submitted_bytes = telemetry.submitted_bytes + len
      /\ telemetry'.completed = telemetry.completed /\ telemetry'.failed = telemetry.failed
      /\ telemetry'.completed_bytes = telemetry.completed_bytes
  <2>1. telemetry \in Counters
    BY <1>0 DEF Types
  <2>2. QED
    BY <1>0, <2>1, SubmitFacts, ZenonT(60)
<1>4. e.slot = s /\ e.read = i /\ e.stage = "sq"
  OBVIOUS
<1>5. /\ \A f \in flight : f \in Entries /\ f.slot \in Slots /\ f.read \in 1 .. Len(reads)
      /\ \A k \in 1 .. Len(cq) : cq[k].slot \in Slots /\ cq[k].read \in 1 .. Len(reads)
  <2>1. \A k \in 1 .. Len(cq) : cq[k] \in Completions
    BY <1>0 DEF Types
  <2>2. QED
    BY <1>0, <2>1, Zenon DEF Types, Entries, Completions
<1>6. /\ \A f \in flight : f.slot # s
      /\ \A k \in 1 .. Len(cq) : cq[k].slot # s
  BY <1>0, <1>2, <1>5 DEF Matched, Match
<1>7. e \notin flight
  BY <1>4, <1>6
<1>8. IsFiniteSet(flight') /\ Cardinality(flight') = Cardinality(flight) + 1
  BY <1>0, <1>2, <1>7, FS_AddElement, Zenon DEF Types
<1>9. 1 .. i = (1 .. Len(reads)) \cup {i} /\ i \notin 1 .. Len(reads)
  BY <1>1
<1>10. Types'
  <2>1. e \in Entries'
    BY <1>1 DEF Entries
  <2>2. Entries \subseteq Entries' /\ Completions \subseteq Completions'
    BY <1>1, <1>9 DEF Entries, Completions
  <2>3. flight' \in SUBSET Entries'
    BY <1>0, <1>2, <2>1, <2>2 DEF Types
  <2>4. cq' \in Seq(Completions')
    <3> DEFINE C == Completions
               D == Completions'
    <3>1. C \subseteq D /\ cq \in Seq(C)
      BY <1>0, <2>2 DEF Types
    <3> HIDE DEF C, D
    <3>2. cq \in Seq(D)
      BY <3>1
    <3>3. QED
      BY <1>1, <3>2 DEF D
  <2>5. memory' \in [Slots -> 0 .. Len(reads')] /\ mark' \in 0 .. Len(reads')
    BY <1>0, <1>1 DEF Types
  <2>6. inflight' \in Int
    BY <1>0, <1>2 DEF Types
  <2>7. QED
    BY <1>0, <1>1, <1>2, <1>3, <1>8, <2>3, <2>4, <2>5, <2>6 DEF Types
<1> HIDE DEF e
<1>11. Matched'
  <2>2. i > mark
    BY <1>0, <1>1 DEF Types
  <2>3. \A f \in flight' : Match(f)'
    <3> SUFFICES ASSUME NEW f \in flight' PROVE Match(f)'
      OBVIOUS
    <3>1. CASE f = e
      <4>1. f.slot = s /\ f.read = i
        BY <1>4, <3>1
      <4>2. QED
        BY <1>1, <1>2, <2>2, <4>1 DEF Match
    <3>2. CASE f \in flight
      <4>1. f.slot \in Slots \ {s} /\ f.read \in 1 .. Len(reads)
        BY <1>5, <1>6, <3>2, Zenon
      <4>2. reads'[f.read] = reads[f.read] /\ pending'[f.slot] = pending[f.slot]
        BY <1>1, <1>2, <4>1, Zenon
      <4>3. Match(f)
        BY <1>0, <3>2 DEF Matched
      <4>4. QED
        BY <1>1, <4>2, <4>3 DEF Match
    <3>3. QED
      BY <1>2, <3>1, <3>2
  <2>4. ASSUME NEW k \in 1 .. Len(cq')
        PROVE  Match(cq[k])' /\ memory'[cq'[k].slot] = cq'[k].read
               /\ cq'[k].res \in ResultsOf(reads'[cq'[k].read])
    <3>1. k \in 1 .. Len(cq) /\ cq'[k] = cq[k] /\ reads'[cq[k].read] = reads[cq[k].read]
      BY <1>1, <1>5
    <3>2. /\ Match(cq[k]) /\ memory[cq[k].slot] = cq[k].read
          /\ cq[k].res \in ResultsOf(reads[cq[k].read])
      BY <1>0, <3>1 DEF Matched
    <3>3. pending'[cq[k].slot] = pending[cq[k].slot]
      BY <1>2, <1>5, <1>6, <3>1
    <3>4. QED
      BY <1>1, <3>1, <3>2, <3>3 DEF Match
  <2>5. /\ \A f, g \in flight' : f.slot = g.slot => f = g
        /\ \A f \in flight', k \in 1 .. Len(cq') : f.slot # cq'[k].slot
    BY <1>0, <1>1, <1>2, <1>4, <1>6 DEF Matched
  <2>6. \A j, k \in 1 .. Len(cq') : cq'[j].slot = cq'[k].slot => j = k
    BY <1>0, <1>1 DEF Matched
  <2>7. \A t, u \in Slots : pending'[t] = pending'[u] /\ pending'[t] # 0 => t = u
    <3>1. \A t \in Slots : pending[t] \in 0 .. Len(reads)
      BY <1>0 DEF Types
    <3>2. \A t \in Slots \ {s} : pending'[t] # i
      BY <1>1, <1>2, <3>1
    <3>3. QED
      BY <1>0, <1>2, <3>2 DEF Matched
  <2>8. QED
    BY <2>3, <2>4, <2>5, <2>6, <2>7 DEF Matched
<1>12. Since' = Since \cup {i}
  BY <1>0, <1>1 DEF Since, Types
<1>13. Accounted'
  <2>1. ASSUME NEW k \in 1 .. Len(reads')
        PROVE  /\ reads'[k].fate = "flight" => \/ \E f \in flight' : f.read = k
                                               \/ \E j \in 1 .. Len(cq') : cq'[j].read = k
               /\ reads'[k].got <= reads'[k].len
               /\ reads'[k].fate # "published" => reads'[k].got = 0
    <3>1. CASE k = i
      <4>1. 0 <= len
        OBVIOUS
      <4>2. QED
        BY <1>1, <1>2, <1>4, <3>1, <4>1
    <3>2. CASE k \in 1 .. Len(reads)
      BY <1>0, <1>1, <1>2, <3>2 DEF Accounted
    <3>3. QED
      BY <1>1, <1>9, <3>1, <3>2
  <2>2. \A k \in Since : k \in 1 .. Len(reads)
    BY <1>0, <1>1 DEF Since, Types
  <2>3. clean' /\ telemetry'.failed = 0 => \A k \in Since' : reads'[k].fate # "failed"
    BY <1>0, <1>1, <1>3, <1>12, <2>2 DEF Accounted
  <2>4. \A p \in Paths : telemetry.submitted[p] \in Nat
    BY <1>3 DEF Counters
  <2>5. \A k \in Since' : telemetry'.submitted[reads'[k].path] > 0
    <3>1. ASSUME NEW k \in Since PROVE telemetry'.submitted[reads'[k].path] > 0
      <4>1. reads'[k] = reads[k] /\ reads[k].path \in Paths
        BY <1>1, <2>2 DEF Reads
      <4>2. telemetry.submitted[reads[k].path] > 0
        BY <1>0 DEF Accounted
      <4>3. QED
        BY <1>3, <2>4, <4>1, <4>2
    <3>2. telemetry'.submitted[reads'[i].path] > 0
      BY <1>1, <1>3, <2>4
    <3>3. QED
      BY <1>12, <3>1, <3>2
  <2>6. QED
    BY <2>1, <2>3, <2>5 DEF Accounted
<1>14. Balance'
  <2>1. Lost' = Lost
    <3>1. \A k \in Since : k \in 1 .. Len(reads)
      BY <1>0, <1>1 DEF Since, Types
    <3>2. reads'[i].fate # "lost"
      BY <1>1
    <3>3. QED
      BY <1>1, <1>12, <3>1, <3>2 DEF Lost
  <2>2. SubmittedReads' = SubmittedReads + 1
    BY <1>3 DEF SubmittedReads, Paths, Counters
  <2>3. Cardinality(flight) \in Nat /\ Len(cq) \in Nat
    BY <1>0, FS_CardinalityType DEF Types
  <2>4. inflight' = Cardinality(flight') + Len(cq')
    BY <1>0, <1>1, <1>2, <1>8, <2>3 DEF Balance
  <2>5. clean' => SubmittedReads' = telemetry'.completed + telemetry'.failed + inflight'
                                      + Cardinality(Lost')
    <3> SUFFICES ASSUME clean
                 PROVE  SubmittedReads' = telemetry'.completed + telemetry'.failed + inflight'
                                            + Cardinality(Lost')
      BY <1>1
    <3>1. telemetry.completed \in Nat /\ telemetry.failed \in Nat /\ inflight \in Int
      BY <1>0, <1>3 DEF Counters, Types
    <3>2. SubmittedReads = telemetry.completed + telemetry.failed + inflight + Cardinality(Lost)
      BY <1>0 DEF Balance
    <3>3. Cardinality(Lost) \in Nat
      BY <1>0, LostFinite, FS_CardinalityType
    <3> DEFINE lost == Cardinality(Lost)
               all == SubmittedReads
    <3>4. lost \in Nat /\ all = telemetry.completed + telemetry.failed + inflight + lost
      BY <3>2, <3>3
    <3>5. Cardinality(Lost') = lost
      BY <2>1
    <3> HIDE DEF lost, all
    <3>6. all + 1 = telemetry.completed + telemetry.failed + (inflight + 1) + lost
      BY <3>1, <3>4
    <3>7. SubmittedReads' = all + 1
      BY <2>2 DEF all
    <3>8. QED
      BY <1>2, <1>3, <3>5, <3>6, <3>7
  <2>6. QED
    BY <2>4, <2>5 DEF Balance
<1>15. BytesOwed'
  <2> SUFFICES ASSUME clean PROVE \E d : Owing(d)'
    BY <1>1 DEF BytesOwed
  <2>1. PICK d : Owing(d)
    BY <1>0 DEF BytesOwed
  <2> DEFINE n == Len(reads)
             sum == [k \in mark .. i |-> IF k = i THEN d[n] + len ELSE d[k]]
  <2>2. /\ d \in [mark .. n -> Int] /\ d[mark] = 0
        /\ \A k \in Since : d[k] = d[k - 1] + (reads[k].len - reads[k].got)
        /\ \A j, k \in mark .. n : j <= k => d[j] <= d[k]
        /\ d[n] = telemetry.submitted_bytes - telemetry.completed_bytes
    BY <2>1 DEF Owing
  <2>3. /\ mark \in 0 .. n /\ n \in Nat /\ len \in Nat /\ i = n + 1
        /\ telemetry.submitted_bytes \in Nat /\ telemetry.completed_bytes \in Nat
    BY <1>0, <1>1, <1>3 DEF Types, Counters
  <2>4. PICK b : /\ b \in [mark .. i -> Int] /\ b[i] = d[n] + len
                 /\ \A k \in mark .. n : b[k] = d[k]
    <3>1. /\ sum \in [mark .. i -> Int] /\ sum[i] = d[n] + len
          /\ \A k \in mark .. n : sum[k] = d[k]
      BY <2>2, <2>3
    <3>2. QED
      BY <3>1, Zenon
  <2>5. b[mark] = 0
    BY <2>2, <2>3, <2>4
  <2>6. ASSUME NEW k \in Since' PROVE b[k] = b[k - 1] + (reads'[k].len - reads'[k].got)
    <3>1. CASE k = i
      <4>1. i - 1 = n /\ n \in mark .. n /\ d[n] \in Int
        BY <2>2, <2>3
      <4>2. b[i - 1] = d[n] /\ reads'[i].len - reads'[i].got = len
        BY <1>1, <2>3, <2>4, <4>1
      <4>3. QED
        BY <2>4, <3>1, <4>2
    <3>2. CASE k \in Since
      <4>1. k \in mark + 1 .. n /\ k \in mark .. n /\ k - 1 \in mark .. n /\ k \in 1 .. n
        BY <2>3, <3>2 DEF Since
      <4>2. QED
        BY <1>1, <2>2, <2>4, <3>2, <4>1
    <3>3. QED
      BY <1>12, <3>1, <3>2
  <2>7. ASSUME NEW j \in mark .. i, NEW k \in mark .. i, j <= k PROVE b[j] <= b[k]
    <3>1. CASE k = i
      <4>1. n \in mark .. n /\ d[n] \in Int
        BY <2>2, <2>3
      <4>2. CASE j = i
        BY <2>4, <3>1, <4>1, <4>2, <2>3
      <4>3. CASE j # i
        <5>1. j \in mark .. n /\ j <= n
          BY <2>3, <4>3
        <5>2. b[j] = d[j] /\ d[j] <= d[n] /\ d[j] \in Int
          BY <2>2, <2>4, <4>1, <5>1
        <5>3. QED
          BY <2>3, <2>4, <3>1, <4>1, <5>2
      <4>4. QED
        BY <4>2, <4>3
    <3>2. CASE k # i
      <4>1. j \in mark .. n /\ k \in mark .. n
        BY <2>3, <2>7, <3>2
      <4>2. QED
        BY <2>2, <2>4, <2>7, <4>1
    <3>3. QED
      BY <3>1, <3>2
  <2>8. b[i] = telemetry'.submitted_bytes - telemetry'.completed_bytes
    BY <1>3, <2>2, <2>3, <2>4
  <2>9. Owing(b)'
    <3>1. mark' .. Len(reads') = mark .. i /\ mark' = mark
      BY <1>1
    <3>2. b \in [mark' .. Len(reads') -> Int] /\ b[mark'] = 0
      BY <2>4, <2>5, <3>1, Zenon
    <3>3. \A j, k \in mark' .. Len(reads') : j <= k => b[j] <= b[k]
      BY <2>7, <3>1, Zenon
    <3>4. b[Len(reads')] = telemetry'.submitted_bytes - telemetry'.completed_bytes
      BY <1>1, <2>8
    <3>5. QED
      BY <2>6, <3>2, <3>3, <3>4 DEF Owing
  <2>10. QED
    BY <2>9
<1>16. QED
  BY <1>10, <1>11, <1>13, <1>14, <1>15 DEF IInv

\* The completion at the head is the one its slot waits for; nothing else that
\* is under way has its slot or its read.
LEMMA AdvanceFacts ==
  ASSUME Types, Matched, Advance
  PROVE  LET c == cq[1] IN
         /\ Head(cq) = c /\ Len(cq) \in Nat /\ Len(cq) > 0
         /\ c.slot \in Slots /\ c.read \in 1 .. Len(reads) /\ c.res \in Int
         /\ pending[c.slot] = c.read /\ reads[c.read].fate = "flight"
         /\ memory[c.slot] = c.read /\ (clean => c.read > mark)
         /\ c.res \in ResultsOf(reads[c.read])
         /\ cq' \in Seq(Completions) /\ Len(cq') = Len(cq) - 1
         /\ \A k \in 1 .. Len(cq') : cq'[k] = cq[k + 1] /\ k + 1 \in 1 .. Len(cq)
         /\ pending' \in [Slots -> 0 .. Len(reads)] /\ pending'[c.slot] = 0
         /\ \A t \in Slots \ {c.slot} : pending'[t] = pending[t]
         /\ \A f \in flight : /\ f.slot \in Slots \ {c.slot}
                              /\ f.read \in (1 .. Len(reads)) \ {c.read}
         /\ \A k \in 1 .. Len(cq') : /\ cq'[k].slot \in Slots \ {c.slot}
                                     /\ cq'[k].read \in (1 .. Len(reads)) \ {c.read}
         /\ inflight' = inflight - 1
         /\ UNCHANGED <<flight, asleep, unflushed, memory, mark, clean>>
<1> DEFINE c == cq[1]
           C == Completions
<1>1. /\ cq # <<>> /\ cq' = Tail(cq) /\ inflight' = inflight - 1
      /\ pending' = [pending EXCEPT ![Head(cq).slot] = 0]
      /\ UNCHANGED <<flight, asleep, unflushed, memory, mark, clean>>
  BY DEF Advance, history
<1>2. cq \in Seq(C)
  BY DEF Types
<1> HIDE DEF C
<1>3. /\ Head(cq) = c /\ Len(cq) \in Nat /\ Len(cq) > 0 /\ 1 \in 1 .. Len(cq)
      /\ cq' \in Seq(C) /\ Len(cq') = Len(cq) - 1
      /\ \A k \in 1 .. Len(cq') : cq'[k] = cq[k + 1] /\ k + 1 \in 1 .. Len(cq)
  BY <1>1, <1>2
<1>4. \A k \in 1 .. Len(cq) : /\ cq[k].slot \in Slots /\ cq[k].read \in 1 .. Len(reads)
                              /\ cq[k].res \in Int
  <2>1. \A k \in 1 .. Len(cq) : cq[k] \in C
    BY <1>2
  <2>2. QED
    BY <2>1 DEF C, Completions
<1>5. /\ c.slot \in Slots /\ c.read \in 1 .. Len(reads) /\ c.res \in Int
  BY <1>3, <1>4
<1>6. /\ pending[c.slot] = c.read /\ reads[c.read].fate = "flight"
      /\ memory[c.slot] = c.read /\ (clean => c.read > mark)
      /\ c.res \in ResultsOf(reads[c.read])
  BY <1>3 DEF Matched, Match
<1> HIDE DEF c
<1>7. /\ pending' \in [Slots -> 0 .. Len(reads)] /\ pending'[c.slot] = 0
      /\ \A t \in Slots \ {c.slot} : pending'[t] = pending[t]
  <2>1. pending \in [Slots -> 0 .. Len(reads)] /\ 0 \in 0 .. Len(reads)
    BY DEF Types
  <2>2. QED
    BY <1>1, <1>3, <1>5, <2>1
<1>8. ASSUME NEW f \in flight
      PROVE  f.slot \in Slots \ {c.slot} /\ f.read \in (1 .. Len(reads)) \ {c.read}
  <2>1. f.slot \in Slots /\ f.read \in 1 .. Len(reads)
    BY DEF Types, Entries
  <2>2. f.slot # c.slot
    BY <1>3 DEF Matched, c
  <2>3. pending[f.slot] = f.read
    BY DEF Matched, Match
  <2>4. \A s, t \in Slots : pending[s] = pending[t] /\ pending[s] # 0 => s = t
    BY DEF Matched
  <2>5. f.read # c.read
    BY <1>5, <1>6, <2>1, <2>2, <2>3, <2>4
  <2>6. QED
    BY <2>1, <2>2, <2>5
<1>9. ASSUME NEW k \in 1 .. Len(cq')
      PROVE  cq'[k].slot \in Slots \ {c.slot} /\ cq'[k].read \in (1 .. Len(reads)) \ {c.read}
  <2>1. /\ k + 1 \in 1 .. Len(cq) /\ cq'[k] = cq[k + 1] /\ k + 1 # 1
        /\ cq[k + 1].slot \in Slots /\ cq[k + 1].read \in 1 .. Len(reads)
    BY <1>3, <1>4
  <2>2. cq[k + 1].slot # c.slot
    BY <1>3, <2>1 DEF Matched, c
  <2>3. pending[cq[k + 1].slot] = cq[k + 1].read
    BY <2>1 DEF Matched, Match
  <2>4. \A s, t \in Slots : pending[s] = pending[t] /\ pending[s] # 0 => s = t
    BY DEF Matched
  <2>5. cq[k + 1].read # c.read
    BY <1>5, <1>6, <2>1, <2>2, <2>3, <2>4
  <2>6. QED
    BY <2>1, <2>2, <2>5
<1>10. QED
  BY <1>1, <1>3, <1>5, <1>6, <1>7, <1>8, <1>9 DEF c, C

\* The three ends of a read, as the counters record them: failed, refused by
\* the IO queue, published with r.got bytes.
Ended(r) ==
  \/ /\ r.fate = "failed" /\ r.got = 0
     /\ telemetry'.failed = telemetry.failed + 1
     /\ telemetry'.completed = telemetry.completed
     /\ telemetry'.completed_bytes = telemetry.completed_bytes
  \/ /\ r.fate = "lost" /\ r.got = 0
     /\ telemetry'.failed = telemetry.failed
     /\ telemetry'.completed = telemetry.completed
     /\ telemetry'.completed_bytes = telemetry.completed_bytes
  \/ /\ r.fate = "published" /\ r.got <= r.len
     /\ telemetry'.failed = telemetry.failed
     /\ telemetry'.completed = telemetry.completed + 1
     /\ telemetry'.completed_bytes = telemetry.completed_bytes + r.got

\* A completion is reaped, and read i ends as the record r.
Reaped(i, r) ==
  /\ Advance
  /\ i = cq[1].read /\ r \in Reads /\ r.path = reads[i].path /\ r.len = reads[i].len
  /\ reads' \in Seq(Reads) /\ Len(reads') = Len(reads) /\ reads'[i] = r
  /\ \A k \in 1 .. Len(reads) : k # i => reads'[k] = reads[k]
  /\ telemetry' \in Counters
  /\ telemetry'.submitted = telemetry.submitted
  /\ telemetry'.submitted_bytes = telemetry.submitted_bytes
  /\ Ended(r)
  /\ queue' \in [0 .. QueueSlots - 1 -> Words] /\ polling' \in BOOLEAN

\* The types, the reads under way and the histories after a completion.
LEMMA ReapedReads ==
  ASSUME IInv, NEW i, NEW r, Reaped(i, r)
  PROVE  Types' /\ Matched' /\ Accounted'
<1> DEFINE c == cq[1]
<1>0. Types /\ Matched /\ Accounted
  BY DEF IInv
<1>1. /\ i = c.read /\ i \in 1 .. Len(reads) /\ c.slot \in Slots /\ Len(cq) \in Nat
      /\ cq' \in Seq(Completions) /\ Len(cq') = Len(cq) - 1
      /\ \A k \in 1 .. Len(cq') : cq'[k] = cq[k + 1] /\ k + 1 \in 1 .. Len(cq)
      /\ pending' \in [Slots -> 0 .. Len(reads)] /\ pending'[c.slot] = 0
      /\ \A t \in Slots \ {c.slot} : pending'[t] = pending[t]
      /\ inflight' = inflight - 1
      /\ UNCHANGED <<flight, asleep, unflushed, memory, mark, clean>>
  BY <1>0, AdvanceFacts, ZenonT(60) DEF Reaped
<1>2. /\ \A f \in flight : /\ f.slot \in Slots \ {c.slot}
                           /\ f.read \in (1 .. Len(reads)) \ {i}
      /\ \A k \in 1 .. Len(cq') : /\ cq'[k].slot \in Slots \ {c.slot}
                                  /\ cq'[k].read \in (1 .. Len(reads)) \ {i}
  BY <1>0, AdvanceFacts, ZenonT(60) DEF Reaped
<1>3. /\ r \in Reads /\ r.path = reads[i].path /\ r.len = reads[i].len
      /\ reads' \in Seq(Reads) /\ Len(reads') = Len(reads) /\ reads'[i] = r
      /\ \A k \in 1 .. Len(reads) : k # i => reads'[k] = reads[k]
      /\ telemetry' \in Counters /\ telemetry'.submitted = telemetry.submitted
      /\ queue' \in [0 .. QueueSlots - 1 -> Words] /\ polling' \in BOOLEAN
  BY DEF Reaped
<1>4. /\ r.fate # "flight" /\ (r.fate # "published" => r.got = 0)
      /\ (r.fate = "failed" => telemetry'.failed = telemetry.failed + 1)
      /\ telemetry'.failed \in {telemetry.failed, telemetry.failed + 1}
  BY DEF Reaped, Ended
<1>5. r.got <= r.len /\ r.len \in Nat /\ r.got \in Nat
  <2>1. r.len \in Nat /\ r.got \in Nat
    BY <1>3, Zenon DEF Reads
  <2>2. QED
    BY <2>1 DEF Reaped, Ended
<1> HIDE DEF c
<1>6. Types'
  <2>1. Entries' = Entries /\ Completions' = Completions
    BY <1>3 DEF Entries, Completions
  <2>2. inflight' \in Int /\ unflushed' \in Nat /\ asleep' \in BOOLEAN
    BY <1>0, <1>1 DEF Types
  <2>3. flight' \in SUBSET Entries' /\ IsFiniteSet(flight') /\ cq' \in Seq(Completions')
    BY <1>0, <1>1, <2>1 DEF Types
  <2>4. /\ memory' \in [Slots -> 0 .. Len(reads')] /\ mark' \in 0 .. Len(reads')
        /\ clean' \in BOOLEAN /\ pending' \in [Slots -> 0 .. Len(reads')]
        /\ Len(reads') <= MaxReads
    BY <1>0, <1>1, <1>3 DEF Types
  <2>5. QED
    BY <1>3, <2>2, <2>3, <2>4, Zenon DEF Types
<1>7. Matched'
  <2>1. \A f \in flight' : Match(f)'
    <3> SUFFICES ASSUME NEW f \in flight PROVE Match(f)'
      BY <1>1
    <3>1. reads'[f.read] = reads[f.read] /\ pending'[f.slot] = pending[f.slot]
      BY <1>1, <1>2, <1>3
    <3>2. Match(f)
      BY <1>0 DEF Matched
    <3>3. QED
      BY <1>1, <3>1, <3>2 DEF Match
  <2>2. ASSUME NEW k \in 1 .. Len(cq')
        PROVE  Match(cq[k])' /\ memory'[cq'[k].slot] = cq'[k].read
               /\ cq'[k].res \in ResultsOf(reads'[cq'[k].read])
    <3>1. /\ k + 1 \in 1 .. Len(cq) /\ cq'[k] = cq[k + 1]
          /\ reads'[cq'[k].read] = reads[cq'[k].read]
          /\ pending'[cq'[k].slot] = pending[cq'[k].slot]
      BY <1>1, <1>2, <1>3, ZenonT(60)
    <3>2. /\ Match(cq[k + 1]) /\ memory[cq[k + 1].slot] = cq[k + 1].read
          /\ cq[k + 1].res \in ResultsOf(reads[cq[k + 1].read])
      BY <1>0, <3>1, Zenon DEF Matched
    <3>3. QED
      BY <1>1, <3>1, <3>2 DEF Match
  <2>3. \A f, g \in flight' : f.slot = g.slot => f = g
    BY <1>0, <1>1, ZenonT(60) DEF Matched
  <2>4. ASSUME NEW j \in 1 .. Len(cq'), NEW k \in 1 .. Len(cq'), cq'[j].slot = cq'[k].slot
        PROVE  j = k
    <3>1. /\ j + 1 \in 1 .. Len(cq) /\ k + 1 \in 1 .. Len(cq)
          /\ cq[j + 1].slot = cq[k + 1].slot
      BY <1>1, <2>4
    <3>2. j + 1 = k + 1
      BY <1>0, <3>1 DEF Matched
    <3>3. QED
      BY <1>1, <3>2
  <2>5. ASSUME NEW f \in flight', NEW k \in 1 .. Len(cq') PROVE f.slot # cq'[k].slot
    <3>1. f \in flight /\ k + 1 \in 1 .. Len(cq) /\ cq'[k] = cq[k + 1]
      BY <1>1
    <3>2. QED
      BY <1>0, <3>1 DEF Matched
  <2>6. \A t, u \in Slots : pending'[t] = pending'[u] /\ pending'[t] # 0 => t = u
    BY <1>0, <1>1 DEF Matched
  <2>7. QED
    BY <2>1, <2>2, <2>3, <2>4, <2>5, <2>6 DEF Matched
<1>8. Since' = Since /\ \A k \in Since : k \in 1 .. Len(reads)
  BY <1>0, <1>1, <1>3 DEF Since, Types
<1>9. Accounted'
  <2>1. ASSUME NEW k \in 1 .. Len(reads')
        PROVE  /\ reads'[k].fate = "flight" => \/ \E f \in flight' : f.read = k
                                               \/ \E j \in 1 .. Len(cq') : cq'[j].read = k
               /\ reads'[k].got <= reads'[k].len
               /\ reads'[k].fate # "published" => reads'[k].got = 0
    <3>1. CASE k = i
      BY <1>3, <1>4, <1>5, <3>1
    <3>2. CASE k # i
      <4>1. k \in 1 .. Len(reads) /\ reads'[k] = reads[k]
        BY <1>3, <3>2
      <4>2. ASSUME NEW j \in 1 .. Len(cq), cq[j].read = k
            PROVE  \E l \in 1 .. Len(cq') : cq'[l].read = k
        <5>1. j # 1
          BY <1>1, <3>2, <4>2, Zenon DEF c
        <5>2. j - 1 \in 1 .. Len(cq') /\ (j - 1) + 1 = j
          BY <1>1, <5>1
        <5>3. cq'[j - 1] = cq[j]
          BY <1>1, <5>2
        <5>4. QED
          BY <4>2, <5>2, <5>3
      <4>3. QED
        BY <1>0, <1>1, <4>1, <4>2, ZenonT(60) DEF Accounted
    <3>3. QED
      BY <3>1, <3>2
  <2>2. ASSUME clean', telemetry'.failed = 0, NEW k \in Since'
        PROVE  reads'[k].fate # "failed"
    <3>1. telemetry.failed \in Nat
      BY <1>0 DEF Types, Counters
    <3>2. telemetry.failed = 0 /\ r.fate # "failed"
      BY <1>4, <2>2, <3>1
    <3>3. QED
      BY <1>0, <1>1, <1>3, <1>8, <2>2, <3>2, Zenon DEF Accounted
  <2>3. \A k \in Since' : telemetry'.submitted[reads'[k].path] > 0
    <3>1. \A k \in 1 .. Len(reads) : reads'[k].path = reads[k].path
      BY <1>3
    <3>2. QED
      BY <1>0, <1>3, <1>8, <3>1 DEF Accounted
  <2>4. QED
    BY <2>1, <2>2, <2>3 DEF Accounted
<1>10. QED
  BY <1>6, <1>7, <1>9

\* The counters after a completion: a read that is refused moves from the
\* reads in flight to the lost ones.
LEMMA ReapedBalance ==
  ASSUME IInv, NEW i, NEW r, Reaped(i, r)
  PROVE  Balance'
<1>0. Types /\ Matched /\ Balance
  BY DEF IInv
<1>1. /\ i \in 1 .. Len(reads) /\ reads[i].fate = "flight" /\ (clean => i > mark)
      /\ Len(cq) \in Nat /\ Len(cq') = Len(cq) - 1 /\ inflight' = inflight - 1
      /\ UNCHANGED <<flight, mark, clean>>
  BY <1>0, AdvanceFacts, ZenonT(60) DEF Reaped
<1>2. /\ Len(reads') = Len(reads) /\ reads'[i] = r
      /\ \A k \in 1 .. Len(reads) : k # i => reads'[k] = reads[k]
      /\ telemetry'.submitted = telemetry.submitted /\ Ended(r)
  BY DEF Reaped
<1>3. Cardinality(flight) \in Nat
  BY <1>0, FS_CardinalityType DEF Types
<1>4. inflight' = Cardinality(flight') + Len(cq')
  BY <1>0, <1>1, <1>3 DEF Balance
<1>5. ASSUME clean
      PROVE  SubmittedReads' = telemetry'.completed + telemetry'.failed + inflight'
                                 + Cardinality(Lost')
  <2>1. Since' = Since /\ i \in Since /\ \A k \in Since : k \in 1 .. Len(reads)
    BY <1>0, <1>1, <1>2, <1>5 DEF Since, Types
  <2>2. i \notin Lost
    BY <1>1 DEF Lost
  <2>3. Lost' = IF r.fate = "lost" THEN Lost \cup {i} ELSE Lost
    <3>1. \A k : k \in Lost' <=> k \in Since /\ reads'[k].fate = "lost"
      BY <2>1 DEF Lost
    <3>2. \A k : k \in Lost <=> k \in Since /\ reads[k].fate = "lost"
      BY DEF Lost
    <3>3. \A k \in Since : k # i => reads'[k] = reads[k]
      BY <1>2, <2>1
    <3>4. CASE r.fate = "lost"
      BY <1>2, <2>1, <3>1, <3>2, <3>3, <3>4
    <3>5. CASE r.fate # "lost"
      <4>1. \A k : k \in Lost' <=> k \in Lost
        BY <1>2, <2>1, <2>2, <3>1, <3>2, <3>3, <3>5
      <4>2. Lost' = Lost
        BY <4>1, Zenon
      <4>3. QED
        BY <3>5, <4>2
    <3>6. QED
      BY <3>4, <3>5
  <2> DEFINE lost == Cardinality(Lost)
             all == SubmittedReads
  <2>4. Cardinality(Lost') = IF r.fate = "lost" THEN lost + 1 ELSE lost
    BY <1>0, <2>2, <2>3, LostFinite, FS_AddElement
  <2>5. /\ lost \in Nat /\ inflight \in Int
        /\ telemetry.completed \in Nat /\ telemetry.failed \in Nat
    BY <1>0, LostFinite, FS_CardinalityType DEF Types, Counters
  <2>6. all = telemetry.completed + telemetry.failed + inflight + lost
    BY <1>0, <1>5 DEF Balance
  <2>7. SubmittedReads' = all
    BY <1>2 DEF SubmittedReads
  <2> HIDE DEF lost, all
  <2>8. all = telemetry'.completed + telemetry'.failed + (inflight - 1) + Cardinality(Lost')
    <3>1. CASE r.fate = "lost"
      <4>1. telemetry'.failed = telemetry.failed /\ telemetry'.completed = telemetry.completed
        BY <1>2, <3>1 DEF Ended
      <4>2. QED
        BY <2>4, <2>5, <2>6, <3>1, <4>1
    <3>2. CASE r.fate # "lost"
      <4>1. \/ /\ telemetry'.failed = telemetry.failed + 1
               /\ telemetry'.completed = telemetry.completed
            \/ /\ telemetry'.failed = telemetry.failed
               /\ telemetry'.completed = telemetry.completed + 1
        BY <1>2, <3>2 DEF Ended
      <4>2. Cardinality(Lost') = lost
        BY <2>4, <3>2
      <4>3. QED
        BY <2>5, <2>6, <4>1, <4>2
    <3>3. QED
      BY <3>1, <3>2
  <2>9. QED
    BY <1>1, <2>7, <2>8
<1>6. QED
  BY <1>1, <1>4, <1>5 DEF Balance

\* d[k] is the sum of o[m + 1] .. o[k], and no o[k] is negative.
Sums(d, o, m, n) ==
  /\ m \in Int /\ n \in Int
  /\ d \in [m .. n -> Int] /\ d[m] = 0
  /\ \A k \in m + 1 .. n : o[k] \in Int /\ d[k] = d[k - 1] + o[k]
  /\ \A j, k \in m .. n : j <= k => d[j] <= d[k]

\* q is o with g taken from its entry i, which had at least g.
Paid(o, q, m, n, i, g) ==
  /\ i \in m + 1 .. n /\ g \in Nat /\ q[i] \in Nat /\ o[i] = q[i] + g
  /\ \A k \in m + 1 .. n : k # i => q[k] = o[k]

\* When g is taken from one entry, the last sum falls by g.
LEMMA PaidSums ==
  ASSUME NEW d, NEW o, NEW q, NEW m, NEW n, NEW i, NEW g,
         Sums(d, o, m, n), Paid(o, q, m, n, i, g)
  PROVE  \E b : Sums(b, q, m, n) /\ b[n] = d[n] - g
<1>1. /\ m \in Int /\ n \in Int /\ d \in [m .. n -> Int] /\ d[m] = 0
      /\ \A k \in m + 1 .. n : o[k] \in Int /\ d[k] = d[k - 1] + o[k]
      /\ \A j, k \in m .. n : j <= k => d[j] <= d[k]
  BY DEF Sums
<1>2. /\ i \in m + 1 .. n /\ g \in Nat /\ q[i] \in Nat /\ o[i] = q[i] + g
      /\ \A k \in m + 1 .. n : k # i => q[k] = o[k]
  BY DEF Paid
<1>3. \A k \in m .. n : d[k] \in Int
  BY <1>1
<1>4. /\ i \in Int /\ i - 1 \in m .. n /\ i \in m .. n /\ m \in m .. n /\ n \in m .. n
      /\ m < i /\ i <= n
  BY <1>1, <1>2
<1>5. d[i] = d[i - 1] + (q[i] + g) /\ d[i] \in Int /\ d[i - 1] \in Int
  BY <1>1, <1>2, <1>3, <1>4
<1> DEFINE b == [k \in m .. n |-> IF k < i THEN d[k] ELSE d[k] - g]
<1>6. ASSUME NEW k \in m .. n
      PROVE  (k < i => b[k] = d[k]) /\ (k >= i => b[k] = d[k] - g)
  BY <1>1, <1>4
<1>7. b \in [m .. n -> Int]
  BY <1>2, <1>3
<1> HIDE DEF b
<1>8. b[i] = d[i] - g /\ b[i - 1] = d[i - 1]
  BY <1>4, <1>6
<1>9. b[m] = 0 /\ b[n] = d[n] - g
  BY <1>1, <1>4, <1>6
<1>10. ASSUME NEW k \in m + 1 .. n PROVE q[k] \in Int /\ b[k] = b[k - 1] + q[k]
  <2>1. /\ k \in Int /\ k \in m .. n /\ k - 1 \in m .. n
        /\ d[k] \in Int /\ d[k - 1] \in Int
    BY <1>1, <1>3
  <2>2. CASE k = i
    BY <1>2, <1>5, <1>8, <2>2
  <2>3. CASE k < i
    <3>1. b[k] = d[k] /\ b[k - 1] = d[k - 1]
      BY <1>4, <1>6, <2>1, <2>3
    <3>2. q[k] = o[k]
      BY <1>2, <1>4, <2>1, <2>3
    <3>3. QED
      BY <1>1, <3>1, <3>2
  <2>4. CASE k > i
    <3>1. b[k] = d[k] - g /\ b[k - 1] = d[k - 1] - g
      BY <1>4, <1>6, <2>1, <2>4
    <3>2. q[k] = o[k] /\ d[k] = d[k - 1] + o[k]
      BY <1>1, <1>2, <1>4, <2>1, <2>4
    <3>3. o[k] \in Int
      BY <1>1
    <3>4. QED
      BY <1>2, <2>1, <3>1, <3>2, <3>3
  <2>5. QED
    BY <1>4, <2>1, <2>2, <2>3, <2>4
<1>11. ASSUME NEW j \in m .. n, NEW k \in m .. n, j <= k PROVE b[j] <= b[k]
  <2>1. d[j] <= d[k] /\ d[j] \in Int /\ d[k] \in Int /\ j \in Int /\ k \in Int
    BY <1>1, <1>3, <1>11
  <2>2. CASE j < i /\ k >= i
    <3>1. j <= i - 1 /\ i <= k
      BY <1>4, <2>1, <2>2
    <3>2. d[j] <= d[i - 1] /\ d[i] <= d[k]
      BY <1>1, <1>4, <3>1
    <3>3. b[j] = d[j] /\ b[k] = d[k] - g
      BY <1>6, <2>2
    <3>4. QED
      BY <1>2, <1>5, <2>1, <3>2, <3>3
  <2>3. CASE k < i
    <3>1. b[j] = d[j] /\ b[k] = d[k]
      BY <1>4, <1>6, <1>11, <2>1, <2>3
    <3>2. QED
      BY <2>1, <3>1
  <2>4. CASE j >= i
    <3>1. b[j] = d[j] - g /\ b[k] = d[k] - g
      BY <1>4, <1>6, <1>11, <2>1, <2>4
    <3>2. QED
      BY <1>2, <2>1, <3>1
  <2>5. QED
    BY <1>4, <2>1, <2>2, <2>3, <2>4
<1>12. Sums(b, q, m, n)
  BY <1>1, <1>7, <1>9, <1>10, <1>11, Zenon DEF Sums
<1>13. QED
  BY <1>9, <1>12, Zenon

\* The bytes still owed after a completion: from read i on, r.got fewer.
LEMMA ReapedBytes ==
  ASSUME IInv, NEW i, NEW r, Reaped(i, r)
  PROVE  BytesOwed'
<1>0. Types /\ Matched /\ Accounted /\ BytesOwed
  BY DEF IInv
<1>1. /\ i \in 1 .. Len(reads) /\ reads[i].fate = "flight" /\ (clean => i > mark)
      /\ UNCHANGED <<mark, clean>>
  BY <1>0, AdvanceFacts, ZenonT(60) DEF Reaped
<1>2. /\ Len(reads') = Len(reads) /\ reads'[i] = r
      /\ \A k \in 1 .. Len(reads) : k # i => reads'[k] = reads[k]
      /\ telemetry'.submitted_bytes = telemetry.submitted_bytes /\ Ended(r)
      /\ r \in Reads /\ r.len = reads[i].len
  BY DEF Reaped
<1>3. /\ telemetry.submitted_bytes \in Nat /\ telemetry.completed_bytes \in Nat
      /\ Len(reads) \in Nat /\ mark \in 0 .. Len(reads)
  BY <1>0 DEF Types, Counters
<1>4. /\ r.got \in Nat /\ r.len \in Nat /\ r.got <= r.len
      /\ telemetry'.completed_bytes = telemetry.completed_bytes + r.got
  <2>1. r.got \in Nat /\ r.len \in Nat
    BY <1>2, Zenon DEF Reads
  <2>2. QED
    BY <1>2, <1>3, <2>1 DEF Ended
<1>5. reads[i].got = 0
  BY <1>0, <1>1, Zenon DEF Accounted
<1> SUFFICES ASSUME clean PROVE \E b : Owing(b)'
  BY <1>1 DEF BytesOwed
<1>6. PICK d : Owing(d)
  BY <1>0 DEF BytesOwed
<1>7. PICK n : n = Len(reads)
  BY Zenon
<1>8. /\ Since = mark + 1 .. n /\ Since' = Since /\ n \in Nat /\ mark \in Int
      /\ i \in mark + 1 .. n /\ \A k \in Since : k \in 1 .. Len(reads)
  BY <1>1, <1>2, <1>3, <1>7 DEF Since
<1>a. PICK o : o = [k \in mark + 1 .. n |-> reads[k].len - reads[k].got]
  BY Zenon
<1>b. PICK q : q = [k \in mark + 1 .. n |-> reads'[k].len - reads'[k].got]
  BY Zenon
<1>9. /\ \A k \in mark + 1 .. n : o[k] = reads[k].len - reads[k].got
      /\ \A k \in mark + 1 .. n : q[k] = reads'[k].len - reads'[k].got
  BY <1>a, <1>b
<1>10. Sums(d, o, mark, n) /\ d[n] = telemetry.submitted_bytes - telemetry.completed_bytes
  <2>1. /\ d \in [mark .. n -> Int] /\ d[mark] = 0
        /\ \A k \in mark + 1 .. n : d[k] = d[k - 1] + (reads[k].len - reads[k].got)
        /\ \A j, k \in mark .. n : j <= k => d[j] <= d[k]
        /\ d[n] = telemetry.submitted_bytes - telemetry.completed_bytes
    BY <1>6, <1>7, <1>8 DEF Owing
  <2>2. \A k \in mark + 1 .. n : o[k] \in Int /\ d[k] = d[k - 1] + o[k]
    <3>1. \A k \in mark + 1 .. n : reads[k] \in Reads
      BY <1>0, <1>8 DEF Types
    <3>2. \A k \in mark + 1 .. n : reads[k].len \in Nat /\ reads[k].got \in Nat
      BY <3>1, Zenon DEF Reads
    <3>3. QED
      BY <1>9, <2>1, <3>2
  <2>3. QED
    BY <1>8, <2>1, <2>2 DEF Sums
<1>11. Paid(o, q, mark, n, i, r.got)
  <2>1. o[i] = r.len /\ q[i] = r.len - r.got
    BY <1>2, <1>4, <1>5, <1>8, <1>9
  <2>2. \A k \in mark + 1 .. n : k # i => q[k] = o[k]
    BY <1>2, <1>8, <1>9
  <2>3. q[i] \in Nat /\ o[i] = q[i] + r.got
    BY <1>4, <2>1
  <2>4. QED
    BY <1>4, <1>8, <2>2, <2>3 DEF Paid
<1>12. PICK b : Sums(b, q, mark, n) /\ b[n] = d[n] - r.got
  <2>1. PICK g : g = r.got
    BY Zenon
  <2>2. Sums(d, o, mark, n) /\ Paid(o, q, mark, n, i, g)
    BY <1>10, <1>11, <2>1
  <2>3. \E b : Sums(b, q, mark, n) /\ b[n] = d[n] - g
    BY <2>2, PaidSums
  <2>4. QED
    BY <2>1, <2>3
<1>13. b[n] = telemetry'.submitted_bytes - telemetry'.completed_bytes
  BY <1>2, <1>3, <1>4, <1>10, <1>12
<1>14. Owing(b)'
  <2>1. /\ b \in [mark .. n -> Int] /\ b[mark] = 0
        /\ \A k \in mark + 1 .. n : b[k] = b[k - 1] + q[k]
        /\ \A j, k \in mark .. n : j <= k => b[j] <= b[k]
    BY <1>12, Zenon DEF Sums
  <2>2. \A k \in mark + 1 .. n : b[k] = b[k - 1] + (reads'[k].len - reads'[k].got)
    BY <1>9, <2>1
  <2>3. mark' = mark /\ Len(reads') = n /\ Since' = mark + 1 .. n
    BY <1>1, <1>2, <1>7, <1>8
  <2>4. QED
    BY <1>13, <2>1, <2>2, <2>3 DEF Owing
<1>15. QED
  BY <1>14

\* A completion that is reaped keeps the whole inductive invariant.
LEMMA ReapedStep ==
  ASSUME IInv, NEW i, NEW r, Reaped(i, r)
  PROVE  IInv'
BY ReapedReads, ReapedBalance, ReapedBytes DEF IInv

\* A failed read.
LEMMA FailureStep ==
  ASSUME IInv, ReapFailure
  PROVE  IInv'
<1> DEFINE c == cq[1]
           i == c.read
           old == reads[i]
           new == [old EXCEPT !.fate = "failed"]
<1>0. Types /\ Matched /\ Accounted /\ Advance
  BY DEF IInv, ReapFailure
<1>1. Head(cq) = c /\ i \in 1 .. Len(reads) /\ reads[i].fate = "flight"
  BY <1>0, AdvanceFacts
<1>2. /\ telemetry' = [telemetry EXCEPT !.failed = @ + 1]
      /\ reads' = [reads EXCEPT ![i].fate = "failed"]
      /\ UNCHANGED <<queue, polling>>
  BY <1>1, ZenonT(60) DEF ReapFailure
<1>3. old \in Reads /\ old.got = 0
  BY <1>0, <1>1 DEF Types, Accounted
<1>4. /\ new \in Reads /\ new.path = old.path /\ new.len = old.len
      /\ new.fate = "failed" /\ new.got = 0
  BY <1>3 DEF Reads, Fates
<1>5. reads' = [reads EXCEPT ![i] = new]
  BY <1>2
<1>6. reads \in Seq(Reads)
  BY <1>0 DEF Types
<1>7. PICK r : r = new
  BY Zenon
<1> HIDE DEF c, i, new
<1>8. /\ reads' \in Seq(Reads) /\ Len(reads') = Len(reads) /\ reads'[i] = r
      /\ \A k \in 1 .. Len(reads) : k # i => reads'[k] = reads[k]
  BY <1>1, <1>4, <1>5, <1>6, <1>7
<1>9. /\ telemetry' \in Counters /\ telemetry'.failed = telemetry.failed + 1
      /\ telemetry'.submitted = telemetry.submitted
      /\ telemetry'.submitted_bytes = telemetry.submitted_bytes
      /\ telemetry'.completed = telemetry.completed
      /\ telemetry'.completed_bytes = telemetry.completed_bytes
  <2>1. telemetry \in Counters
    BY <1>0 DEF Types
  <2>2. QED
    BY <1>2, <2>1 DEF Counters
<1>10. queue' \in [0 .. QueueSlots - 1 -> Words] /\ polling' \in BOOLEAN
  BY <1>0, <1>2 DEF Types
<1>11. Ended(r)
  BY <1>4, <1>7, <1>9 DEF Ended
<1>12. r \in Reads /\ r.path = old.path /\ r.len = old.len
  BY <1>4, <1>7
<1>13. Reaped(i, r)
  BY <1>0, <1>8, <1>9, <1>10, <1>11, <1>12, Zenon DEF Reaped, i, c
<1>14. QED
  BY <1>13, ReapedStep

\* A successful read, published or refused.  What is counted and published is
\* at most what the read asked for.
LEMMA SuccessStep ==
  ASSUME IInv, ReapSuccess
  PROVE  IInv'
<1> DEFINE c == cq[1]
           i == c.read
           old == reads[i]
           lost == [old EXCEPT !.fate = "lost"]
<1>0. Types /\ Matched /\ Accounted /\ Advance
  BY DEF IInv, ReapSuccess
<1>1. /\ Head(cq) = c /\ i \in 1 .. Len(reads) /\ reads[i].fate = "flight" /\ c.slot \in Slots
      /\ Awaited(c) = i /\ c.res \in Int /\ c.res \in ResultsOf(old)
  BY <1>0, AdvanceFacts, ZenonT(60) DEF Awaited
<1>2. old \in Reads /\ old.got = 0
  BY <1>0, <1>1 DEF Types, Accounted
<1>3. /\ reads \in Seq(Reads) /\ queue \in [0 .. QueueSlots - 1 -> Words]
      /\ polling \in BOOLEAN /\ telemetry \in Counters /\ Len(reads) <= MaxReads
  BY <1>0 DEF Types
<1>4. CASE ~Publishable(c.slot)
  <2>1. /\ reads' = [reads EXCEPT ![i].fate = "lost"]
        /\ polling' = FALSE /\ queue' = queue /\ telemetry' = telemetry
    BY <1>1, <1>4 DEF ReapSuccess, Refused
  <2>2. /\ lost \in Reads /\ lost.path = old.path /\ lost.len = old.len
        /\ lost.fate = "lost" /\ lost.got = 0
    BY <1>2 DEF Reads, Fates
  <2>3. reads' = [reads EXCEPT ![i] = lost]
    BY <2>1
  <2>4. PICK r : r = lost
    BY Zenon
  <2> HIDE DEF c, i, lost
  <2>5. /\ reads' \in Seq(Reads) /\ Len(reads') = Len(reads) /\ reads'[i] = r
        /\ \A k \in 1 .. Len(reads) : k # i => reads'[k] = reads[k]
    BY <1>1, <1>3, <2>2, <2>3, <2>4
  <2>6. Ended(r)
    BY <2>1, <2>2, <2>4 DEF Ended
  <2>7. r \in Reads /\ r.path = old.path /\ r.len = old.len
    BY <2>2, <2>4
  <2>8. Reaped(i, r)
    BY <1>0, <1>3, <2>1, <2>5, <2>6, <2>7, Zenon DEF Reaped, i, c
  <2>9. QED
    BY <2>8, ReapedStep
<1>5. CASE Publishable(c.slot)
  <2> DEFINE n == ByteCount(c)
             new == [old EXCEPT !.fate = "published", !.got = n]
             word == [status |-> "PUBLISHED", bytes |-> n, read |-> i]
  <2>1. /\ reads' = [reads EXCEPT ![i].fate = "published", ![i].got = n]
        /\ polling' = polling /\ queue' = [queue EXCEPT ![c.slot] = word]
        /\ telemetry' = [telemetry EXCEPT !.completed = @ + 1, !.completed_bytes = @ + n]
    BY <1>1, <1>5, ZenonT(60) DEF ReapSuccess, Published, Counted
  <2>2. n \in 0 .. old.len
    <3>1. ~(c.res < 0)
      BY <1>1 DEF ReapSuccess, Failed
    <3>2. old.len \in Nat
      BY <1>2, Zenon DEF Reads
    <3>3. QED
      BY <1>1, <3>1, <3>2 DEF ByteCount, ResultsOf
  <2>3. n \in Nat /\ n <= old.len
    BY <1>2, <2>2 DEF Reads
  <2> HIDE DEF n
  <2>4. /\ new \in Reads /\ new.path = old.path /\ new.len = old.len
        /\ new.fate = "published" /\ new.got = n
    BY <1>2, <2>3, Zenon DEF Reads, Fates
  <2>5. reads' = [reads EXCEPT ![i] = new]
    <3>1. DOMAIN reads = 1 .. Len(reads)
      BY <1>3
    <3>2. QED
      BY <1>1, <1>2, <1>3, <2>1, <3>1, Zenon DEF Reads
  <2>6. PICK r : r = new
    OBVIOUS
  <2>7. word \in Words
    <3>1. i \in 0 .. MaxReads
      BY <1>1, <1>3
    <3>2. QED
      BY <2>3, <3>1 DEF Words
  <2> HIDE DEF c, i, new, word
  <2>8. /\ reads' \in Seq(Reads) /\ Len(reads') = Len(reads) /\ reads'[i] = r
        /\ \A k \in 1 .. Len(reads) : k # i => reads'[k] = reads[k]
    BY <1>1, <1>3, <2>4, <2>5, <2>6
  <2>9. queue' \in [0 .. QueueSlots - 1 -> Words] /\ polling' \in BOOLEAN
    BY <1>1, <1>3, <1>5, <2>1, <2>7 DEF Publishable, Slots
  <2>10. /\ telemetry' \in Counters /\ telemetry'.failed = telemetry.failed
         /\ telemetry'.submitted = telemetry.submitted
         /\ telemetry'.submitted_bytes = telemetry.submitted_bytes
         /\ telemetry'.completed = telemetry.completed + 1
         /\ telemetry'.completed_bytes = telemetry.completed_bytes + n
    <3>1. telemetry.completed + 1 \in Nat /\ telemetry.completed_bytes + n \in Nat
      BY <1>3, <2>3 DEF Counters
    <3>2. telemetry' = [telemetry EXCEPT !.completed = telemetry.completed + 1,
                                         !.completed_bytes = telemetry.completed_bytes + n]
      BY <1>3, <2>1 DEF Counters
    <3>3. QED
      BY <1>3, <3>1, <3>2, Zenon DEF Counters
  <2>11. Ended(r)
    BY <2>3, <2>4, <2>6, <2>10 DEF Ended
  <2>12. r \in Reads /\ r.path = old.path /\ r.len = old.len
    BY <2>4, <2>6
  <2>13. Reaped(i, r)
    BY <1>0, <2>8, <2>9, <2>10, <2>11, <2>12, Zenon DEF Reaped, i, c
  <2>14. QED
    BY <2>13, ReapedStep
<1>6. QED
  BY <1>4, <1>5

\* A reset begins a reckoning with no reads; it is clean when nothing is in
\* flight.
LEMMA ResetStep ==
  ASSUME IInv, ResetTelemetry
  PROVE  IInv'
<1>0. Types /\ Matched /\ Accounted /\ Balance
  BY DEF IInv
<1>1. /\ telemetry' = NoTelemetry /\ mark' = Len(reads) /\ clean' = (inflight = 0)
      /\ UNCHANGED <<pending, flight, cq, asleep, inflight, unflushed, queue, polling, reads,
                     memory>>
  BY DEF ResetTelemetry, uring
<1>2. Len(reads) \in Nat /\ Len(cq) \in Nat /\ Cardinality(flight) \in Nat
  BY <1>0, FS_CardinalityType DEF Types
<1>3. Since' = {} /\ Lost' = {}
  BY <1>1, <1>2 DEF Since, Lost
<1>4. clean' => flight = {} /\ Len(cq) = 0
  <2>1. inflight = Cardinality(flight) + Len(cq)
    BY <1>0 DEF Balance
  <2>2. inflight = 0 => Cardinality(flight) = 0 /\ Len(cq) = 0
    BY <1>2, <2>1
  <2>3. QED
    BY <1>0, <1>1, <2>2, FS_EmptySet, Zenon DEF Types
<1>5. /\ telemetry' \in Counters /\ telemetry'.completed = 0 /\ telemetry'.failed = 0
      /\ telemetry'.submitted_bytes = 0 /\ telemetry'.completed_bytes = 0
      /\ telemetry'.submitted["mapped"] = 0 /\ telemetry'.submitted["gpudirect"] = 0
  BY <1>1 DEF NoTelemetry, Counters, Paths
<1>6. Types'
  <2>1. mark' \in 0 .. Len(reads) /\ clean' \in BOOLEAN
    BY <1>1, <1>2
  <2>2. QED
    BY <1>0, <1>1, <1>5, <2>1 DEF Types, Entries, Completions
<1>7. Matched'
  <2>1. \A f \in flight' : Match(f)'
    BY <1>0, <1>1, <1>4 DEF Matched, Match
  <2>2. ASSUME NEW k \in 1 .. Len(cq')
        PROVE  Match(cq[k])' /\ memory'[cq'[k].slot] = cq'[k].read
               /\ cq'[k].res \in ResultsOf(reads'[cq'[k].read])
    BY <1>0, <1>1, <1>4 DEF Matched, Match
  <2>3. /\ \A f, g \in flight' : f.slot = g.slot => f = g
        /\ \A j, k \in 1 .. Len(cq') : cq'[j].slot = cq'[k].slot => j = k
        /\ \A f \in flight', k \in 1 .. Len(cq') : f.slot # cq'[k].slot
        /\ \A s, t \in Slots : pending'[s] = pending'[t] /\ pending'[s] # 0 => s = t
    BY <1>0, <1>1, ZenonT(60) DEF Matched
  <2>4. QED
    BY <2>1, <2>2, <2>3 DEF Matched
<1>8. Accounted'
  BY <1>0, <1>1, <1>3, ZenonT(60) DEF Accounted
<1>9. Balance'
  <2>1. Cardinality(Lost') = 0
    BY <1>3, FS_EmptySet
  <2>2. SubmittedReads' = 0
    BY <1>5 DEF SubmittedReads
  <2>3. clean' => inflight' = 0
    BY <1>1, Zenon
  <2>4. inflight' = Cardinality(flight') + Len(cq')
    BY <1>0, <1>1 DEF Balance
  <2>5. QED
    BY <1>5, <2>1, <2>2, <2>3, <2>4 DEF Balance
<1>10. BytesOwed'
  <2>1. PICK b : b = [k \in Len(reads) .. Len(reads) |-> 0]
    BY Zenon
  <2>2. b \in [Len(reads) .. Len(reads) -> Int] /\ \A k \in Len(reads) .. Len(reads) : b[k] = 0
    BY <2>1
  <2>3. Owing(b)'
    BY <1>1, <1>2, <1>3, <1>5, <2>2 DEF Owing
  <2>4. QED
    BY <2>3 DEF BytesOwed
<1>11. QED
  BY <1>6, <1>7, <1>8, <1>9, <1>10 DEF IInv

\* Every step of the ingest ring keeps the inductive invariant.
LEMMA NextIInv == IInv /\ [Next]_vars => IInv'
<1> SUFFICES ASSUME IInv, [Next]_vars PROVE IInv'
  OBVIOUS
<1>1. ASSUME NEW s \in Slots, SubmitFile(s) PROVE IInv'
  <2>1. "mapped" \in Paths
    BY DEF Paths
  <2>2. QED
    BY <1>1, <2>1, SubmitStep DEF SubmitFile
<1>2. ASSUME NEW s \in Slots, SubmitNative(s) PROVE IInv'
  <2>1. "gpudirect" \in Paths
    BY DEF Paths
  <2>2. QED
    BY <1>2, <2>1, SubmitStep DEF SubmitNative
<1>3. CASE KernelTake
  BY <1>3, TakeStep
<1>4. CASE KernelFinish
  BY <1>4, FinishStep
<1>5. CASE \/ KernelSleep \/ PollBegins \/ PollEnds
           \/ \E s \in DOMAIN queue : Consume(s) \/ Recycle(s)
  BY <1>5, OtherSteps
<1>6. CASE ReapFailure
  BY <1>6, FailureStep
<1>7. CASE ReapSuccess
  BY <1>7, SuccessStep
<1>8. CASE ResetTelemetry
  BY <1>8, ResetStep
<1>9. CASE UNCHANGED vars
  <2>1. UNCHANGED <<pending, flight, cq, asleep, inflight, unflushed, queue, telemetry,
                    polling, reads, memory, mark, clean>>
    BY <1>9 DEF vars, uring, history
  <2>2. /\ queue' \in [0 .. QueueSlots - 1 -> Words] /\ unflushed' \in Nat
        /\ asleep' \in BOOLEAN /\ polling' \in BOOLEAN
    BY <2>1 DEF IInv, Types
  <2>3. QED
    BY <2>1, <2>2, QuietSteps
<1>10. QED
  BY <1>1, <1>2, <1>3, <1>4, <1>5, <1>6, <1>7, <1>8, <1>9 DEF Next, Poll

\* The inductive invariant holds in every reachable state.
LEMMA Reachable == Spec => []IInv
BY InitIInv, NextIInv, PTL DEF Spec
-----------------------------------------------------------------------------
\* The variables keep the shape the driver's types give them, and the stream's
\* in-flight counter is never decremented below zero.
THEOREM TypeCorrect == Spec => []TypeOK
<1>1. IInv => TypeOK
  <2> SUFFICES ASSUME IInv PROVE TypeOK
    OBVIOUS
  <2>1. Types /\ Balance
    BY DEF IInv
  <2>2. inflight \in Nat
    <3>1. Cardinality(flight) \in Nat /\ Len(cq) \in Nat
      BY <2>1, FS_CardinalityType DEF Types
    <3>2. QED
      BY <2>1, <3>1 DEF Balance
  <2>3. pending \in [Slots -> 0 .. MaxReads]
    <3>1. Len(reads) \in Nat /\ Len(reads) <= MaxReads /\ pending \in [Slots -> 0 .. Len(reads)]
      BY <2>1 DEF Types
    <3>2. QED
      BY <3>1
  <2>4. 1 .. Len(reads) \subseteq 1 .. MaxReads
    <3>1. Len(reads) \in Nat /\ Len(reads) <= MaxReads
      BY <2>1 DEF Types
    <3>2. QED
      BY <3>1
  <2>5. flight \subseteq [slot : Slots, read : 1 .. MaxReads, stage : {"sq", "run"}]
    <3>1. Entries \subseteq [slot : Slots, read : 1 .. MaxReads, stage : {"sq", "run"}]
      BY <2>4 DEF Entries
    <3>2. QED
      BY <2>1, <3>1 DEF Types
  <2>6. \A k \in DOMAIN cq : cq[k] \in [slot : Slots, read : 1 .. MaxReads, res : Int]
    <3>1. Completions \subseteq [slot : Slots, read : 1 .. MaxReads, res : Int]
      BY <2>4 DEF Completions
    <3>2. \A k \in DOMAIN cq : cq[k] \in Completions
      BY <2>1 DEF Types
    <3>3. QED
      BY <3>1, <3>2
  <2>7. \A s \in DOMAIN queue :
          queue[s] \in [status : {"EMPTY", "PUBLISHED", "DONE"}, bytes : Nat,
                        read : 0 .. MaxReads]
    BY <2>1 DEF Types, Words
  <2>8. telemetry.completed \in Nat /\ telemetry.failed \in Nat
    BY <2>1 DEF Types, Counters
  <2>9. \A i \in DOMAIN reads : reads[i].fate \in Fates
    <3>1. \A i \in DOMAIN reads : reads[i] \in Reads
      BY <2>1 DEF Types
    <3>2. QED
      BY <3>1 DEF Reads
  <2>10. unflushed \in Nat /\ asleep \in BOOLEAN /\ polling \in BOOLEAN
    BY <2>1 DEF Types
  <2>11. QED
    BY <2>2, <2>3, <2>5, <2>6, <2>7, <2>8, <2>9, <2>10 DEF TypeOK
<1>2. QED
  BY <1>1, Reachable, PTL

\* The stream's counter is what the io_uring has in flight; and as long as the
\* telemetry is not reset with reads in flight, what it calls in flight is that
\* plus the reads whose publication was refused.
THEOREM Balanced == Spec => []TelemetryBalanced
<1>1. IInv => TelemetryBalanced
  <2> SUFFICES ASSUME IInv PROVE TelemetryBalanced
    OBVIOUS
  <2>1. Types /\ Balance
    BY DEF IInv
  <2>2. Cardinality(flight) \in Nat /\ Len(cq) \in Nat /\ Cardinality(Lost) \in Nat
    BY <2>1, FS_CardinalityType, LostFinite DEF Types
  <2>3. inflight = Cardinality(flight) + Len(cq) /\ inflight \in Nat
    BY <2>1, <2>2 DEF Balance
  <2>4. ASSUME clean PROVE InflightReads = inflight + Cardinality(Lost)
    <3> DEFINE lost == Cardinality(Lost)
               all == SubmittedReads
    <3>1. telemetry.completed \in Nat /\ telemetry.failed \in Nat
      BY <2>1 DEF Types, Counters
    <3>2. all = telemetry.completed + telemetry.failed + inflight + lost /\ lost \in Nat
      BY <2>1, <2>2, <2>4 DEF Balance
    <3> HIDE DEF lost, all
    <3>3. Monus(Monus(all, telemetry.completed), telemetry.failed) = inflight + lost
      BY <2>3, <3>1, <3>2 DEF Monus
    <3>4. QED
      BY <3>3 DEF InflightReads, lost, all
  <2>5. QED
    BY <2>3, <2>4 DEF TelemetryBalanced
<1>2. QED
  BY <1>1, Reachable, PTL

\* validate_completed_zero_copy accepts no snapshot in which a read since the
\* reset is open, failed, refused or short, or went over the other path: the
\* totals cannot cancel out, because no read ever gets more than it asked for.
THEOREM Verdict == Spec => []ZeroCopyVerdict
<1>1. IInv => ZeroCopyVerdict
  <2> SUFFICES ASSUME IInv, clean, NEW path \in Paths, ZeroCopyComplete(path), NEW i \in Since
               PROVE  /\ reads[i].path = path /\ reads[i].fate = "published"
                      /\ reads[i].got = reads[i].len
    BY DEF ZeroCopyVerdict
  <2>1. Types /\ Accounted /\ Balance /\ BytesOwed
    BY DEF IInv
  <2>2. /\ Len(reads) \in Nat /\ mark \in 0 .. Len(reads) /\ telemetry \in Counters
        /\ reads \in Seq(Reads)
    BY <2>1 DEF Types
  <2>3. i \in 1 .. Len(reads) /\ i \in mark .. Len(reads) /\ i - 1 \in mark .. Len(reads)
    BY <2>2 DEF Since
  <2>4. /\ telemetry.failed = 0 /\ telemetry.submitted_bytes = telemetry.completed_bytes
        /\ SubmittedReads = telemetry.completed
        /\ \A p \in Paths \ {path} : telemetry.submitted[p] = 0
    BY DEF ZeroCopyComplete
  <2>5. /\ reads[i].path \in Paths /\ reads[i].len \in Nat /\ reads[i].got \in Nat
        /\ reads[i].fate \in Fates
    <3>1. reads[i] \in Reads
      BY <2>2, <2>3
    <3>2. QED
      BY <3>1, Zenon DEF Reads
  <2>6. reads[i].path = path
    <3>1. telemetry.submitted[reads[i].path] > 0
      BY <2>1 DEF Accounted
    <3>2. QED
      BY <2>4, <2>5, <3>1
  <2>7. flight = {} /\ Len(cq) = 0 /\ Lost = {}
    <3>1. Cardinality(flight) \in Nat /\ Len(cq) \in Nat /\ Cardinality(Lost) \in Nat
      BY <2>1, FS_CardinalityType, LostFinite DEF Types
    <3>2. /\ inflight = Cardinality(flight) + Len(cq)
          /\ telemetry.completed = telemetry.completed + 0 + inflight + Cardinality(Lost)
      BY <2>1, <2>4 DEF Balance
    <3>3. telemetry.completed \in Nat
      BY <2>2 DEF Counters
    <3>4. Cardinality(flight) = 0 /\ Len(cq) = 0 /\ Cardinality(Lost) = 0
      <4> DEFINE held == Cardinality(flight)
                 done == Len(cq)
                 lost == Cardinality(Lost)
      <4>1. /\ held \in Nat /\ done \in Nat /\ lost \in Nat /\ telemetry.completed \in Nat
            /\ telemetry.completed = telemetry.completed + 0 + (held + done) + lost
        BY <3>1, <3>2, <3>3
      <4> HIDE DEF held, done, lost
      <4>2. held = 0 /\ done = 0 /\ lost = 0
        BY <4>1
      <4>3. QED
        BY <4>2 DEF held, done, lost
    <3>5. QED
      BY <2>1, <3>4, FS_EmptySet, LostFinite DEF Types
  <2>8. reads[i].fate = "published"
    <3>1. reads[i].fate # "lost"
      BY <2>7 DEF Lost
    <3>2. reads[i].fate # "failed"
      BY <2>1, <2>4 DEF Accounted
    <3>3. reads[i].fate # "flight"
      BY <2>1, <2>3, <2>7 DEF Accounted
    <3>4. QED
      BY <2>5, <3>1, <3>2, <3>3 DEF Fates
  <2>9. reads[i].got = reads[i].len
    <3>1. PICK d : Owing(d)
      BY <2>1 DEF BytesOwed
    <3>2. d[i] = d[i - 1] + (reads[i].len - reads[i].got)
      BY <3>1 DEF Owing
    <3>3. d[Len(reads)] = 0 /\ d[mark] = 0
      <4>1. telemetry.submitted_bytes \in Nat
        BY <2>2 DEF Counters
      <4>2. QED
        BY <2>4, <3>1, <4>1 DEF Owing
    <3>4. d[i] \in Int /\ d[i - 1] \in Int /\ d[mark] <= d[i - 1] /\ d[i] <= d[Len(reads)]
      <4>1. mark \in mark .. Len(reads) /\ Len(reads) \in mark .. Len(reads)
        BY <2>2
      <4>2. mark <= i - 1 /\ i <= Len(reads)
        BY <2>2, <2>3
      <4>3. QED
        BY <2>3, <3>1, <4>1, <4>2 DEF Owing
    <3>5. reads[i].got <= reads[i].len
      BY <2>1, <2>3 DEF Accounted
    <3>6. QED
      BY <2>5, <3>2, <3>3, <3>4, <3>5
  <2>10. QED
    BY <2>6, <2>8, <2>9
<1>2. QED
  BY <1>1, Reachable, PTL

\* A slot is published for the read whose bytes it holds, while no read that
\* could overwrite them is under way.
THEOREM OwnBytes == Spec => PublishedBytesAreOwn
<1> DEFINE Own == \A s \in DOMAIN queue :
                    queue'[s].read # queue[s].read =>
                      /\ memory[s] = queue'[s].read /\ reads'[memory[s]].fate = "published"
                      /\ \A f \in flight : f.slot # s
<1>1. IInv /\ [Next]_vars => [Own]_vars
  <2> SUFFICES ASSUME IInv, Next, NEW s \in DOMAIN queue, queue'[s].read # queue[s].read
               PROVE  /\ memory[s] = queue'[s].read /\ reads'[memory[s]].fate = "published"
                      /\ \A f \in flight : f.slot # s
    OBVIOUS
  <2>1. Types /\ Matched
    BY DEF IInv
  <2>2. /\ queue \in [0 .. QueueSlots - 1 -> Words] /\ reads \in Seq(Reads)
        /\ queue[s] \in Words
    BY <2>1 DEF Types
  <2>3. ASSUME NEW t \in DOMAIN queue, Consume(t) \/ Recycle(t) PROVE FALSE
    <3>1. PICK w \in {"DONE", "EMPTY"} : queue' = [queue EXCEPT ![t].status = w]
      BY <2>3 DEF Consume, Recycle
    <3>2. queue'[s] = IF s = t THEN [queue[s] EXCEPT !.status = w] ELSE queue[s]
      BY <2>2, <3>1
    <3>3. queue'[s].read = queue[s].read
      BY <2>2, <3>2 DEF Words
    <3>4. QED
      BY <3>3
  <2>4. CASE ReapSuccess
    <3> DEFINE c == cq[1]
    <3>1. /\ Head(cq) = c /\ c.slot \in Slots /\ c.read \in 1 .. Len(reads)
          /\ Awaited(c) = c.read /\ memory[c.slot] = c.read
          /\ \A f \in flight : f.slot # c.slot
      BY <2>1, <2>4, AdvanceFacts, Zenon DEF ReapSuccess, Awaited
    <3>2. Publishable(c.slot) /\ Published(c)
      BY <2>4, <3>1 DEF ReapSuccess, Refused
    <3>3. queue' = [queue EXCEPT ![c.slot] =
                      [status |-> "PUBLISHED", bytes |-> ByteCount(c), read |-> c.read]]
      BY <3>1, <3>2 DEF Published
    <3>4. s = c.slot /\ queue'[s].read = c.read
      BY <2>2, <3>3
    <3>5. reads'[c.read].fate = "published"
      <4>1. reads[c.read] \in Reads /\ c.read \in DOMAIN reads
        BY <2>2, <3>1
      <4>2. reads' = [reads EXCEPT ![c.read].fate = "published", ![c.read].got = ByteCount(c)]
        BY <3>2 DEF Published
      <4>3. QED
        BY <4>1, <4>2 DEF Reads
    <3>6. QED
      BY <3>1, <3>4, <3>5
  <2>5. CASE \/ \E t \in Slots : SubmitFile(t) \/ SubmitNative(t)
             \/ KernelTake \/ KernelSleep \/ KernelFinish
             \/ PollBegins \/ ReapFailure \/ PollEnds \/ ResetTelemetry
    <3>1. UNCHANGED queue
      BY <2>5, Zenon DEF SubmitFile, SubmitNative, Submit, KernelTake, KernelSleep, KernelFinish,
                  PollBegins, ReapFailure, PollEnds, ResetTelemetry
    <3>2. QED
      BY <3>1
  <2>6. QED
    BY <2>3, <2>4, <2>5 DEF Next, Poll
<1>2. QED
  BY <1>1, Reachable, PTL DEF Spec, PublishedBytesAreOwn

-----------------------------------------------------------------------------
(* Reads under way *)

\* The read slot s waits for is with the io_uring or among the completions.
UnderWay(s) ==
  \/ \E f \in flight : f.slot = s /\ f.read = pending[s]
  \/ \E k \in 1 .. Len(cq) : cq[k].slot = s /\ cq[k].read = pending[s]

NoOrphan == \A s \in Slots : pending[s] # 0 => UnderWay(s)
WakeDue == asleep /\ (\E f \in flight : f.stage = "sq") => unflushed > 0

\* The types of what the io_uring and the driver share.
LEMMA SharedTyped ==
  IInv => /\ pending \in [Slots -> 0 .. Len(reads)] /\ flight \in SUBSET Entries
          /\ cq \in Seq(Completions) /\ unflushed \in Nat
BY Zenon DEF IInv, Types

\* A submission hands its read to the io_uring and leaves a flush due.
LEMMA SubmitStranded ==
  ASSUME IInv, NoOrphan, WakeDue, NEW s \in Slots, NEW path, NEW len, Submit(s, path, len)
  PROVE  NoOrphan' /\ WakeDue'
<1>1. PICK i : i = Len(reads) + 1
  BY Zenon
<1>2. /\ flight' = flight \cup {[slot |-> s, read |-> i, stage |-> "sq"]}
      /\ pending' = [pending EXCEPT ![s] = i] /\ cq' = cq /\ unflushed' = unflushed + 1
  BY <1>1 DEF Submit
<1>3. ASSUME NEW t \in Slots, pending'[t] # 0 PROVE UnderWay(t)'
  <2>1. CASE t = s
    <3>1. pending'[t] = i
      BY <1>2, <2>1, SharedTyped
    <3>2. [slot |-> s, read |-> i, stage |-> "sq"] \in flight'
      BY <1>2
    <3>3. QED
      BY <2>1, <3>1, <3>2 DEF UnderWay
  <2>2. CASE t # s
    <3>1. pending'[t] = pending[t]
      BY <1>2, <2>2, SharedTyped
    <3>2. UnderWay(t)
      BY <1>3, <3>1 DEF NoOrphan
    <3>3. QED
      BY <1>2, <3>1, <3>2 DEF UnderWay
  <2>3. QED
    BY <2>1, <2>2
<1>4. WakeDue'
  BY <1>2, SharedTyped DEF WakeDue
<1>5. QED
  BY <1>3, <1>4 DEF NoOrphan

\* The kernel moves a read from its queue to the device and from there to the
\* completions; it sleeps only when its queue is empty.
LEMMA KernelStranded ==
  ASSUME IInv, NoOrphan, WakeDue, KernelTake \/ KernelSleep \/ KernelFinish
  PROVE  NoOrphan' /\ WakeDue'
<1>1. CASE KernelTake
  <2>1. PICK f \in flight : flight' = (flight \ {f}) \cup {[f EXCEPT !.stage = "run"]}
    BY <1>1 DEF KernelTake
  <2>2. PICK g : g = [f EXCEPT !.stage = "run"]
    BY Zenon
  <2>3. g \in flight' /\ g.slot = f.slot /\ g.read = f.read
    BY <2>1, <2>2, SharedTyped DEF Entries
  <2>4. UNCHANGED <<pending, cq, asleep>> /\ ~asleep
    BY <1>1 DEF KernelTake
  <2>5. ASSUME NEW s \in Slots, UnderWay(s) PROVE UnderWay(s)'
    <3>1. CASE \E h \in flight : h.slot = s /\ h.read = pending[s]
      BY <2>1, <2>3, <2>4, <3>1 DEF UnderWay
    <3>2. CASE \E k \in 1 .. Len(cq) : cq[k].slot = s /\ cq[k].read = pending[s]
      BY <2>4, <3>2 DEF UnderWay
    <3>3. QED
      BY <2>5, <3>1, <3>2 DEF UnderWay
  <2>6. QED
    BY <2>4, <2>5 DEF NoOrphan, WakeDue
<1>2. CASE KernelSleep
  BY <1>2, Zenon DEF KernelSleep, NoOrphan, UnderWay, WakeDue
<1>3. CASE KernelFinish
  <2>1. PICK f \in flight : \E res \in Results(f.read) :
          /\ flight' = flight \ {f}
          /\ cq' = Append(cq, [slot |-> f.slot, read |-> f.read, res |-> res])
    BY <1>3, Zenon DEF KernelFinish
  <2>2. PICK res \in Results(f.read) :
          /\ flight' = flight \ {f}
          /\ cq' = Append(cq, [slot |-> f.slot, read |-> f.read, res |-> res])
    BY <2>1
  <2>3. PICK c : c = [slot |-> f.slot, read |-> f.read, res |-> res]
    BY Zenon
  <2>4. UNCHANGED <<pending, asleep, unflushed>>
    BY <1>3 DEF KernelFinish
  <2>5. /\ Len(cq') = Len(cq) + 1 /\ cq'[Len(cq) + 1] = c /\ Len(cq) \in Nat
        /\ \A k \in 1 .. Len(cq) : cq'[k] = cq[k]
    <3>1. cq' = Append(cq, c)
      BY <2>2, <2>3, Zenon
    <3>2. cq \in Seq(Completions)
      BY SharedTyped, Zenon
    <3>3. QED
      BY <3>1, <3>2, AppendKeeps, ZenonT(60)
  <2>6. ASSUME NEW s \in Slots, UnderWay(s) PROVE UnderWay(s)'
    <3>1. CASE \E k \in 1 .. Len(cq) : cq[k].slot = s /\ cq[k].read = pending[s]
      <4>1. PICK k \in 1 .. Len(cq) : cq[k].slot = s /\ cq[k].read = pending[s]
        BY <3>1
      <4>2. k \in 1 .. Len(cq') /\ cq'[k] = cq[k]
        BY <2>5
      <4>3. QED
        BY <2>4, <4>1, <4>2, Zenon DEF UnderWay
    <3>2. CASE f.slot = s /\ f.read = pending[s]
      <4>1. Len(cq) + 1 \in 1 .. Len(cq')
        BY <2>5
      <4>2. c.slot = s /\ c.read = pending[s]
        BY <2>3, <3>2, Zenon
      <4>3. QED
        BY <2>4, <2>5, <4>1, <4>2, Zenon DEF UnderWay
    <3>3. CASE \E h \in flight \ {f} : h.slot = s /\ h.read = pending[s]
      BY <2>2, <2>4, <3>3 DEF UnderWay
    <3>4. QED
      BY <2>6, <3>1, <3>2, <3>3, Zenon DEF UnderWay
  <2>7. WakeDue'
    BY <2>2, <2>4 DEF WakeDue
  <2>8. QED
    BY <2>4, <2>6, <2>7 DEF NoOrphan
<1>4. QED
  BY <1>1, <1>2, <1>3

\* A poll wakes the kernel's thread if a flush is due, and gives up a read only
\* together with the slot that waits for it.
LEMMA PollStranded ==
  ASSUME IInv, NoOrphan, WakeDue, Poll
  PROVE  NoOrphan' /\ WakeDue'
<1>1. CASE PollBegins
  BY <1>1, SharedTyped, Zenon DEF PollBegins, NoOrphan, UnderWay, WakeDue
<1>2. CASE PollEnds
  BY <1>2, Zenon DEF PollEnds, uring, NoOrphan, UnderWay, WakeDue
<1>3. CASE Advance
  <2>1. cq \in Seq(Completions) /\ cq # <<>> /\ Len(cq) \in Nat \ {0}
    BY <1>3, SharedTyped DEF Advance
  <2>2. /\ pending' = [pending EXCEPT ![cq[1].slot] = 0]
        /\ UNCHANGED <<flight, asleep, unflushed>>
    <3>1. Head(cq) = cq[1]
      BY <2>1
    <3>2. QED
      BY <1>3, <3>1, Zenon DEF Advance
  <2>3. /\ Len(cq') = Len(cq) - 1
        /\ \A k \in 1 .. Len(cq) - 1 : cq'[k] = cq[k + 1]
    BY <1>3, <2>1 DEF Advance
  <2>4. ASSUME NEW s \in Slots, pending'[s] # 0 PROVE UnderWay(s)'
    <3>1. s # cq[1].slot /\ pending'[s] = pending[s]
      BY <2>2, <2>4, SharedTyped
    <3>2. UnderWay(s)
      BY <2>4, <3>1 DEF NoOrphan
    <3>3. ASSUME NEW k \in 1 .. Len(cq), cq[k].slot = s, cq[k].read = pending[s]
          PROVE  UnderWay(s)'
      <4>1. k # 1 /\ k - 1 \in 1 .. Len(cq) - 1
        BY <2>1, <3>1, <3>3
      <4>2. cq'[k - 1] = cq[k]
        <5>1. (k - 1) + 1 = k
          BY <2>1
        <5>2. QED
          BY <2>3, <4>1, <5>1
      <4>3. QED
        BY <2>3, <3>1, <3>3, <4>1, <4>2 DEF UnderWay
    <3>4. QED
      BY <2>2, <3>1, <3>2, <3>3, ZenonT(60) DEF UnderWay
  <2>5. WakeDue'
    BY <2>2 DEF WakeDue
  <2>6. QED
    BY <2>4, <2>5, Zenon DEF NoOrphan
<1>4. QED
  BY <1>1, <1>2, <1>3 DEF Poll, ReapFailure, ReapSuccess

\* No read of the driver is stranded: a slot that is not free has its own read
\* under way, and a kernel thread asleep over committed entries has a wake-up
\* to come from the next flush_submissions.
THEOREM ReadsUnderWay == Spec => []NothingStranded
<1>1. NoOrphan /\ WakeDue => NothingStranded
  BY DEF NothingStranded, NoOrphan, UnderWay, WakeDue
<1>2. Init => NoOrphan /\ WakeDue
  BY DEF Init, NoOrphan, WakeDue
<1>3. IInv /\ NoOrphan /\ WakeDue /\ [Next]_vars => NoOrphan' /\ WakeDue'
  <2> SUFFICES ASSUME IInv, NoOrphan, WakeDue, [Next]_vars PROVE NoOrphan' /\ WakeDue'
    OBVIOUS
  <2>1. CASE \E s \in Slots : SubmitFile(s) \/ SubmitNative(s)
    BY <2>1, SubmitStranded DEF SubmitFile, SubmitNative
  <2>2. CASE KernelTake \/ KernelSleep \/ KernelFinish
    BY <2>2, KernelStranded
  <2>3. CASE Poll
    BY <2>3, PollStranded
  <2>4. CASE \/ ResetTelemetry \/ UNCHANGED vars
             \/ \E s \in DOMAIN queue : Consume(s) \/ Recycle(s)
    <3>1. UNCHANGED <<pending, flight, cq, asleep, unflushed>>
      BY <2>4, Zenon DEF ResetTelemetry, Consume, Recycle, vars, uring
    <3>2. QED
      BY <3>1 DEF NoOrphan, UnderWay, WakeDue
  <2>5. QED
    BY <2>1, <2>2, <2>3, <2>4 DEF Next
<1>4. QED
  BY <1>1, <1>2, <1>3, Reachable, PTL DEF Spec
=============================================================================
