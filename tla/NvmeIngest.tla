----------------------------- MODULE NvmeIngest -----------------------------
(***************************************************************************)
(* NvmeGpuIngestDriver: a host thread submits reads into the fixed slots of *)
(* a mapped buffer, reaps their completions and publishes each filled slot  *)
(* to the IO queue, from which the resident kernel consumes it.             *)
(*                                                                          *)
(* A read has a number, its place in the history "reads".  The driver knows *)
(* only the slot: a completion carries the byte offset of its slot, and the *)
(* tag of a published slot is its index.  The io_uring is external: it      *)
(* finishes reads in any order, in full, short or with an error.  The       *)
(* caller is external too: it moves the IO queue's words to the device and  *)
(* back and empties the slots it wants to use again.                        *)
(***************************************************************************)
EXTENDS Integers, Sequences, FiniteSets

CONSTANTS
  ReadPath,    \* the path the driver was constructed for
  SlotCount,   \* slots of the mapped buffer
  QueueSlots,  \* slots of the MegakernelIoQueue; the driver never compares the two
  ReadLens,    \* lengths of the reads, none above slot_bytes
  SqEntries,   \* entries of the submission queue
  MaxReads     \* bound: reads submitted in a behaviour

Slots == 0 .. SlotCount - 1
Paths == {"mapped", "gpudirect"}
Fates == {"flight", "failed", "lost", "published"}

ASSUME ReadPathAssumption == ReadPath \in Paths
ASSUME SlotCountAssumption == SlotCount \in Nat \ {0}
ASSUME QueueSlotsAssumption == QueueSlots \in Nat \ {0}
ASSUME ReadLensAssumption == ReadLens \subseteq Nat
ASSUME MaxReadsAssumption == MaxReads \in Nat

VARIABLES
  pending,    \* per slot: the read it waits for, 0 for None
  flight,     \* reads the io_uring holds, not yet completed
  cq,         \* completions not yet reaped, in the order they were posted
  inflight,   \* stream.inflight
  unflushed,  \* stream.pending_submissions
  asleep,     \* the kernel's submission thread sleeps
  queue,      \* per slot of the IO queue: status, byte count, and the read
  telemetry,  \* the counters of NvmeGpuIngestTelemetry
  polling,    \* the driver is inside poll_completions_into
  reads,      \* history: every accepted read and what became of it
  memory,     \* history: per slot, the last read the device has written
  mark,       \* history: reads accepted before the last telemetry reset
  clean       \* history: nothing was in flight at that reset

uring == <<flight, cq, asleep>>
history == <<mark, clean>>
vars == <<pending, uring, inflight, unflushed, queue, telemetry, polling,
          reads, memory, history>>

NoTelemetry ==
  [submitted |-> [p \in Paths |-> 0], completed |-> 0, failed |-> 0,
   submitted_bytes |-> 0, completed_bytes |-> 0]

Init ==
  /\ pending = [s \in Slots |-> 0]
  /\ flight = {} /\ cq = <<>> /\ asleep = FALSE
  /\ inflight = 0 /\ unflushed = 0
  /\ queue = [s \in 0 .. QueueSlots - 1 |-> [status |-> "EMPTY", bytes |-> 0, read |-> 0]]
  /\ telemetry = NoTelemetry
  /\ polling = FALSE
  /\ reads = <<>> /\ memory = [s \in Slots |-> 0]
  /\ mark = 0 /\ clean = TRUE
-----------------------------------------------------------------------------
(* Submission *)

\* Slip: the slot's pending entry is not looked at.
SlotFreeAlways(s) == s \in Slots

\* validate_slot_for_submit.  The IO queue's status word is not consulted.
SlotFree(s) == pending[s] = 0

\* get_sqe finds room.
SqHasRoom == Cardinality({f \in flight : f.stage = "sq"}) < SqEntries

\* The entry is committed, the submission counted and the slot marked; every
\* refusal returns before anything has changed.
Submit(s, path, len) ==
  LET i == Len(reads) + 1 IN
  /\ ~polling /\ Len(reads) < MaxReads
  /\ SlotFree(s) /\ SqHasRoom
  /\ flight' = flight \cup {[slot |-> s, read |-> i, stage |-> "sq"]}
  /\ inflight' = inflight + 1 /\ unflushed' = unflushed + 1
  /\ telemetry' = [telemetry EXCEPT !.submitted[path] = @ + 1, !.submitted_bytes = @ + len]
  /\ pending' = [pending EXCEPT ![s] = i]
  /\ reads' = Append(reads, [path |-> path, len |-> len, fate |-> "flight", got |-> 0])
  /\ UNCHANGED <<cq, asleep, queue, polling, memory, history>>

\* submit_file, on a driver of either path; an empty file is a read of no bytes.
SubmitFile(s) == \E len \in ReadLens : Submit(s, "mapped", len)

SubmitNative(s) ==
  /\ ReadPath = "gpudirect"
  /\ \E len \in ReadLens \ {0} : Submit(s, "gpudirect", len)
-----------------------------------------------------------------------------
(* The io_uring (external) *)

\* The kernel's thread takes an entry.
KernelTake ==
  /\ ~asleep
  /\ \E f \in flight :
       /\ f.stage = "sq"
       /\ flight' = (flight \ {f}) \cup {[f EXCEPT !.stage = "run"]}
  /\ UNCHANGED <<pending, cq, asleep, inflight, unflushed, queue, telemetry,
                 polling, reads, memory, history>>

\* Idle for long enough, the thread sleeps until it is woken.
KernelSleep ==
  /\ ~asleep /\ \A f \in flight : f.stage # "sq"
  /\ asleep' = TRUE
  /\ UNCHANGED <<pending, flight, cq, inflight, unflushed, queue, telemetry,
                 polling, reads, memory, history>>

\* What a read may report: an errno, a byte count, or an NVMe status.
Results(i) == IF reads[i].path = "mapped" THEN -1 .. reads[i].len ELSE -1 .. 1

KernelFinish ==
  \E f \in flight : \E res \in Results(f.read) :
    /\ f.stage = "run"
    /\ flight' = flight \ {f}
    /\ cq' = Append(cq, [slot |-> f.slot, read |-> f.read, res |-> res])
    /\ memory' = [memory EXCEPT ![f.slot] = f.read]
    /\ UNCHANGED <<pending, asleep, inflight, unflushed, queue, telemetry,
                   polling, reads, history>>
-----------------------------------------------------------------------------
(* poll_completions_into *)

\* Slip: the entries are taken for flushed, the sleeping thread is not woken.
PollBeginsWithoutWaking ==
  /\ ~polling /\ polling' = TRUE
  /\ unflushed' = 0
  /\ UNCHANGED <<pending, flight, cq, asleep, inflight, queue, telemetry, reads, memory, history>>

\* flush_submissions; when waking the kernel's thread fails the call returns
\* with everything as it was.
PollBegins ==
  /\ ~polling /\ polling' = TRUE
  /\ asleep' = (asleep /\ unflushed = 0)
  /\ unflushed' = 0
  /\ UNCHANGED <<pending, flight, cq, inflight, queue, telemetry, reads, memory, history>>

\* The completion at the head leaves the queue; its slot is free again.
Advance ==
  /\ polling /\ cq # <<>>
  /\ cq' = Tail(cq)
  /\ inflight' = inflight - 1
  /\ pending' = [pending EXCEPT ![Head(cq).slot] = 0]
  /\ UNCHANGED <<flight, asleep, unflushed, memory, history>>

\* The read the driver takes the completion for.
Awaited(c) == pending[c.slot]

Failed(c) ==
  \/ c.res < 0
  \/ Awaited(c) = 0
  \/ reads[Awaited(c)].path = "gpudirect" /\ c.res # 0

\* Slip: the slot of a failed read stays pending.
ReapFailureKeepsSlot ==
  LET c == Head(cq) IN
  /\ polling /\ cq # <<>> /\ Failed(c)
  /\ cq' = Tail(cq)
  /\ inflight' = inflight - 1
  /\ telemetry' = [telemetry EXCEPT !.failed = @ + 1]
  /\ reads' = [reads EXCEPT ![c.read].fate = "failed"]
  /\ UNCHANGED <<pending, flight, asleep, unflushed, queue, polling, memory, history>>

\* An error is counted and remembered; the loop goes on.
ReapFailure ==
  LET c == Head(cq) IN
  /\ Advance /\ Failed(c)
  /\ telemetry' = [telemetry EXCEPT !.failed = @ + 1]
  /\ reads' = [reads EXCEPT ![c.read].fate = "failed"]
  /\ UNCHANGED <<queue, polling>>

\* publish_slot's own test.
Publishable(s) == s < QueueSlots /\ queue[s].status = "EMPTY"

ByteCount(c) == IF reads[Awaited(c)].path = "mapped" THEN c.res ELSE reads[Awaited(c)].len

Published(c) ==
  /\ queue' = [queue EXCEPT ![c.slot] =
       [status |-> "PUBLISHED", bytes |-> ByteCount(c), read |-> Awaited(c)]]
  /\ reads' = [reads EXCEPT ![c.read].fate = "published", ![c.read].got = ByteCount(c)]
  /\ polling' = polling

\* publish_slot is refused: the call returns at once, the completion is
\* spent, its slot is no longer pending and no counter has moved.
Refused(c) ==
  /\ reads' = [reads EXCEPT ![c.read].fate = "lost"]
  /\ polling' = FALSE
  /\ UNCHANGED queue

Counted(c) ==
  telemetry' = [telemetry EXCEPT !.completed = @ + 1, !.completed_bytes = @ + ByteCount(c)]

\* Slip: the completion is counted before the publication is tried.
ReapSuccessCountsFirst ==
  LET c == Head(cq) IN
  /\ Advance /\ ~Failed(c)
  /\ Counted(c)
  /\ IF Publishable(c.slot) THEN Published(c) ELSE Refused(c)

ReapSuccess ==
  LET c == Head(cq) IN
  /\ Advance /\ ~Failed(c)
  /\ IF Publishable(c.slot)
     THEN Published(c) /\ Counted(c)
     ELSE Refused(c) /\ UNCHANGED telemetry

PollEnds ==
  /\ polling /\ cq = <<>>
  /\ polling' = FALSE
  /\ UNCHANGED <<pending, uring, inflight, unflushed, queue, telemetry, reads,
                 memory, history>>

Poll == PollBegins \/ ReapFailure \/ ReapSuccess \/ PollEnds

\* Slip: the totals of the bytes survive a reset.
ResetTelemetryKeepsBytes ==
  /\ ~polling /\ telemetry # NoTelemetry
  /\ telemetry' = [NoTelemetry EXCEPT !.completed_bytes = telemetry.completed_bytes]
  /\ mark' = Len(reads) /\ clean' = (inflight = 0)
  /\ UNCHANGED <<pending, uring, inflight, unflushed, queue, polling, reads, memory>>

ResetTelemetry ==
  /\ ~polling /\ telemetry # NoTelemetry
  /\ telemetry' = NoTelemetry
  /\ mark' = Len(reads) /\ clean' = (inflight = 0)
  /\ UNCHANGED <<pending, uring, inflight, unflushed, queue, polling, reads, memory>>
-----------------------------------------------------------------------------
(* The consumer *)

\* process_io_requests, between an upload and a readback of the queue's words.
Consume(s) ==
  /\ ~polling /\ queue[s].status = "PUBLISHED"
  /\ queue' = [queue EXCEPT ![s].status = "DONE"]
  /\ UNCHANGED <<pending, uring, inflight, unflushed, telemetry, polling, reads,
                 memory, history>>

\* No code of the kernel or the driver empties a DONE slot: the caller does,
\* through megakernel_io_queue_mut.
Recycle(s) ==
  /\ ~polling /\ queue[s].status = "DONE"
  /\ queue' = [queue EXCEPT ![s].status = "EMPTY"]
  /\ UNCHANGED <<pending, uring, inflight, unflushed, telemetry, polling, reads,
                 memory, history>>

Next ==
  \/ \E s \in Slots : SubmitFile(s) \/ SubmitNative(s)
  \/ KernelTake \/ KernelSleep \/ KernelFinish
  \/ Poll
  \/ ResetTelemetry
  \/ \E s \in DOMAIN queue : Consume(s) \/ Recycle(s)

Spec == Init /\ [][Next]_vars

\* The caller keeps polling, as the ingest test's loop does, and the kernel
\* works off what it has been given.  Nobody has to submit, reset or consume.
FairSpec == Spec /\ WF_vars(Poll) /\ WF_vars(KernelTake) /\ WF_vars(KernelFinish)
-----------------------------------------------------------------------------
(* Properties *)

Since == mark + 1 .. Len(reads)
Lost == {i \in Since : reads[i].fate = "lost"}

\* inflight_reads and the verdict of validate_completed_zero_copy.
Monus(a, b) == IF a < b THEN 0 ELSE a - b
SubmittedReads == telemetry.submitted["mapped"] + telemetry.submitted["gpudirect"]
InflightReads == Monus(Monus(SubmittedReads, telemetry.completed), telemetry.failed)
ZeroCopyComplete(path) ==
  /\ telemetry.failed = 0
  /\ InflightReads = 0
  /\ telemetry.submitted_bytes = telemetry.completed_bytes
  /\ SubmittedReads = telemetry.completed
  /\ telemetry.submitted[path] = SubmittedReads
  /\ \A p \in Paths \ {path} : telemetry.submitted[p] = 0

\* The variables have the shape the driver's and the queue's types give them;
\* in particular the in-flight counter never passes below zero.
TypeOK ==
  /\ pending \in [Slots -> 0 .. MaxReads]
  /\ flight \subseteq [slot : Slots, read : 1 .. MaxReads, stage : {"sq", "run"}]
  /\ \A k \in DOMAIN cq : cq[k] \in [slot : Slots, read : 1 .. MaxReads, res : Int]
  /\ inflight \in Nat /\ unflushed \in Nat /\ asleep \in BOOLEAN /\ polling \in BOOLEAN
  /\ \A s \in DOMAIN queue :
       queue[s] \in [status : {"EMPTY", "PUBLISHED", "DONE"}, bytes : Nat,
                     read : 0 .. MaxReads]
  /\ telemetry.completed \in Nat /\ telemetry.failed \in Nat
  /\ \A i \in DOMAIN reads : reads[i].fate \in Fates

\* A slot is published for a read only when its bytes are that read's: the
\* completion was matched to the read that caused it, whatever the order in
\* which the reads ended, and no other read may still write the slot.
PublishedBytesAreOwn ==
  [][\A s \in DOMAIN queue :
       queue'[s].read # queue[s].read =>
         /\ memory[s] = queue'[s].read /\ reads'[memory[s]].fate = "published"
         /\ \A f \in flight : f.slot # s]_vars

\* As long as the telemetry is not reset with reads in flight, its in-flight
\* count is the stream's plus the reads whose publication was refused: those
\* stay counted as in flight although no completion of theirs will come.
TelemetryBalanced ==
  /\ inflight = Cardinality(flight) + Len(cq)
  /\ clean => InflightReads = inflight + Cardinality(Lost)

\* Under the same condition, when validate_completed_zero_copy accepts a
\* snapshot every read submitted since the reset went over the given path and
\* was published with all of its bytes.
ZeroCopyVerdict ==
  clean => \A path \in Paths : ZeroCopyComplete(path) =>
    \A i \in Since :
      reads[i].path = path /\ reads[i].fate = "published" /\ reads[i].got = reads[i].len

\* No read is stranded: a slot that waits has its own read with the io_uring or
\* among the completions, and whenever the kernel's thread sleeps over an entry
\* the next poll has a wake-up to send (flush_submissions).
NothingStranded ==
  /\ \A s \in Slots : pending[s] # 0 =>
       \/ \E f \in flight : f.slot = s /\ f.read = pending[s]
       \/ \E k \in 1 .. Len(cq) : cq[k].slot = s /\ cq[k].read = pending[s]
  /\ asleep /\ (\E f \in flight : f.stage = "sq") => unflushed > 0

\* A slot with an accepted read is free for the next one eventually, whatever
\* the outcome of the read and of its publication.
SlotsComeBack == \A s \in Slots : pending[s] # 0 ~> pending[s] = 0
=============================================================================
