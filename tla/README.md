# A TLA+ verification of the vyre runtime

vyre compiles data-parallel programs to GPU kernels and runs them. Most of the
repository is sequential compiler code: IR, optimiser, emitters, reference
interpreter, operator libraries. What is hard to get right by testing lies in
the runtime and the drivers, where host threads, device lanes and the kernel's
IO queues share words of memory without locks. This project models that part,
checks it with TLC on small instances and proves its main properties with
TLAPS for every instance.

`PROJECT.json` is the index: components, runs, mutants, the correspondence of
definitions to source lines (`map`), findings, hazards and theorems.

## 1. The system and its parts

| part | state it owns | operations | whom it meets |
|---|---|---|---|
| megakernel ring (`megakernel/builder.rs`, `handlers.rs`, `protocol_api/publish.rs`) | slot words, control words, tenant masks, metrics | publish one slot, a window, a batch with a fence; a lane's iteration: observe, authorise, claim, execute, hand back | host publisher against all lanes |
| priority kernel (`megakernel/scheduler.rs`, `builder/priority.rs`) | partition offsets, starvation and fairness counters | scan by priority, claim, account | all lanes |
| tenants (`tenant.rs`) | per-tenant counters and flag, registry map, next id | register, unregister, publish, note drained, quiesce, snapshot, select | publisher threads, the pump, the registry |
| IO queue (`megakernel/io/`, `uring/io_loop.rs`, `uring/driver.rs`) | request slots EMPTY, PUBLISHED, CLAIMED, OK, ERROR, DONE | request, claim, complete, recycle | lanes, IO thread, io_uring |
| ingest pump (`uring/pump.rs`, `uring/stream.rs`, `uring/ring.rs`) | staged publications, in-flight count | submit, drain into the ring | io_uring, megakernel ring |
| persistent work queue (`vyre-driver/src/persistent.rs`) | head, tail, sequence numbers, payload words, completion markers | enqueue, claim, mark done, count | producers, consumers, observers |
| replay log (`replay.rs`) | records and cursor in a file | open, append, replay | crash and restart |
| pipeline caches (`pipeline_cache/`, `vyre-driver/src/pipeline/cache.rs`) | files, pending-flush set, LRU list | get, put, flush | threads, processes, crash |
| autotune store (`autotune_store.rs`), speculator (`speculate.rs`) | a file; an average and a flag | load, save; record | processes; threads |
| wgpu readback ring and buffer pool, CUDA pools | slot states; free lists, bitmap, byte budget | record, arm, collect; acquire, release, evict | threads, device callbacks |
| device loss (`megakernel/recovery.rs`, `execution.rs`) | compiled pipeline | rebuild, retry once | resident ring |

The hard behaviours: lanes racing for a slot that the host recycles; words
published in the wrong order; a check and the action it guards separated by
another thread; two counters read one after the other; completions out of
order; a crash between two writes; a slot used again before its last user has
left. `hazards` in `PROJECT.json` lists them at the line where each bites, with
the properties that cover it, or why none does.

## 2. Modules

| module | models | kind |
|---|---|---|
| `MegakernelRing` | ring publication and the persistent lane body | specification, properties |
| `TenantAccounting` | one tenant's counters under concurrent publishers | specification, properties |
| `TenantRegistry` | registration, opcode windows, revocation | specification, properties |
| `TenantSelection` | the greedy selection of compatible tenants | specification, properties |
| `PersistentQueue` | the lock-free work queue | specification, properties, refinement mapping |
| `FifoQueue` | what the work queue promises: a bounded FIFO | abstract specification |
| `PriorityKernel` | the priority scan, its starvation guard and the claim | specification, properties |
| `IoLoop` | LOAD_MISS lanes, the IO thread and an external io_uring | composed specification, properties |
| `NvmeIngest` | the ingest driver, an external io_uring, the IO queue and its consumer | composed specification, properties |
| `ReplayLog` | the replay log's file and handle, with crashes and failed writes | specification, properties, refinement mapping |
| `CircularLog` | what the replay log promises: the last N records in order | abstract specification |
| `MC*` | values of the constants and symmetries for TLC | model-checking modules |
| `*Proofs` | theorems about the modules they extend (`TenantProofs`: `TenantRegistry` and `TenantSelection`) | proofs |

In every specification a definition whose comment begins with "Slip" or "A
slip" is a plausible mistake in the code that the definition after it
translates. No specification uses one; they serve to show that each property
can fail (`mutants` in `PROJECT.json`).

### MegakernelRing

The host stores the words of a slot one at a time (`HostStore`, in the order of
`write_slot_unchecked`: opcode, tenant, arguments, status); `PublishSlot`,
`PublishWorkItems` and `BatchPublish` validate the whole window first, as the
three entry points do, and the stores follow. The host is one thread: the ring
buffer is an exclusive borrow. A lane's iteration is a sequence of steps, one
per access to shared memory: `Prologue` (the SHUTDOWN word), `Observe` (the
status), `LoadTenant`, `LoadMask`, `Claim` (the compare-exchange), `Bind` (the
payload), `Dispatch` (the metric), a body, `Tally` (DONE_COUNT), `MarkDone`.
A publication is numbered by a ticket. The argument words of a slot are the
ticket that wrote them, which is what the properties tell apart: a torn payload
is one whose words belong to two tickets. `published` and `runs` are history.

Abstractions: NOP stands for the opcodes whose bodies touch no word of the
protocol. STORE_U32 is kept where it stores to the mask table, since this is
how a running kernel enables and disables tenants. Tenant ids lie inside the
mask table. Memory is sequentially consistent: the code's fences and atomics
order the status word after the payload, and the lane's payload loads come
after its compare-exchange. LOAD_MISS is the subject of `IoLoop`, the IO poll
that some programs add to an iteration is `NvmeIngest!Consume`. PRINTF and
packed slots are not modelled.

### TenantAccounting, TenantRegistry, TenantSelection

`TenantAccounting` follows `publish_slot` from the revoked check
(`CheckRevoked`) through the compare-exchange loop of
`checked_atomic_update_u64_with_order` (`LoadPublished`, `LoadDrained`,
`Exchange`) to the ring's answer (`RingAccepts`, or `RingRejects` and
`Rollback`). Whether the ring accepts is a choice here. `NoteDrained` is the
pump, `Unregister` the registry, `Snapshot*` is `runtime_counters`, and
`BeginQuiesce`, `PollPublished`, `PollDrained` are `quiesce` with its bounded
number of polls. A publisher between `CheckRevoked` and its `Exchange` is in
the window that `unregister` does not close (`Entered`); `quiet.late` is the
history of how many were there when a quiesce began.

`TenantRegistry` splits registration where threads can interleave: the load of
`next_id` (`BeginRegister`), the exchange (`DrawId`), the insertion (`Insert`);
and `unregister` into the removal and the flag. Opcodes are u32: `OpcodeSpace`
stands for 2^32 and `SystemBit` for 2^31, so that the end of the space is
reached after a few registrations.

`TenantSelection` is `select_concurrent_tenants_into` as a loop over the
candidates, for every set of tenants and every conflict slice, including
slices of the wrong length.

### PersistentQueue and FifoQueue

Every atomic access of `enqueue`, `claim` and `try_in_flight` is a step, the
two payload words included, which are stored and loaded separately. The
sequence number of a slot decides who may use it. `log` is the history of
accepted items in head order, `finished` the positions whose consumer called
`mark_done`. `None` also stands for the zero item that slots hold at first.

`FifoQueue` has `Put`, `Take` and `Drop` on a sequence of accepted items.
`PersistentQueue!Fifo` maps it: accepted is `log`, taken is `tail`, and what a
taker holds is the item at its position while it has words left to load, and
the words it has loaded from then on (`InHand`). A torn or overwritten item
would change `held` without an abstract step.

Assumptions: sequentially consistent interleaving (each access the order of
others depends on is Acquire or Release); the u64 counters do not wrap; the
ring size, a power of two in the code, may be any positive number here;
`mark_done` is called once per item, with the slot of that item, by whoever
claimed it (`claim` returns no slot index, callers keep it from `enqueue`).

### PriorityKernel

A lane's iteration in the priority program: `Prologue`, `LoadCounter` (the
shared starvation counter, once per scan), then one `Probe`, `ProbeMask` and
`Claim` per candidate, in the order of the two nested loops (`Probes`,
`Before`), `Account`, `Authorise` and `Execute`. The partition table, the
stride and the set of lanes are parameters. The program passes the number of
slots as the stride, so lane k looks only at the k-th slot of each partition;
lanes whose ids differ by the stride look at the same slots, and the instances
have two such lanes so that they race. The mask is loaded twice, before the
claim (`ProbeMask`) and after it (`Authorise`), as the code does. The fairness
counters are left out because nothing reads them; what a body does to the ring
is `MegakernelRing`'s subject, and here it only ends. The counter is a natural
number: the theorem `CounterBounded` keeps it below Threshold + lanes, so the
u32 of the code does not wrap. The history variable `streak` counts the
CRITICAL and HIGH claims since the last claim of lower priority, at the
compare-exchange and not at the later update of the counter.

### IoLoop

The lanes run `load_miss_body`: `ScanSlot` one slot at a time, `WriteRequest`,
`PublishRequest`, and the polling loop, which ends with OK (`PollOk`) or after
its 2^32 - 1 polls (`PollGivesUp`). The slot is found by a load and written by plain stores,
so two lanes may write the same slot; the history variable `raced` records
that this has happened. The thread is `spawn_with_registered_destinations`
step by step: look at the flag (`Top`, `Leave`), reap completions (`Drain`,
`Drained`), claim slot by slot (`ClaimSlot`), serve the batch (`SubmitRead`,
`AnswerFence`, `AnswerOther` and the two failures), `Flush`, or wait. Each `?`
and `return Err` of the code ends the thread (`Exit`), which drops the ring
with what it holds. The io_uring is external: its thread takes entries unless
it sleeps, and finishes reads in any order with success or failure. The ring is
in SQPOLL mode, the one in which a flush matters. A request is its ticket; the
words that make up a request are written together, because no reader looks at
a slot that is not PUBLISHED. The program with the LOAD_MISS handler is built
without the lanes' IO poll.

### NvmeIngest

One host thread calls the driver: `SubmitFile`, `SubmitNative`,
`poll_completions_into` and `ResetTelemetry`. A poll is several steps
(`PollBegins`, one `ReapFailure` or `ReapSuccess` per completion, `PollEnds`),
because the io_uring posts completions while it runs; the driver is an
exclusive borrow, so nothing else of the host is between them. A completion
knows its slot, never its read: the driver takes it for the read the slot
waits for (`Awaited`), while `reads` and `memory` record which read it really
was. `Refused` is the `?` behind `publish_slot`: the completion is spent and
nothing is counted. `Consume` is the kernel's `process_io_requests` between an
upload and a readback of the queue. No code empties a DONE slot (the error
message says "wait for the GPU to recycle it"), so `Recycle` is the caller,
external. The IO queue may have fewer slots than the buffer; the driver never
compares the two.

### ReplayLog and CircularLog

`open` creates the file in seven writes (`OpenFresh`, `CreateStep`), or trusts
the header of an existing one (`OpenExisting`); `append` is a record write and
a cursor write (`WriteRecord`, `PersistCursor`), each of which may fail, the
first half-way; `Crash` ends the process anywhere. What was written survives
the crash: losses below the file system, against which callers may use `sync`,
are not modelled. A record is the number of its write. `MIXED` is a record
torn by a failed write with a valid magic word, which a replay returns;
`BROKEN` has half a magic word, at which a replay fails.

`CircularLog` adds a record behind the others, drops the oldest from a full
log, may lose the oldest to a torn write, and forgets on a crash only records
that no caller was told are written. The refinement maps its log to what a
replay returns, without torn records and those a crash has left past the
cursor (`stray`). `Gather` is the loop of `replay_all` over a set of records,
and both `Replay` and the mapping are instances of it.

## 3. What TLC checks

| run | instance | properties |
|---|---|---|
| `ring_direct` | 2 slots, one lane each, 2 tenants of which one is enabled, mask stores, fences, shutdown, 2 publications, fair | `AuthorisedTenantRuns`, `CountersAgree`, `InFlightPayloadStable`, `ClaimedIsHandedBack`, `ShutdownStopsLanes`, `EnabledWorkRuns` |
| `ring_shared` | 3 lanes on 1 slot, 3 publications | `ClaimedByOneLane`, `ExecutesOnePublication`, `RunsExactlyOnce` |
| `priority_guard` | 2 lanes on the same slots, 3 partitions of one slot, threshold 2, fair | `OneHolder`, `StuckOnlyIfRevoked`, `HighStreakBounded`, `LowerPriorityServed` |
| `priority_forced` | 2 lanes, a CRITICAL and a NORMAL slot, threshold 2, fair | `HighPriorityServed`, violated (section 4) |
| `tenant_publish` | 3 publishers, cap 2, 3 calls, a revocation, a snapshot, a quiesce with `max_spins` 1 | `AccountingExact`, `BacklogWithinCap`, `BackpressureWhenFull`, `QuiescedAfterStop`, `StragglersBounded` |
| `registry_race` | 3 threads, ids and windows that run out | `FreshIds`, `WindowsDisjoint`, `HandlesAccountedFor` |
| `selection` | up to 3 tenants, every matrix, wrong lengths | `SelectionIndependent`, `SelectionMaximal` |
| `io_loop` | 2 lanes, 2 IO slots, a submission queue of 1, up to 3 requests of every kind, fair | `ClaimedExactlyOnce`, `OkMeansServed`, `RequestsAnswered`, `StopReturns` |
| `ingest` | 2 buffer slots, 1 IO-queue slot, a submission queue of 1, 3 reads of one block, fair | `NothingStranded`, `TelemetryBalanced`, `ZeroCopyVerdict`, `PublishedBytesAreOwn`, `SlotsComeBack` |
| `replay_crash` | capacities 1 to 3, 7 record writes | `AcknowledgedKept`, `ReplayOrdered`, `ImplementsCircularLog` |
| `queue_fifo` | 2 producers, 2 consumers, an observer, 2 slots, 2 items, 3 positions | `InFlightWithinRing`, `ImplementsFifo`, `FullIsTrue`, `NoneMeansEmpty` |
| `queue_live` | 2 producers, 2 consumers, 2 slots, 4 positions, fair | `EnqueuedIsClaimed` |

The type invariants (`TypeOK`) are theorems of the proof modules
(`TypeCorrect`); that of `NvmeIngest` contains that the stream's in-flight
counter never passes below zero. No run repeats them.

Bounds. `MaxTickets` bounds the publications of a behaviour of the ring,
`MaxItems` of the ring the items of a batch, `MaxCalls` the calls to
`publish_slot` or `register`, `MaxSnapshots` and `MaxQuiesces` the calls of
those threads, `MaxItems` of the queue the head at which `enqueue` may begin
(so that head may pass it by the producers already inside). They are chosen so
that the interesting case happens: a slot is published twice while lanes hold
loads of its first publication; there are more publishers and calls than the
cap; more registrations than ids and windows; the queue wraps while threads
hold a head or a tail of the lap before. The races are between two actors at
one slot or counter, and the runs have two or three of each kind.

`MaxRequests` and `Workloads` bound what the lanes of `IoLoop` ask for: one
lane that asks for more than there are slots, two lanes that meet in one slot
or fill both, and a read next to each other kind of request, so that a batch
fails in the middle and the submission queue of one entry is full. `MaxReads`
of `NvmeIngest` lets a slot be used again while the other slot's read is
outstanding; the queue with one slot has both reasons to refuse a publication,
a slot that is not empty and a slot that does not exist; a read of one block
ends in full, short (0) or with an error. `MaxWrites` of `ReplayLog` lets a log
of three records wrap twice with a failure or a crash in between. `Threshold`
is 16 in the code; with 2 the guard trips after a few claims. The bound of
`HighStreakBounded` is reached: with two lanes and a threshold of 2 there are
streaks of 5 claims, in which one lane has claimed a slot of lower priority and
is late with its reset, and both lanes are inside a scan when the guard trips.

Every property of the passing runs except the liveness properties is a theorem
of section 5, which lifts the result to every value of the bounds.

Deadlock is not checked where the bounds make a behaviour end: in the ring
(publications run out and the lanes may all have returned), in the tenant and
registry models (calls run out) and in the selection, which terminates. In
`IoLoop` the requests run out and the thread may have ended with an error; in
`ReplayLog` a creation that was interrupted leaves a file that no later `open`
accepts, and then nothing can happen any more. The runs of the queue, of the
priority kernel and of the ingest driver check it: consumers may always call
`claim`, lanes may always scan or the host publish, and the driver may always
be polled.

Fairness. `MegakernelRing!FairSpec` is weakly fair to `HostStore`, because
publication is one synchronous call that has begun, and to each lane, because
the launch is a persistent grid whose lanes are all resident. Publishing itself
is not fair: nothing obliges the host to publish. `PersistentQueue!FairSpec` is
weakly fair to each thread inside `enqueue`, and to each consumer's loop, which
calls `claim` again after every answer, as the consumers of the tests do.
Calling `enqueue` is not fair. `PriorityKernel!FairSpec` is fair to each lane,
for the reason given for the ring, and to no action of the host.
`IoLoop!FairSpec` is fair to the thread's steps in which no system call fails
and to the io_uring working off what it was given (`KernelTake`, which is
disabled while the kernel's thread sleeps, and `KernelFinish`); lanes need not
run, and failures need not happen. `NvmeIngest!FairSpec` assumes the same of
the io_uring, and that the caller keeps polling, as the loop of the ingest test
does. The liveness runs use no symmetry.

## 4. Where code and documentation disagree

One disagreement is a run of the project, and the quoted line is in `findings`:

- `priority_forced`: "After `STARVATION_THRESHOLD` consecutive high-priority
  claims, the scheduler forcibly scans lower-priority partitions for one
  iteration" (`megakernel/scheduler.rs:17-18`). Only a claim of a lower
  priority resets the counter, so when nothing of lower priority is published
  every scan is a forced one and CRITICAL and HIGH slots are not looked at.

The modules state further properties, after a line of the documentation or the
evident intent, that the code does not have. They are not in the list of runs;
the configuration named here, or the property added as an INVARIANT to the
configuration of the module's run, shows the behaviour.

| property | configuration | what the code does |
|---|---|---|
| `FenceSignalsCompletion` (`MegakernelRing`) | `MCMegakernelRing_fence.cfg` | The lane that executes `BATCH_FENCE` waits for no other slot, so the tag and the epoch appear while items of the batch are unexecuted; `publish.rs:417` says the fence "signals completion to the host". |
| `SnapshotConsistent` (`TenantAccounting`) | `MCTenantAccounting_snapshot.cfg` | `runtime_counters` loads `published_count` before `drained_count` and panics when a slot is published and drained in between (`tenant.rs:379-388`). |
| `WindowsInUserSpace` (`TenantRegistry`) | `MCTenantRegistry_userspace.cfg` | Late ids get opcode windows with the system bit and every publish of such a tenant is rejected; `tenant.rs:14-16` puts "the whole range" inside the user space. |
| `RefusesWhenFull` (`PersistentQueue`) | `MCPersistentQueue_one.cfg` | With a ring of one slot, which both constructors accept, the published sequence of a position is the free sequence of the next, and `enqueue` overwrites an unclaimed item instead of returning `QueueFull` (`persistent.rs:230`). |
| `DoneMeansFinished` (`PersistentQueue`) | `MCPersistentQueue_done.cfg` | A slot is released before its item is worked on, so a late `mark_done` marks the next item (`persistent.rs:303`, `326`). |
| `ReplayInSync` (`ReplayLog`) | `ReplayLog_sync.cfg` | "a crash mid-session does not desynchronise the replay" (`replay.rs:244-245`): a crash between the record and the cursor leaves the newest record at the cursor, and the reopened log replays it first. |
| `NoneStranded` (`IoLoop`) | INVARIANT | "Mark every still-claimed slot failed before propagating" (`io_loop.rs:191-192`) covers a failed flush for the reads of the batch; after any other error the requests behind the failed one, and the reads in flight, stay CLAIMED. |
| `HardDrain` (`TenantAccounting`) | INVARIANT | A publisher past the revoked check publishes after `unregister` and a successful `quiesce`; `StragglersBounded` says how many can. |
| `FullMeansOccupied` (`TenantRegistry`) | INVARIANT | Ids are never returned, so an empty registry reports that it is full. |
| `InFlightAnswers` (`PersistentQueue`) | INVARIANT | `try_in_flight` loads head before tail and fails when tail overtakes the head it read. |

What the passing properties leave out on purpose is also behaviour of the code:

- `OkMeansServed` says whose answer an OK is, and nothing of the data: LOAD_MISS
  stores a byte count of 0, and the thread reports any result that is not
  negative as a success.
- `OkMeansServed` and `ClaimedExactlyOnce` end where two lanes of LOAD_MISS
  have written one slot. From then on a lane may take another lane's OK for its
  own, and the thread may meet a slot that is not CLAIMED and end.
- A lane whose request failed polls until it gives up, and nothing empties an
  ERROR slot.
- `StuckOnlyIfRevoked` allows a slot that stays CLAIMED when its tenant is
  disabled between the claim and the second look at the mask.
- `TelemetryBalanced` counts a read whose publication was refused as in flight
  for ever, and `ZeroCopyVerdict` assumes that the telemetry was not reset with
  reads in flight: after such a reset the verdict may accept with a read
  outstanding.
- The driver accepts a new read into a slot whose previous bytes are still
  PUBLISHED to the kernel: it looks at its own pending entry only.
  `PublishedBytesAreOwn` is about the moment of publication.
- `ReplayOrdered` exempts the record a crash has left past the cursor. The
  documentation of `replay_all` says it stops at the first record without the
  magic word; the code skips records never written and goes on.

## 5. What is proved

All theorems hold for every value of the constants that satisfies the named
assumptions, which say of what type the constants are (`LaneSlot` maps lanes to
slots, the lanes are finitely many, the cap is positive, items are pairs, and so
on). Each proof module
defines an inductive invariant `IInv`, shows that `Init` implies it and that
every action preserves it, one lemma per action or family of actions, and
derives the properties.

**MegakernelRingProofs.** `IInv` adds to the properties: where the host is in
its stores (`HostInv`: the slots of tickets it has not finished are EMPTY or
DONE, so no lane reads them), what a PUBLISHED or CLAIMED slot holds
(`SlotInv`: all words of one finished ticket, issued for that slot, and not run
while it is PUBLISHED), and what a lane holds (`LaneInv`). Without `SlotInv`,
that no publication runs twice (`RunsAtMostOnce`) is not inductive: nothing
would connect a claim with a ticket that has not run. `TypeCorrect`,
`ClaimExclusive`, `NoTornPayload`, `ExactlyOnce` and `PayloadStable` hold for
any assignment of lanes to slots. `ExactlyOnce` adds the other half, that none
is lost, by following one ticket: finished by the host, it stays in its slot
while the slot is in flight (`PublishedStep`), then with the one lane that owns
the slot (`OwnerStep`) until that lane dispatches it.
`TenantAuthorised` assumes `OneLanePolls`, the launch geometry of
`execution.rs`, and rests on the further fact that a slot which a lane has seen
PUBLISHED stays so until that lane claims it; with two lanes per slot the
property is false. `CountersExact` compares cardinalities: DONE_COUNT plus the
lanes still inside a body is the number of publications that have been
dispatched, and likewise for EPOCH and each metric. The steps are sorted by what
they do to these sets (`UncountedSteps`, `CountedSteps`, `DispatchCounts`): a
dispatch adds one publication, which had not run (`LaneInv`), and
one lane, and a tally or a fence moves one lane out as it raises its counter.
`DoneCountExact` draws the conclusion the host draws from the counter: a subset
of the finished publications that has as many elements as they have is all of
them.

**TenantAccountingProofs.** `AccountingExact` says that `published_count` is
the drained slots, the slots in the ring and the reservations under way; the
last is the cardinality of the set of publishers between their exchange and
their answer, so the proof uses the theorems on finite sets. The cap, the
justification of backpressure and the drain of a revoked tenant follow from it
together with what each publisher's loaded values still bound (`LocalInv`) and
what the quiescing thread has seen (`QuietInv`). `RevocationDrains` needs one
more invariant (`LateInv`): on a revoked tenant no publisher enters the window
between the check and the reservation, and each that leaves it by a reservation
raises `published_count` by one, so the sum of the two never passes what it was
when the quiesce loaded `published_count`.

**TenantProofs.** The registry: ids drawn are below `next_id` and belong to one
thread (`DrawnInv`); disjoint windows are arithmetic from there.
`HandlesAccountedFor` is inductive with `DrawnInv`, which makes an inserted id
new. The selection:
the loop invariant (`SelectIInv`) says that the selected candidates are pairwise
compatible, and that each rejected one conflicts with a selected one.

**PersistentQueueProofs.** `QueueIsFifo` is a refinement theorem: every step of
the lock-free queue is a step of `FifoQueue` or a stutter. It needs to know
what each slot's sequence number says. With N slots, position q among the last
N is in one of the states free (`ready` = q), published (q + 1) or released
(q + N), and the thread that moves it from one to the next is the one whose
compare-exchange won q (`RingInv`, `SeqInv`, `ProdInv`, `ConsInv`). Two
positions that share a slot differ by a multiple of N (`SlotInjective`,
`SlotPeriodic`), so a thread with an old head or tail cannot mistake one lap
for another. `OwnInv` keeps winners apart, `ObsInv` bounds an observer's head.
`SlotsAttended` says that a slot between its states has a thread at work in it;
it is an invariant of its own beside `IInv`, and `FullCorrect` needs it to say
whom a refused producer is waiting for.
These theorems assume a ring of at least two slots: for one slot q + 1 = q + N,
published and released are the same number, the invariant is false, and so are
the properties (section 4).

**PriorityKernelProofs.** `DefaultTable` shows that the default offsets are a
partition table for every ring size, the assumption (`OffsetsAssumption`) of
the other theorems. `TypeCorrect` contains that a probe never leaves its
partition: the remainder by the partition's length, which is positive whenever
a lane probes it. `ClaimsExclusive` and `StuckHasOneCause` are inductive with
the types. The counter can pass the threshold by scans that loaded it earlier:
`CounterBounded` bounds the counter plus the number of lanes that may still add
to it, those in an unforced scan or holding a CRITICAL or HIGH slot that is not
yet accounted for, by Threshold + lanes - 1 (`CounterRoom`); a scan can only
begin unforced while the counter is below the threshold. A streak can be longer
than the counter shows, because a lane that has claimed a slot of lower priority
resets the counter only later and may erase what has been counted since.
`StreakRoom` bounds the streak and the claims still to come (`ToCome`) by a
quadratic function of the lanes that owe no reset (`Room`): a claim of lower
priority ends the streak and takes its lane out of them, and the late reset
brings the lane back, with room for another threshold and one claim of each
free lane.

**IoLoopProofs.** `IInv` is the types (`Types`) and, until two lanes have
written one slot, that a lane has its slot to itself (`LaneInv`: the slot is
EMPTY until the lane publishes and holds the words of its request from then
on), who has which slot in hand while the thread runs (`Hands`: a slot is
CLAIMED exactly while it is in the rest of the batch or in one read in flight,
never both, and the thread's copy of the request is still what the slot holds),
and what an OK stands for (`Answers`). The part about the lanes is what keeps
the thread's copies from going stale. `WaitIsBounded` is about the order of
flush and wait: `WakeInv` says that entries committed for a sleeping kernel
thread are marked dirty, that nothing is dirty outside a batch, and that the
thread only waits with a read in flight.

**ReplayLogProofs.** `IInv` adds to the types the shape of the file (`Shape`:
the capacity is zero until it is written and then the handle's, the cursor and
next_slot are inside it), that a slot with an acknowledged record comes up for
writing only after the log has gone round (`Kept`), and that the records are in
order (`Order`). A failed cursor write leaves next_slot ahead of the file and a
crash sets it back, so both are stated twice: from next_slot for the open log,
and from the cursor for the log as it would be opened again, there without the
records written past the cursor.

`LogIsCircular` is the refinement of `CircularLog`. It needs one more invariant,
`Packed`: seen from where a replay starts, the slots without a record that
counts come first and the others follow without a gap, for the open log and for
the log as it would be opened again. So the log is full exactly when the slot
that is written next holds one of its records (`LogInv`), which is when `Add`
drops the oldest one. What the recursive `Gather` computes follows by least
counterexample from the well-foundedness of the naturals (`LeastNatural`,
`GatherSuffix`): with `Order`, the log is the increasing sequence of the records
that count (`LogFacts`), and there is only one (`IncreasingUnique`). Each step
then only has to say how that set changes: a write adds the greatest element
(`WriteAdds`) and takes away at most the least, a torn write only takes away, a
cursor write acknowledges the greatest (`CursorAcknowledges`), and a crash cuts
off the greatest ones, none of them acknowledged (`CrashForgets`).

**NvmeIngestProofs.** `IInv` has five parts. `Types`. `Matched`: at most one
read is under way in a slot, in the io_uring or as a completion, and the slot
waits for that read; this makes the driver's guess at the read of a completion
(`Awaited`) right, and `OwnBytes` follows. `Accounted`: a read whose end is open
is under way, no read gets more bytes than it asked for, and a failure or the
use of a path leaves its trace in the telemetry. `Balance`: reads submitted are
the completed, failed and lost ones and those in flight, as cardinalities.
`BytesOwed`: the byte counters differ by the sum of what each read since the
reset asked for and did not get. The sum is not a recursive definition but a
function of the reads (`Owing`) that exists, begins at 0 and grows by each
read's debt; a submission extends it and a completion lowers it from its read
on. `Verdict` needs all five: that the totals agree says that every read was
complete only because no debt is negative. It is proved for resets with nothing
in flight, as `ZeroCopyVerdict` states. `ReadsUnderWay` is the converse of
`Matched`: a slot that waits has its read somewhere (`NoOrphan`), and the reads
in a sleeping io_uring are counted as unflushed (`WakeDue`).

Only model-checked: the liveness properties (`ClaimedIsHandedBack`,
`ShutdownStopsLanes`, `EnabledWorkRuns`, `EnqueuedIsClaimed`,
`LowerPriorityServed`, `RequestsAnswered`, `StopReturns`, `SlotsComeBack`),
which rest on fairness and on ENABLED, of which the prover knows nothing; and
the disagreements of section 4, which are counterexamples. Of five of them the
part that is safety is proved, that whoever is waited for is there to be waited
for: `ExactlyOnce` for `EnabledWorkRuns` (work that has not run is in its slot
or with a lane about to run it), `SlotsAttended` for `EnqueuedIsClaimed`,
`WaitIsBounded` for `RequestsAnswered` and `StopReturns`, and `ReadsUnderWay`
for `SlotsComeBack`.

## 6. What is not modelled

`components` in `PROJECT.json` gives the state of every part. Outside the
project for good: the IR, optimiser, emitters, frontends, interpreter and
operator libraries (sequential functions over large data), the native device
APIs, and the developer tools. By far the most lines of the repository are
there: the modules model about 2,850 lines of some 970,000 lines of Rust (tests
and operator libraries included), those in which threads, lanes, processes or
the kernel share state.

Parts that share state and are not modelled; `hazards` says what could go wrong
in them:

- the ingest pump (`uring/pump.rs`), which stages publications into the ring
  and pairs completions with them by order; the driver of `NvmeIngest` answers
  the same question for the pairing by slot;
- the disk stores of the pipeline caches and the autotune store: files shared
  by threads and processes;
- the wgpu readback ring and buffer pool and the CUDA pools, whose slot states
  are moved by callbacks of the device API;
- device loss: what the resident buffers hold after it is not in the runtime's
  source;
- packed slots, PRINTF, argument words beyond the third;
- memory weaker than sequentially consistent. The protocols order their
  accesses with fences and atomics; where they do not (LOAD_MISS), the model
  shows the interleavings and not what a weak memory adds to them. One place
  where it matters is the sleep of the io_uring's polling thread: the tail is a
  Release store (`ring.rs:426`) and NEED_WAKEUP an Acquire load (`ring.rs:359`)
  with no full barrier between them, so the load may be performed first and a
  thread that falls asleep in between is not woken. `IoLoop!Flush` and the flush
  of `NvmeIngest` read the flag after the store, and `RequestsAnswered`,
  `NothingStranded` and `SlotsComeBack` are shown under that order.

## 7. Running it

    tlc -workers 2 -config MCPersistentQueue_fifo.cfg MCPersistentQueue
    tlc -workers 2 -config ReplayLog_crash.cfg ReplayLog
    tlapm PersistentQueueProofs.tla

Each run of `PROJECT.json` names its module and configuration. The longest run
takes about two minutes, the longest proof (`NvmeIngestProofs`) about a quarter of
an hour. A leaf of a proof that names no prover is for the SMT solver and
then for Zenon, as the `USE` at the head of its module says; the solver is
listed twice because in the larger modules tlapm now and then gives up on a
leaf before handing it over.
