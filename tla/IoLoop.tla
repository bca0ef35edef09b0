------------------------------- MODULE IoLoop -------------------------------
(***************************************************************************)
(* GPU-initiated IO: lanes of the resident kernel run LOAD_MISS, which puts *)
(* a read request in a slot of the IO queue and spins on its status; a host *)
(* thread, MegakernelIoLoop, claims requests from the same memory, submits  *)
(* them to an io_uring and stores the outcome of each completion.           *)
(*                                                                          *)
(* Every request has a number, its ticket.  The request words of a slot     *)
(* (operation, handles, offset, size, tag) are one value, the ticket that   *)
(* wrote them.  The io_uring is external: a kernel thread takes committed   *)
(* entries from the submission queue unless it has gone to sleep, and       *)
(* finishes them in any order, with success or with an error.               *)
(*                                                                          *)
(* The program that has the LOAD_MISS handler is built without the lanes'   *)
(* own IO poll, so the thread is the only one that claims requests.         *)
(***************************************************************************)
EXTENDS Integers, Sequences, FiniteSets

CONSTANTS
  SlotCount,    \* slots of the IO queue
  Lanes,        \* lanes that run LOAD_MISS
  SqEntries,    \* entries of the submission queue
  MaxRequests,  \* bound: requests in a behaviour
  Workloads     \* which lane may ask for what: sequences of at most MaxRequests requests

Slots == 0 .. SlotCount - 1

\* What the loop tells apart in a request: a READ whose destination handle is
\* registered or is not, a FENCE, and any other operation.  LOAD_MISS itself
\* makes READ requests.
RequestKinds == {"read", "unregistered", "fence", "other"}

Statuses == {"EMPTY", "PUBLISHED", "CLAIMED", "OK", "ERROR"}
LanePcs == {"idle", "scan", "write", "publish", "poll"}
LoopPcs == {"top", "drain", "claim", "dispatch", "wait", "exited"}

ASSUME SlotCountAssumption == SlotCount \in Nat \ {0}
ASSUME SqEntriesAssumption == SqEntries \in Nat \ {0}
ASSUME MaxRequestsAssumption == MaxRequests \in Nat
ASSUME WorkloadsAssumption ==
  \A w \in Workloads : w \in Seq([lane : Lanes, op : RequestKinds]) /\ Len(w) <= MaxRequests

VARIABLES
  queue,     \* per slot: the status word and the request words
  lane,      \* per lane: program counter, slot and ticket
  work,      \* the requests to come, one of the workloads
  issued,    \* requests made so far
  loop,      \* the thread: program counter, scan index, the batch, what is
             \* left of it, and the request words it has copied
  flight,    \* the submitted reads whose completion has not been reaped
  dirty,     \* stream.pending_submissions > 0
  asleep,    \* the kernel's submission thread sleeps (IORING_SQ_NEED_WAKEUP)
  shutdown,  \* the flag stop() sets
  raced,     \* history: a lane has written a slot that was no longer free
  served     \* history: the requests whose read has succeeded

laneVars == <<lane, work, issued, raced>>
uringVars == <<flight, dirty, asleep, served>>
vars == <<queue, laneVars, loop, uringVars, shutdown>>

NoRequests == [s \in Slots |-> 0]

\* A lane that runs no handler, or has left it.
Idle == [pc |-> "idle", slot |-> 0, ticket |-> 0]

\* The thread between two rounds, or when it has ended.
Start(label) == [pc |-> label, next |-> 0, batch |-> {}, todo |-> {}, req |-> NoRequests]

Init ==
  /\ queue = [s \in Slots |-> [status |-> "EMPTY", ticket |-> 0]]
  /\ lane = [l \in Lanes |-> Idle]
  /\ work \in Workloads
  /\ issued = 0
  /\ loop = Start("top")
  /\ flight = {} /\ dirty = FALSE /\ asleep = FALSE
  /\ shutdown = FALSE
  /\ raced = FALSE /\ served = {}
-----------------------------------------------------------------------------
(* The lanes: load_miss_body *)

LoadMiss(l) ==
  /\ lane[l].pc = "idle"
  /\ issued < Len(work) /\ work[issued + 1].lane = l
  /\ issued' = issued + 1
  /\ lane' = [lane EXCEPT ![l] = [pc |-> "scan", slot |-> 0, ticket |-> issued + 1]]
  /\ UNCHANGED <<queue, work, raced, loop, uringVars, shutdown>>

\* One step of the scan for an EMPTY slot; a lane that finds none leaves the
\* handler without a request.
ScanSlot(l) ==
  LET s == lane[l].slot IN
  /\ lane[l].pc = "scan"
  /\ lane' = [lane EXCEPT ![l] =
       IF queue[s].status = "EMPTY" THEN [@ EXCEPT !.pc = "write"]
       ELSE IF s + 1 < SlotCount THEN [@ EXCEPT !.slot = s + 1]
       ELSE Idle]
  /\ UNCHANGED <<queue, work, issued, raced, loop, uringVars, shutdown>>

\* The stores of the request words.
WriteRequest(l) ==
  /\ lane[l].pc = "write"
  /\ queue' = [queue EXCEPT ![lane[l].slot] = [@ EXCEPT !.ticket = lane[l].ticket]]
  /\ lane' = [lane EXCEPT ![l] = [@ EXCEPT !.pc = "publish"]]
  /\ raced' = (\/ raced \/ queue[lane[l].slot].status # "EMPTY"
               \/ \E m \in Lanes : lane[m].pc = "publish" /\ lane[m].slot = lane[l].slot)
  /\ UNCHANGED <<work, issued, loop, uringVars, shutdown>>

PublishRequest(l) ==
  /\ lane[l].pc = "publish"
  /\ queue' = [queue EXCEPT ![lane[l].slot] = [@ EXCEPT !.status = "PUBLISHED"]]
  /\ lane' = [lane EXCEPT ![l] = [@ EXCEPT !.pc = "poll"]]
  /\ UNCHANGED <<work, issued, raced, loop, uringVars, shutdown>>

\* The lane sees OK, empties the slot and is done.
PollOk(l) ==
  /\ lane[l].pc = "poll" /\ queue[lane[l].slot].status = "OK"
  /\ queue' = [queue EXCEPT ![lane[l].slot] = [@ EXCEPT !.status = "EMPTY"]]
  /\ lane' = [lane EXCEPT ![l] = Idle]
  /\ UNCHANGED <<work, issued, raced, loop, uringVars, shutdown>>

\* poll_max_iters polls have seen no OK; ERROR is one of the statuses that do
\* not end the loop earlier.  The slot is left as it is.
PollGivesUp(l) ==
  /\ lane[l].pc = "poll" /\ queue[lane[l].slot].status # "OK"
  /\ lane' = [lane EXCEPT ![l] = Idle]
  /\ UNCHANGED <<queue, work, issued, raced, loop, uringVars, shutdown>>

LaneStep(l) ==
  \/ LoadMiss(l) \/ ScanSlot(l) \/ WriteRequest(l) \/ PublishRequest(l)
  \/ PollOk(l) \/ PollGivesUp(l)
-----------------------------------------------------------------------------
(* The io_uring (external) *)

Stage(stages) == {f \in flight : f.stage \in stages}

SetStage(f, stage) == flight' = (flight \ {f}) \cup {[f EXCEPT !.stage = stage]}

\* The kernel's thread takes an entry.
KernelTake ==
  /\ ~asleep
  /\ \E f \in Stage({"sq"}) : SetStage(f, "run")
  /\ UNCHANGED <<queue, laneVars, loop, dirty, asleep, served, shutdown>>

\* It goes to sleep only when it has seen the queue empty.
KernelSleep ==
  /\ ~asleep /\ Stage({"sq"}) = {}
  /\ asleep' = TRUE
  /\ UNCHANGED <<queue, laneVars, loop, flight, dirty, served, shutdown>>

\* A read ends, in any order, and its completion is posted.
KernelFinish ==
  /\ \E f \in Stage({"run"}), ok \in BOOLEAN :
       /\ SetStage(f, IF ok THEN "ok" ELSE "failed")
       /\ served' = IF ok THEN served \cup {f.ticket} ELSE served
  /\ UNCHANGED <<queue, laneVars, loop, dirty, asleep, shutdown>>
-----------------------------------------------------------------------------
(* The loop *)

Claimed(s) == queue[s].status = "CLAIMED"

\* complete_io_request of a slot that is CLAIMED; otherwise it is an error
\* and changes nothing.
Complete(s, ok) ==
  queue' = IF Claimed(s)
             THEN [queue EXCEPT ![s] = [@ EXCEPT !.status = IF ok THEN "OK" ELSE "ERROR"]]
             ELSE queue

\* The thread ends and drops its stream: the ring is torn down with whatever
\* is in flight.
Exit ==
  /\ loop' = Start("exited")
  /\ flight' = {} /\ dirty' = FALSE /\ asleep' = FALSE

Leave ==
  /\ loop.pc = "top" /\ shutdown
  /\ Exit
  /\ UNCHANGED <<queue, laneVars, served, shutdown>>

Top ==
  /\ loop.pc = "top" /\ ~shutdown
  /\ loop' = [loop EXCEPT !.pc = "drain"]
  /\ UNCHANGED <<queue, laneVars, uringVars, shutdown>>

\* Slip: the result of a read is not looked at.
DrainIgnoresResult(f) ==
  /\ loop.pc = "drain" /\ f.stage \in {"ok", "failed"}
  /\ Complete(f.slot, TRUE)
  /\ IF Claimed(f.slot)
       THEN flight' = flight \ {f} /\ UNCHANGED <<loop, dirty, asleep>>
       ELSE Exit
  /\ UNCHANGED <<laneVars, served, shutdown>>

\* One completion is reaped and stored.  A slot that is not CLAIMED ends the
\* thread.
Drain(f) ==
  /\ loop.pc = "drain" /\ f.stage \in {"ok", "failed"}
  /\ Complete(f.slot, f.stage = "ok")
  /\ IF Claimed(f.slot)
       THEN flight' = flight \ {f} /\ UNCHANGED <<loop, dirty, asleep>>
       ELSE Exit
  /\ UNCHANGED <<laneVars, served, shutdown>>

Drained ==
  /\ loop.pc = "drain" /\ Stage({"ok", "failed"}) = {}
  /\ loop' = [loop EXCEPT !.pc = "claim"]
  /\ UNCHANGED <<queue, laneVars, uringVars, shutdown>>

\* Slip: the request is copied and stays PUBLISHED (poll_io_requests).
ClaimSlotPolls ==
  /\ loop.pc = "claim" /\ loop.next < SlotCount
  /\ LET s == loop.next IN
       /\ loop' = IF queue[s].status = "PUBLISHED"
                    THEN [loop EXCEPT !.next = @ + 1, !.batch = @ \cup {s}, !.todo = @ \cup {s},
                                      !.req = [@ EXCEPT ![s] = queue[s].ticket]]
                    ELSE [loop EXCEPT !.next = @ + 1]
       /\ UNCHANGED queue
  /\ UNCHANGED <<laneVars, uringVars, shutdown>>

\* claim_io_requests_words, one slot: PUBLISHED is overwritten with CLAIMED
\* and the request words are copied.
ClaimSlot ==
  /\ loop.pc = "claim" /\ loop.next < SlotCount
  /\ LET s == loop.next IN
       IF queue[s].status = "PUBLISHED"
         THEN /\ queue' = [queue EXCEPT ![s] = [@ EXCEPT !.status = "CLAIMED"]]
              /\ loop' = [loop EXCEPT !.next = @ + 1, !.batch = @ \cup {s}, !.todo = @ \cup {s},
                                      !.req = [@ EXCEPT ![s] = queue[s].ticket]]
         ELSE /\ loop' = [loop EXCEPT !.next = @ + 1]
              /\ UNCHANGED queue
  /\ UNCHANGED <<laneVars, uringVars, shutdown>>

\* Slip: an idle thread goes on without looking at the flag.
ClaimEndsSpins ==
  /\ loop.pc = "claim" /\ loop.next = SlotCount
  /\ loop' = [loop EXCEPT !.next = 0, !.pc = IF loop.batch # {} THEN "dispatch"
                                 ELSE IF flight # {} THEN "wait" ELSE "drain"]
  /\ UNCHANGED <<queue, laneVars, uringVars, shutdown>>

\* The batch is served; with nothing claimed the thread waits for a
\* completion, or backs off for a bounded time when none is due.  (The flush
\* before the wait has nothing to do: every batch has ended with one.)
ClaimEnds ==
  /\ loop.pc = "claim" /\ loop.next = SlotCount
  /\ loop' = [loop EXCEPT !.next = 0, !.pc = IF loop.batch # {} THEN "dispatch"
                                 ELSE IF flight # {} THEN "wait" ELSE "top"]
  /\ UNCHANGED <<queue, laneVars, uringVars, shutdown>>

\* The next request of the batch, in slot order.
Serving(s, k) ==
  /\ loop.pc = "dispatch" /\ s \in loop.todo
  /\ \A r \in loop.todo : s <= r
  /\ work[loop.req[s]].op = k

Handled(s) == [loop EXCEPT !.todo = @ \ {s}]

\* Tells two reads for one slot apart.
FreshId == CHOOSE n \in 0 .. Cardinality(flight) : \A f \in flight : f.id # n

\* submit_read_fixed_at commits an entry.
SubmitRead(s) ==
  /\ Serving(s, "read") /\ Cardinality(Stage({"sq"})) < SqEntries
  /\ flight' = flight \cup
       {[slot |-> s, ticket |-> loop.req[s], id |-> FreshId, stage |-> "sq"]}
  /\ dirty' = TRUE
  /\ loop' = Handled(s)
  /\ UNCHANGED <<queue, laneVars, asleep, served, shutdown>>

\* The submission queue is full: the request fails and the thread ends.
SubmitFails(s) ==
  /\ Serving(s, "read") /\ Cardinality(Stage({"sq"})) = SqEntries
  /\ Complete(s, FALSE)
  /\ Exit
  /\ UNCHANGED <<laneVars, served, shutdown>>

\* A destination nobody registered fails the request and ends the thread.
Unregistered(s) ==
  /\ Serving(s, "unregistered")
  /\ Complete(s, FALSE)
  /\ Exit
  /\ UNCHANGED <<laneVars, served, shutdown>>

\* Requests that are answered on the spot; the `?` ends the thread when the
\* slot is not CLAIMED.
Answered(s) ==
  IF Claimed(s) THEN loop' = Handled(s) /\ UNCHANGED <<flight, dirty, asleep>> ELSE Exit

AnswerFence(s) ==
  /\ Serving(s, "fence")
  /\ Complete(s, TRUE)
  /\ Answered(s)
  /\ UNCHANGED <<laneVars, served, shutdown>>

AnswerOther(s) ==
  /\ Serving(s, "other")
  /\ Complete(s, FALSE)
  /\ Answered(s)
  /\ UNCHANGED <<laneVars, served, shutdown>>

\* Slip: the sleeping thread is left to wake by itself.
FlushWithoutWaking ==
  /\ loop.pc = "dispatch" /\ loop.todo = {}
  /\ dirty' = FALSE
  /\ loop' = [loop EXCEPT !.pc = "top", !.batch = {}, !.req = NoRequests]
  /\ UNCHANGED <<queue, laneVars, flight, asleep, served, shutdown>>

\* The batch is served.  flush_submissions: wake the kernel's thread when it
\* sleeps.  The look at NEED_WAKEUP sees a sleep that began before it: the tail
\* and the flag are sequentially consistent here, while the code has a Release
\* store and an Acquire load with no full barrier between them.
Flush ==
  /\ loop.pc = "dispatch" /\ loop.todo = {}
  /\ dirty' = FALSE
  /\ asleep' = IF dirty THEN FALSE ELSE asleep
  /\ loop' = [loop EXCEPT !.pc = "top", !.batch = {}, !.req = NoRequests]
  /\ UNCHANGED <<queue, laneVars, flight, served, shutdown>>

\* The wake-up fails: the READ requests of the batch fail, the thread ends.
FlushFails ==
  /\ loop.pc = "dispatch" /\ loop.todo = {} /\ dirty /\ asleep
  /\ queue' = [s \in Slots |->
       IF s \in loop.batch /\ work[loop.req[s]].op = "read" /\ Claimed(s)
         THEN [queue[s] EXCEPT !.status = "ERROR"] ELSE queue[s]]
  /\ Exit
  /\ UNCHANGED <<laneVars, served, shutdown>>

\* enter(0, 1, 1) returns once a completion is there ...
WaitEnds ==
  /\ loop.pc = "wait" /\ Stage({"ok", "failed"}) # {}
  /\ loop' = [loop EXCEPT !.pc = "top"]
  /\ UNCHANGED <<queue, laneVars, uringVars, shutdown>>

\* ... or fails, for instance when a signal interrupts it.
WaitFails ==
  /\ loop.pc = "wait"
  /\ Exit
  /\ UNCHANGED <<queue, laneVars, served, shutdown>>

\* stop(): the flag; the join returns when the thread has ended.
Stop ==
  /\ shutdown' = TRUE
  /\ UNCHANGED <<queue, laneVars, loop, uringVars>>

\* The steps of the thread in which no system call fails.
LoopStep ==
  \/ Leave \/ Top \/ Drained \/ ClaimSlot \/ ClaimEnds \/ Flush \/ WaitEnds
  \/ \E f \in flight : Drain(f)
  \/ \E s \in Slots : \/ SubmitRead(s) \/ SubmitFails(s) \/ Unregistered(s)
                      \/ AnswerFence(s) \/ AnswerOther(s)

Next ==
  \/ \E l \in Lanes : LaneStep(l)
  \/ KernelTake \/ KernelSleep \/ KernelFinish
  \/ LoopStep \/ FlushFails \/ WaitFails \/ Stop

Spec == Init /\ [][Next]_vars

\* The thread keeps running and the kernel keeps working on what it has been
\* given.  Nothing is assumed of the lanes, and no system call has to fail.
FairSpec == Spec /\ WF_vars(LoopStep) /\ WF_vars(KernelTake) /\ WF_vars(KernelFinish)
-----------------------------------------------------------------------------
(* Properties *)

Reads == [slot : Slots, ticket : 0 .. MaxRequests, id : Nat, stage : {"sq", "run", "ok", "failed"}]

TypeOK ==
  /\ queue \in [Slots -> [status : Statuses, ticket : 0 .. MaxRequests]]
  /\ lane \in [Lanes -> [pc : LanePcs, slot : Slots, ticket : 0 .. MaxRequests]]
  /\ work \in Workloads
  /\ issued \in 0 .. Len(work)
  /\ loop \in [pc : LoopPcs, next : 0 .. SlotCount, batch : SUBSET Slots,
               todo : SUBSET Slots, req : [Slots -> 0 .. MaxRequests]]
  /\ flight \subseteq Reads
  /\ dirty \in BOOLEAN /\ asleep \in BOOLEAN /\ shutdown \in BOOLEAN /\ raced \in BOOLEAN
  /\ served \subseteq 0 .. MaxRequests

Running == loop.pc # "exited"

\* "Claim GPU-published IO requests exactly once": while the thread runs and
\* no two lanes have written one slot, a CLAIMED slot is one request in the
\* thread's hands, either still to be served or in one read in flight, and
\* nothing else is.  So the thread never meets a completion whose slot is not
\* CLAIMED, which would end it (complete_io_requests_words).
ClaimedExactlyOnce ==
  (~raced /\ Running) =>
    /\ \A s \in Slots : Claimed(s) <=> (s \in loop.todo \/ \E f \in flight : f.slot = s)
    /\ \A f \in flight : f.slot \notin loop.todo
    /\ \A f, g \in flight : f.slot = g.slot => f = g

\* A lane that sees OK, and so leaves LOAD_MISS, sees the answer to its own
\* request: as long as no two lanes have written one slot, the read of that
\* request has been reported successful, in whatever order reads end.  Any
\* result that is not negative is a success, and LOAD_MISS asks for a byte
\* count of 0: the property says nothing of the data (load_miss_body,
\* io_loop.rs).
OkMeansServed ==
  ~raced => \A l \in Lanes :
    (lane[l].pc = "poll" /\ queue[lane[l].slot].status = "OK")
      => work[lane[l].ticket].op = "fence" \/ lane[l].ticket \in served

\* Every request is answered, unless the thread ends or two lanes have
\* written one slot: it does not stay PUBLISHED or CLAIMED for ever, whatever
\* sleeps in between (the flush before every wait).
RequestsAnswered ==
  \A s \in Slots :
    []<>(queue[s].status \notin {"PUBLISHED", "CLAIMED"} \/ raced \/ ~Running)

\* stop() returns: once the flag is set the thread ends, also when it is
\* about to wait for a completion.
StopReturns == shutdown ~> ~Running

\* The thread blocks for a completion only when one is on its way: a read is
\* in flight, and no entry waits for a kernel thread that sleeps and that
\* nobody is going to wake (the flush at the end of every batch).
WaitHasAnEnd ==
  loop.pc = "wait" => flight # {} /\ ~dirty /\ (asleep => Stage({"sq"}) = {})

\* No request is left CLAIMED by a thread that has ended ("Mark every still-
\* claimed slot failed before propagating", io_loop.rs).
NoneStranded == (~raced /\ ~Running) => \A s \in Slots : ~Claimed(s)
=============================================================================
