--------------------------- MODULE PriorityKernel ---------------------------
(***************************************************************************)
(* The priority-aware megakernel: the lanes of a resident kernel scan the   *)
(* priority partitions of the ring from CRITICAL to IDLE, claim the first    *)
(* schedulable slot they find and execute it.  A counter shared by all      *)
(* lanes makes a lane skip the two highest priorities once it reaches a     *)
(* threshold.                                                               *)
(*                                                                          *)
(* What a slot's body does to the ring and the control words is the subject *)
(* of MegakernelRing; here a body only ends.  The per-tenant and the        *)
(* per-priority claim counters are written and read by nothing, and are     *)
(* left out, and so is the IO poll at the end of an iteration, which works  *)
(* on a buffer of its own.                                                  *)
(***************************************************************************)
EXTENDS Integers, FiniteSets

CONSTANTS
  SlotCount,   \* slots in the ring
  Offsets,     \* control[PRIORITY_OFFSETS_BASE + p], p in 0 .. PRIORITY_LEVELS
  Lanes,       \* lane ids of the launch
  Stride,      \* worker_stride; priority_scan_body passes the slot count
  Threshold,   \* STARVATION_THRESHOLD
  Tenants,     \* tenant ids inside the mask table
  Tenant0      \* the tenant of a cleared slot

PRIORITY_LEVELS == 5
HIGH == 1
NORMAL == 2

Slots == 0 .. SlotCount - 1
Levels == 0 .. PRIORITY_LEVELS - 1

\* write_default_priority_offsets_array: equal shares, and the remainder to
\* the NORMAL partition.
DefaultOffsets(total) ==
  [p \in 0 .. PRIORITY_LEVELS |->
     p * (total \div PRIORITY_LEVELS)
       + (IF p > NORMAL THEN total % PRIORITY_LEVELS ELSE 0)]

\* What the scan relies on: the partitions are consecutive and fill the ring.
PartitionTable(offsets, total) ==
  /\ offsets \in [0 .. PRIORITY_LEVELS -> 0 .. total]
  /\ offsets[0] = 0 /\ offsets[PRIORITY_LEVELS] = total
  /\ \A p \in Levels : offsets[p] <= offsets[p + 1]

ASSUME SlotCountAssumption == SlotCount \in Nat \ {0}
ASSUME OffsetsAssumption == PartitionTable(Offsets, SlotCount)
ASSUME LanesAssumption == Lanes \subseteq Nat /\ IsFiniteSet(Lanes)
ASSUME StrideAssumption == Stride \in Nat \ {0}
ASSUME TenantAssumption == Tenant0 \in Tenants
ASSUME ThresholdAssumption == Threshold \in Nat \ {0}

Statuses == {"EMPTY", "PUBLISHED", "CLAIMED", "DONE"}
LanePcs == {"prologue", "counter", "probe", "mask", "claim", "account",
            "authorise", "execute", "returned"}

VARIABLES
  ring,      \* per slot: the status word and the tenant word
  mask,      \* the tenant-mask table
  shutdown,  \* control[SHUTDOWN] # 0
  starved,   \* control[PRIORITY_STARVATION_COUNTER]
  pc,        \* where each lane is in its loop body
  reg,       \* per lane: force_lower, the probe at hand, its slot and its tenant
  revoked,   \* history: the slots whose claim was not authorised a second time
  streak     \* history: CRITICAL and HIGH claims since the last claim of lower priority

hostVars == <<mask, shutdown>>
vars == <<ring, mask, shutdown, starved, pc, reg, revoked, streak>>

\* The registers of a lane between two iterations.
Unbound == [force |-> FALSE, probe |-> <<0, 0>>, slot |-> 0, tenant |-> Tenant0]

Init ==
  /\ ring = [s \in Slots |-> [status |-> "EMPTY", tenant |-> Tenant0]]
  /\ mask = [t \in Tenants |-> 1]
  /\ shutdown = FALSE
  /\ starved = 0
  /\ pc = [l \in Lanes |-> "prologue"]
  /\ reg = [l \in Lanes |-> Unbound]
  /\ revoked = {} /\ streak = 0
-----------------------------------------------------------------------------
(* The host *)

\* publish_slot into a slot of any partition, for any tenant.
PublishSlot ==
  \E s \in Slots, t \in Tenants :
    /\ ring[s].status \in {"EMPTY", "DONE"}
    /\ ring' = [ring EXCEPT ![s] = [status |-> "PUBLISHED", tenant |-> t]]
    /\ UNCHANGED <<hostVars, starved, pc, reg, revoked, streak>>

\* The host enables or disables a tenant.
SetMask ==
  \E t \in Tenants, m \in {0, 1} :
    /\ mask' = [mask EXCEPT ![t] = m]
    /\ UNCHANGED <<ring, shutdown, starved, pc, reg, revoked, streak>>

Shutdown ==
  /\ shutdown' = TRUE
  /\ UNCHANGED <<ring, mask, starved, pc, reg, revoked, streak>>
-----------------------------------------------------------------------------
(* One scan *)

PartLen(p) == Offsets[p + 1] - Offsets[p]
ProbeCount(p) == (PartLen(p) + Stride - 1) \div Stride

\* The slot of a lane's i-th probe in partition p.
ScanSlot(l, p, i) == Offsets[p] + (((l % Stride) + i * Stride) % PartLen(p))

\* The probes <<scan_pri, scan_idx>> of one scan.
Probes ==
  [l \in Lanes |-> [force \in BOOLEAN |->
     {x \in Levels \X Slots :
        /\ force => x[1] > HIGH
        /\ (l % Stride) < PartLen(x[1])
        /\ x[2] < ProbeCount(x[1])}]]

\* The order of the two loops.
Before(x, y) == x[1] < y[1] \/ (x[1] = y[1] /\ x[2] < y[2])

Goto(l, label) == pc' = [pc EXCEPT ![l] = label]

NextIteration(l) == Goto(l, "prologue") /\ reg' = [reg EXCEPT ![l] = Unbound]

\* The scan goes on with the first of the probes left, or ends with nothing
\* claimed and the next iteration begins.
Scan(l, force, left) ==
  IF left = {}
    THEN NextIteration(l)
    ELSE \E x \in left :
           /\ \A y \in left \ {x} : Before(x, y)
           /\ reg' = [reg EXCEPT ![l] = [force |-> force, probe |-> x, tenant |-> Tenant0,
                                           slot |-> ScanSlot(l, x[1], x[2])]]
           /\ Goto(l, "probe")

ScanOn(l) == Scan(l, reg[l].force, {x \in Probes[l][reg[l].force] : Before(reg[l].probe, x)})
-----------------------------------------------------------------------------
(* The lanes *)

\* persistent_lane_prologue
Prologue(l) ==
  /\ pc[l] = "prologue"
  /\ Goto(l, IF shutdown THEN "returned" ELSE "counter")
  /\ UNCHANGED <<ring, hostVars, starved, reg, revoked, streak>>

\* Slip: the guard trips one claim late.
LoadCounterLate(l) ==
  /\ pc[l] = "counter"
  /\ LET force == starved > Threshold IN Scan(l, force, Probes[l][force])
  /\ UNCHANGED <<ring, hostVars, starved, revoked, streak>>

\* priority_starvation_count and priority_force_lower, once per scan.
LoadCounter(l) ==
  /\ pc[l] = "counter"
  /\ LET force == starved >= Threshold IN Scan(l, force, Probes[l][force])
  /\ UNCHANGED <<ring, hostVars, starved, revoked, streak>>

\* Slip: the first slot that is not schedulable ends the scan.
ProbeGivesUp(l) ==
  /\ pc[l] = "probe"
  /\ IF ring[reg[l].slot].status = "PUBLISHED"
       THEN /\ reg' = [reg EXCEPT ![l] = [@ EXCEPT !.tenant = ring[reg[l].slot].tenant]]
            /\ Goto(l, "mask")
       ELSE NextIteration(l)
  /\ UNCHANGED <<ring, hostVars, starved, revoked, streak>>

\* probe_status, and the tenant of a schedulable slot.  No code stores YIELD
\* or REQUEUE in a ring slot: PUBLISHED is the schedulable status.
Probe(l) ==
  /\ pc[l] = "probe"
  /\ IF ring[reg[l].slot].status = "PUBLISHED"
       THEN /\ reg' = [reg EXCEPT ![l] = [@ EXCEPT !.tenant = ring[reg[l].slot].tenant]]
            /\ Goto(l, "mask")
       ELSE ScanOn(l)
  /\ UNCHANGED <<ring, hostVars, starved, revoked, streak>>

\* probe_tenant_mask
ProbeMask(l) ==
  /\ pc[l] = "mask"
  /\ IF mask[reg[l].tenant] # 0
       THEN Goto(l, "claim") /\ UNCHANGED reg
       ELSE ScanOn(l)
  /\ UNCHANGED <<ring, hostVars, starved, revoked, streak>>

\* The length of the streak after a claim by lane l.
Streak(l) == IF reg[l].probe[1] <= HIGH THEN streak + 1 ELSE 0

\* Slip: the slot is claimed by a store.
ClaimByStore(l) ==
  /\ pc[l] = "claim"
  /\ ring' = [ring EXCEPT ![reg[l].slot] = [@ EXCEPT !.status = "CLAIMED"]]
  /\ streak' = Streak(l)
  /\ Goto(l, "account")
  /\ UNCHANGED <<hostVars, starved, reg, revoked>>

\* The compare-exchange of the observed status for CLAIMED.
Claim(l) ==
  /\ pc[l] = "claim"
  /\ IF ring[reg[l].slot].status = "PUBLISHED"
       THEN /\ ring' = [ring EXCEPT ![reg[l].slot] = [@ EXCEPT !.status = "CLAIMED"]]
            /\ streak' = Streak(l)
            /\ Goto(l, "account")
            /\ UNCHANGED reg
       ELSE ScanOn(l) /\ UNCHANGED <<ring, streak>>
  /\ UNCHANGED <<hostVars, starved, revoked>>

\* The starvation counter after a claim: one more CRITICAL or HIGH claim, or
\* a claim of a lower priority, which resets it.
Account(l) ==
  /\ pc[l] = "account"
  /\ starved' = IF reg[l].probe[1] <= HIGH THEN starved + 1 ELSE 0
  /\ Goto(l, "authorise")
  /\ UNCHANGED <<ring, hostVars, reg, revoked, streak>>

\* Slip: a lane that is told to shut down drops the slot it has claimed.
AuthoriseUnlessShutdown(l) ==
  /\ pc[l] = "authorise"
  /\ IF mask[reg[l].tenant] # 0 /\ ~shutdown
       THEN Goto(l, "execute") /\ UNCHANGED <<reg, revoked>>
       ELSE /\ NextIteration(l)
            /\ revoked' = IF shutdown THEN revoked ELSE revoked \cup {reg[l].slot}
  /\ UNCHANGED <<ring, hostVars, starved, streak>>

\* execute_already_claimed_slot_body: the mask of claimed_tenant is loaded
\* again, and a claimed slot whose tenant has been disabled is left as it is.
Authorise(l) ==
  /\ pc[l] = "authorise"
  /\ IF mask[reg[l].tenant] # 0
       THEN Goto(l, "execute") /\ UNCHANGED <<reg, revoked>>
       ELSE NextIteration(l) /\ revoked' = revoked \cup {reg[l].slot}
  /\ UNCHANGED <<ring, hostVars, starved, streak>>

\* claimed_slot_body: the body ends and the slot is handed back.
Execute(l) ==
  /\ pc[l] = "execute"
  /\ ring' = [ring EXCEPT ![reg[l].slot] = [@ EXCEPT !.status = "DONE"]]
  /\ NextIteration(l)
  /\ UNCHANGED <<hostVars, starved, revoked, streak>>

LaneStep(l) ==
  \/ Prologue(l) \/ LoadCounter(l) \/ Probe(l) \/ ProbeMask(l) \/ Claim(l)
  \/ Account(l) \/ Authorise(l) \/ Execute(l)

Next == PublishSlot \/ SetMask \/ Shutdown \/ \E l \in Lanes : LaneStep(l)

Spec == Init /\ [][Next]_vars

\* Every lane of the launch is resident and keeps being scheduled; the host
\* owes nothing.
FairSpec == Spec /\ \A l \in Lanes : WF_vars(LaneStep(l))
-----------------------------------------------------------------------------
(* Properties *)

TypeOK ==
  /\ ring \in [Slots -> [status : Statuses, tenant : Tenants]]
  /\ mask \in [Tenants -> {0, 1}]
  /\ shutdown \in BOOLEAN
  /\ starved \in Nat
  /\ pc \in [Lanes -> LanePcs]
  /\ reg \in [Lanes -> [force : BOOLEAN, probe : Levels \X Slots, slot : Slots, tenant : Tenants]]
  /\ revoked \subseteq Slots /\ streak \in Nat

\* A lane holds a slot from its compare-exchange to the DONE store.
Holding(l) == pc[l] \in {"account", "authorise", "execute"}

\* No two lanes hold the same slot, and a held slot is CLAIMED: what a lane
\* executes no other lane executes at the same time, however many lanes of
\* the launch probe the same slots (the compare-exchange of
\* priority_scan_body_with_stride).
OneHolder ==
  /\ \A l \in Lanes : Holding(l) => ring[reg[l].slot].status = "CLAIMED"
  /\ \A l, m \in Lanes : (l # m /\ Holding(l) /\ Holding(m)) => reg[l].slot # reg[m].slot

\* A CLAIMED slot is being executed by some lane, or its tenant was disabled
\* between the lane's two looks at its mask: that window is the only way to
\* "stuck CLAIMED work" (builder.rs:541; execute_already_claimed_slot_body).
StuckOnlyIfRevoked ==
  \A s \in Slots : ring[s].status = "CLAIMED" =>
     s \in revoked \/ \E l \in Lanes : Holding(l) /\ reg[l].slot = s

\* The starvation guard limits every streak: between two claims of lower
\* priority, and before the first, there are at most StreakLimit claims of
\* CRITICAL and HIGH slots.  The guard is loaded once per scan, so each lane
\* but one may go on with a scan that began before the counter reached the
\* threshold.  The counter is reset by a store that comes after the claim of
\* lower priority, so each other lane may hold back such a store and erase
\* with it the claims counted meanwhile: every lane adds a threshold of its
\* own (priority_starvation_count, PRIORITY_STARVATION_COUNTER).
StreakLimit ==
  LET n == Cardinality(Lanes) IN n * Threshold + (n * (n - 1)) \div 2

HighStreakBounded == streak <= StreakLimit

Lower(l) == reg[l].probe[1] > HIGH

\* The slots a lane probes below HIGH, and at HIGH and above.
LowerSlots == [l \in Lanes |-> {ScanSlot(l, x[1], x[2]) : x \in Probes[l][TRUE]}]
HighSlots ==
  [l \in Lanes |-> {ScanSlot(l, x[1], x[2]) : x \in Probes[l][FALSE] \ Probes[l][TRUE]}]

\* Lane l could claim slot s of a lower partition now.
LowerWork(l, s) ==
  /\ s \in LowerSlots[l]
  /\ ring[s].status = "PUBLISHED"
  /\ mask[ring[s].tenant] # 0

\* A flood of CRITICAL and HIGH slots does not starve the rest: while a lane
\* has work of lower priority it may run, some lane sooner or later claims
\* work of lower priority (the starvation guard of priority_scan_body).
LowerPriorityServed ==
  \A l \in Lanes, s \in Slots :
    []<>(~LowerWork(l, s) \/ shutdown \/ \E m \in Lanes : Holding(m) /\ Lower(m))

\* Lane l could claim slot s of a CRITICAL or HIGH partition now.
HighWork(l, s) ==
  /\ s \in HighSlots[l]
  /\ ring[s].status = "PUBLISHED"
  /\ mask[ring[s].tenant] # 0

\* The guard costs latency-critical work one iteration: a CRITICAL or HIGH
\* slot that may run does not wait for ever while no lane claims anything
\* ("forcibly scans lower-priority partitions for one iteration",
\* scheduler.rs).
HighPriorityServed ==
  \A l \in Lanes, s \in Slots :
    []<>(~HighWork(l, s) \/ shutdown \/ \E m \in Lanes : Holding(m))
=============================================================================
