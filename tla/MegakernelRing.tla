--------------------------- MODULE MegakernelRing ---------------------------
(***************************************************************************)
(* The persistent megakernel's ring: one host thread that stores words      *)
(* into the slots of a ring it shares with the device, and the lanes of a   *)
(* resident kernel that loop over those slots forever.                      *)
(*                                                                          *)
(* Shared memory is modelled word by word where the protocol depends on it. *)
(* Every publication of a slot has a number, its ticket.  The host writes   *)
(* the words of ticket after ticket, in program order; a lane holds a       *)
(* program counter and the registers its iteration has loaded so far.  The  *)
(* argument words of a slot are one value, the ticket that wrote them, so   *)
(* that a torn payload is one whose words come from different tickets.      *)
(***************************************************************************)
EXTENDS Integers, FiniteSets

CONSTANTS
  SlotCount,    \* slots in the ring
  Lanes,        \* device lanes
  LaneSlot,     \* the slot each lane polls (one launch: lane i polls slot i)
  Tenants,      \* tenant ids, all inside the mask table
  TenantCount,  \* tenants that encode_control enables
  Opcodes,      \* the opcodes the host publishes
  MaxItems,     \* bound: items of one batch
  MaxTickets    \* bound: publications in a behaviour

Slots == 0 .. SlotCount - 1
Tickets == 1 .. MaxTickets

\* NOP stands for every opcode whose body touches no word of the protocol
\* (NOP, ATOMIC_ADD, LOAD_U32, COMPARE_SWAP, MEMCPY, DFA_STEP and extensions
\* on observable words).  STORE_U32 is kept where it stores a tenant's mask.
OpcodeNames == {"NOP", "STORE_U32", "BATCH_FENCE", "SHUTDOWN"}

\* Opcodes below METRICS_SLOTS are metered; SHUTDOWN is u32::MAX.
Metered == {"NOP", "STORE_U32", "BATCH_FENCE"}

\* protocol/slot.rs: the states this kernel uses.
Statuses == {"EMPTY", "PUBLISHED", "CLAIMED", "DONE"}

LanePcs == {"prologue", "observe", "tenant", "mask", "claim", "bind",
            "dispatch", "body", "observable", "tally", "mark", "returned"}

ASSUME SlotCountAssumption == SlotCount \in Nat \ {0}
ASSUME LanesAssumption == IsFiniteSet(Lanes)
ASSUME LaneSlotAssumption == LaneSlot \in [Lanes -> Slots]
ASSUME TenantsAssumption == Tenants \subseteq Nat /\ 0 \in Tenants
ASSUME TenantCountAssumption == TenantCount \in Nat
ASSUME OpcodesAssumption == Opcodes \subseteq OpcodeNames
ASSUME BoundsAssumption == MaxItems \in Nat /\ MaxTickets \in Nat

VARIABLES
  ring,       \* the slot words: status, opcode, tenant, args
  control,    \* the protocol words of the control buffer
  mask,       \* the tenant-mask table of the control buffer
  metrics,    \* the per-opcode execution counters of the control buffer
  pc,         \* where each lane is in its loop body
  reg,        \* the values each lane's iteration has bound
  host,       \* the publisher: tickets issued, the ticket and word it writes next
  published,  \* history: what each issued ticket publishes, and where
  runs        \* history: how often each ticket's body was dispatched

hostVars == <<host, published>>
laneVars == <<pc, reg>>
vars == <<ring, control, mask, metrics, pc, reg, host, published, runs>>

NoPublication ==
  [slot |-> 0, opcode |-> "NOP", tenant |-> 0, value |-> 0, target |-> 0, batch |-> 0]

\* encode_control(FALSE, TenantCount, _), encode_empty_ring(SlotCount), and a
\* launch of one lane per slot about to start its first iteration.
Init ==
  /\ ring = [s \in Slots |->
               [status |-> "EMPTY", opcode |-> "NOP", tenant |-> 0, args |-> 0]]
  /\ control = [shutdown |-> 0, done_count |-> 0, epoch |-> 0, observable |-> 0]
  /\ mask = [t \in Tenants |-> IF t < TenantCount THEN 1 ELSE 0]
  /\ metrics = [o \in Metered |-> 0]
  /\ pc = [l \in Lanes |-> "prologue"]
  /\ reg = [l \in Lanes |-> [tenant |-> 0, opcode |-> "NOP", args |-> 0]]
  /\ host = [issued |-> 0, ticket |-> 1, word |-> 1]
  /\ published = [t \in Tickets |-> NoPublication]
  /\ runs = [t \in Tickets |-> 0]
-----------------------------------------------------------------------------
(* The host publisher *)

\* Slip: a slot the device has not claimed yet is taken for a free one.
PublishableUnlessClaimed(s) == ring[s].status # "CLAIMED"

\* validate_publishable_slot: the host may write EMPTY and DONE slots only.
Publishable(s) == ring[s].status \in {"EMPTY", "DONE"}

\* Slip: the status word is stored first.
WordOrderStatusFirst == <<"status", "opcode", "tenant", "args">>

\* The order of one slot's stores: the payload words, the status word last.
WordOrder == <<"opcode", "tenant", "args", "status">>

\* What a caller may ask for in one slot: an opcode and the arguments the
\* model tells apart, the value a STORE_U32 stores and the mask it stores to.
Items ==
  {i \in [opcode : Opcodes, value : {0, 1}, target : Tenants] :
     i.opcode # "STORE_U32" => i.value = 0 /\ i.target = 0}

Fence == [opcode |-> "BATCH_FENCE", value |-> 0, target |-> 0]

HostIdle == host.ticket > host.issued

\* All-or-nothing publication of a window of n slots: the whole window is
\* validated before the first store.  A window that does not validate is an
\* error and changes nothing.
PublishWindow(start, tenant, n, items, batch) ==
  /\ HostIdle
  /\ host.issued + n <= MaxTickets
  /\ start + n <= SlotCount
  /\ \A s \in start .. start + n - 1 : Publishable(s)
  /\ published' = [t \in Tickets |->
                     IF t \in host.issued + 1 .. host.issued + n
                       THEN [slot |-> start + (t - host.issued - 1),
                             opcode |-> items[t - host.issued].opcode,
                             tenant |-> tenant,
                             value |-> items[t - host.issued].value,
                             target |-> items[t - host.issued].target,
                             batch |-> batch]
                       ELSE published[t]]
  /\ host' = [host EXCEPT !.issued = @ + n]
  /\ UNCHANGED <<ring, control, mask, metrics, laneVars, runs>>

PublishSlot ==
  \E s \in Slots, tenant \in Tenants, item \in Items :
    PublishWindow(s, tenant, 1, [k \in 1 .. 1 |-> item], 0)

PublishWorkItems ==
  \E s \in Slots, tenant \in Tenants, n \in 1 .. MaxItems :
    \E items \in [1 .. n -> Items] : PublishWindow(s, tenant, n, items, 0)

\* A batch's items, and the fence in one more slot behind them.
WithFence(items, n) == [k \in 1 .. n + 1 |-> IF k <= n THEN items[k] ELSE Fence]

\* A batch is named by the ticket of its fence, which is also its tag.
BatchPublish ==
  \E s \in Slots, tenant \in Tenants, n \in 0 .. MaxItems :
    \E items \in [1 .. n -> Items] :
      PublishWindow(s, tenant, n + 1, WithFence(items, n), host.issued + n + 1)

\* A slot after one word of ticket t has been stored in it.
StoreWord(slot, word, t) ==
  CASE word = "opcode" -> [slot EXCEPT !.opcode = published[t].opcode]
    [] word = "tenant" -> [slot EXCEPT !.tenant = published[t].tenant]
    [] word = "args"   -> [slot EXCEPT !.args = t]
    [] word = "status" -> [slot EXCEPT !.status = "PUBLISHED"]

\* One word of the current ticket reaches the shared ring.
HostStore ==
  /\ ~HostIdle
  /\ ring' = [ring EXCEPT ![published[host.ticket].slot] =
                 StoreWord(@, WordOrder[host.word], host.ticket)]
  /\ host' = IF host.word < 4 THEN [host EXCEPT !.word = @ + 1]
                              ELSE [host EXCEPT !.ticket = @ + 1, !.word = 1]
  /\ UNCHANGED <<control, mask, metrics, laneVars, published, runs>>
-----------------------------------------------------------------------------
(* The lanes *)

Goto(l, label) == pc' = [pc EXCEPT ![l] = label]

\* Slip: a lane whose slot holds work does not look at the shutdown word.
PrologueWhileIdle(l) ==
  /\ pc[l] = "prologue"
  /\ Goto(l, IF control.shutdown # 0 /\ ring[LaneSlot[l]].status # "PUBLISHED"
                THEN "returned" ELSE "observe")
  /\ UNCHANGED <<ring, control, mask, metrics, reg, hostVars, runs>>

\* persistent_lane_prologue: a lane leaves at the top of an iteration only.
Prologue(l) ==
  /\ pc[l] = "prologue"
  /\ Goto(l, IF control.shutdown # 0 THEN "returned" ELSE "observe")
  /\ UNCHANGED <<ring, control, mask, metrics, reg, hostVars, runs>>

\* Slip: the tenant of the previous iteration is reused.
ObserveKeepsTenant(l) ==
  /\ pc[l] = "observe"
  /\ Goto(l, IF ring[LaneSlot[l]].status = "PUBLISHED" THEN "mask" ELSE "prologue")
  /\ UNCHANGED <<ring, control, mask, metrics, reg, hostVars, runs>>

\* execute_slot_body: idle slots cost no tenant loads.
Observe(l) ==
  /\ pc[l] = "observe"
  /\ Goto(l, IF ring[LaneSlot[l]].status = "PUBLISHED" THEN "tenant" ELSE "prologue")
  /\ UNCHANGED <<ring, control, mask, metrics, reg, hostVars, runs>>

\* slot_tenant_id_load
LoadTenant(l) ==
  /\ pc[l] = "tenant"
  /\ reg' = [reg EXCEPT ![l].tenant = ring[LaneSlot[l]].tenant]
  /\ Goto(l, "mask")
  /\ UNCHANGED <<ring, control, mask, metrics, hostVars, runs>>

\* Slip: a lane whose slot belongs to a disabled tenant leaves its loop.
LoadMaskLeaves(l) ==
  /\ pc[l] = "mask"
  /\ Goto(l, IF mask[reg[l].tenant] # 0 THEN "claim" ELSE "returned")
  /\ UNCHANGED <<ring, control, mask, metrics, reg, hostVars, runs>>

\* tenant_authorized_body: tenant_base and the mask word.
LoadMask(l) ==
  /\ pc[l] = "mask"
  /\ Goto(l, IF mask[reg[l].tenant] # 0 THEN "claim" ELSE "prologue")
  /\ UNCHANGED <<ring, control, mask, metrics, reg, hostVars, runs>>

\* Slip: the status is stored without comparing it.
ClaimByStore(l) ==
  /\ pc[l] = "claim"
  /\ ring' = [ring EXCEPT ![LaneSlot[l]].status = "CLAIMED"]
  /\ Goto(l, "bind")
  /\ UNCHANGED <<control, mask, metrics, reg, hostVars, runs>>

\* Slip: the exchange also accepts a slot another lane has finished.
ClaimDoneSlots(l) ==
  /\ pc[l] = "claim"
  /\ IF ring[LaneSlot[l]].status \in {"PUBLISHED", "DONE"}
       THEN ring' = [ring EXCEPT ![LaneSlot[l]].status = "CLAIMED"] /\ Goto(l, "bind")
       ELSE Goto(l, "prologue") /\ UNCHANGED ring
  /\ UNCHANGED <<control, mask, metrics, reg, hostVars, runs>>

\* The compare-exchange PUBLISHED -> CLAIMED.
Claim(l) ==
  /\ pc[l] = "claim"
  /\ IF ring[LaneSlot[l]].status = "PUBLISHED"
       THEN ring' = [ring EXCEPT ![LaneSlot[l]].status = "CLAIMED"] /\ Goto(l, "bind")
       ELSE Goto(l, "prologue") /\ UNCHANGED ring
  /\ UNCHANGED <<control, mask, metrics, reg, hostVars, runs>>

\* claimed_slot_bindings
Bind(l) ==
  /\ pc[l] = "bind"
  /\ reg' = [reg EXCEPT ![l] = [@ EXCEPT !.opcode = ring[LaneSlot[l]].opcode,
                                         !.args = ring[LaneSlot[l]].args]]
  /\ Goto(l, "dispatch")
  /\ UNCHANGED <<ring, control, mask, metrics, hostVars, runs>>

\* dispatch_opcode_body: the metric of the opcode, before its body.
Dispatch(l) ==
  /\ pc[l] = "dispatch"
  /\ metrics' = [o \in Metered |-> metrics[o] + (IF o = reg[l].opcode THEN 1 ELSE 0)]
  /\ runs' = [t \in Tickets |-> runs[t] + (IF t = reg[l].args THEN 1 ELSE 0)]
  /\ Goto(l, "body")
  /\ UNCHANGED <<ring, control, mask, reg, hostVars>>

\* The body of an opcode that touches no word of the protocol.
NopBody(l) ==
  /\ pc[l] = "body" /\ reg[l].opcode = "NOP"
  /\ Goto(l, "tally")
  /\ UNCHANGED <<ring, control, mask, metrics, reg, hostVars, runs>>

\* store_u32_body, on a word of the mask table.
StoreBody(l) ==
  /\ pc[l] = "body" /\ reg[l].opcode = "STORE_U32"
  /\ LET p == published[reg[l].args] IN mask' = [mask EXCEPT ![p.target] = p.value]
  /\ Goto(l, "tally")
  /\ UNCHANGED <<ring, control, metrics, reg, hostVars, runs>>

\* shutdown_body
ShutdownBody(l) ==
  /\ pc[l] = "body" /\ reg[l].opcode = "SHUTDOWN"
  /\ control' = [control EXCEPT !.shutdown = 1]
  /\ Goto(l, "tally")
  /\ UNCHANGED <<ring, mask, metrics, reg, hostVars, runs>>

\* batch_fence_body: the epoch first, the tag in the observable word second.
FenceEpoch(l) ==
  /\ pc[l] = "body" /\ reg[l].opcode = "BATCH_FENCE"
  /\ control' = [control EXCEPT !.epoch = @ + 1]
  /\ Goto(l, "observable")
  /\ UNCHANGED <<ring, mask, metrics, reg, hostVars, runs>>

FenceTag(l) ==
  /\ pc[l] = "observable"
  /\ control' = [control EXCEPT !.observable = reg[l].args]
  /\ Goto(l, "tally")
  /\ UNCHANGED <<ring, mask, metrics, reg, hostVars, runs>>

\* Slip: a fence is not counted as a drained slot.
TallySkipsFence(l) ==
  /\ pc[l] = "tally"
  /\ control' = [control EXCEPT !.done_count =
                    @ + (IF reg[l].opcode = "BATCH_FENCE" THEN 0 ELSE 1)]
  /\ Goto(l, "mark")
  /\ UNCHANGED <<ring, mask, metrics, reg, hostVars, runs>>

\* Slip: a lane that sees the shutdown word leaves in the middle of a slot.
TallyReturns(l) ==
  /\ pc[l] = "tally"
  /\ control' = [control EXCEPT !.done_count = @ + 1]
  /\ Goto(l, IF control.shutdown # 0 THEN "returned" ELSE "mark")
  /\ UNCHANGED <<ring, mask, metrics, reg, hostVars, runs>>

\* claimed_slot_body's tail: count the slot, then hand it back.
Tally(l) ==
  /\ pc[l] = "tally"
  /\ control' = [control EXCEPT !.done_count = @ + 1]
  /\ Goto(l, "mark")
  /\ UNCHANGED <<ring, mask, metrics, reg, hostVars, runs>>

MarkDone(l) ==
  /\ pc[l] = "mark"
  /\ ring' = [ring EXCEPT ![LaneSlot[l]].status = "DONE"]
  /\ Goto(l, "prologue")
  /\ UNCHANGED <<control, mask, metrics, reg, hostVars, runs>>

LaneStep(l) ==
  \/ Prologue(l) \/ Observe(l) \/ LoadTenant(l) \/ LoadMask(l) \/ Claim(l)
  \/ Bind(l) \/ Dispatch(l) \/ NopBody(l) \/ StoreBody(l) \/ ShutdownBody(l)
  \/ FenceEpoch(l) \/ FenceTag(l) \/ Tally(l) \/ MarkDone(l)

Publish == PublishSlot \/ PublishWorkItems \/ BatchPublish

Next == Publish \/ HostStore \/ \E l \in Lanes : LaneStep(l)

Spec == Init /\ [][Next]_vars

\* The publisher is a synchronous call and every lane of the launch is
\* resident and keeps being scheduled.
FairSpec == Spec /\ WF_vars(HostStore) /\ \A l \in Lanes : WF_vars(LaneStep(l))
-----------------------------------------------------------------------------
(* Properties *)

Payload == [slot : Slots, opcode : OpcodeNames, tenant : Tenants,
            value : {0, 1}, target : Tenants, batch : 0 .. MaxTickets]

\* Every word, register and counter stays inside its type: statuses, opcodes,
\* tenants inside the mask table, tickets the host has been able to issue.
TypeOK ==
  /\ ring \in [Slots -> [status : Statuses, opcode : OpcodeNames,
                          tenant : Tenants, args : 0 .. MaxTickets]]
  /\ control \in [shutdown : {0, 1}, done_count : Nat, epoch : Nat,
                   observable : 0 .. MaxTickets]
  /\ mask \in [Tenants -> {0, 1}]
  /\ metrics \in [Metered -> Nat]
  /\ pc \in [Lanes -> LanePcs]
  /\ reg \in [Lanes -> [tenant : Tenants, opcode : OpcodeNames, args : 0 .. MaxTickets]]
  /\ host \in [issued : 0 .. MaxTickets, ticket : 1 .. MaxTickets + 1, word : 1 .. 4]
  /\ published \in [Tickets -> Payload]
  /\ runs \in [Tickets -> Nat]

\* The program points between a successful compare-exchange and the DONE store.
OwnerPcs == {"bind", "dispatch", "body", "observable", "tally", "mark"}
Owns(l, s) == LaneSlot[l] = s /\ pc[l] \in OwnerPcs

\* A slot is CLAIMED exactly while one lane executes it, whatever lanes poll
\* it: the compare-exchange admits one lane, and no lane leaves a claimed slot
\* behind, not even on shutdown (builder.rs, tenant_authorized_claim_body).
ClaimedByOneLane ==
  /\ \A l1, l2 \in Lanes : LaneSlot[l1] = LaneSlot[l2] /\ pc[l1] \in OwnerPcs
                             /\ pc[l2] \in OwnerPcs => l1 = l2
  /\ \A s \in Slots : ring[s].status = "CLAIMED" <=> \E l \in Lanes : Owns(l, s)

\* A lane past its loads executes the payload of one publication, whole: its
\* opcode and argument registers are those of a single issued ticket, for its
\* own slot (publish.rs: "Status last - PUBLISH is the publish barrier").
ExecutesOnePublication ==
  \A l \in Lanes : pc[l] \in OwnerPcs \ {"bind"} =>
    /\ reg[l].args \in 1 .. host.issued
    /\ published[reg[l].args].slot = LaneSlot[l]
    /\ published[reg[l].args].opcode = reg[l].opcode

\* A publication that no lane has dispatched: it is still PUBLISHED in its
\* slot, or a lane that owns the slot is about to dispatch it.
Outstanding(t) ==
  LET s == published[t].slot IN
  /\ ring[s].args = t
  /\ \/ ring[s].status = "PUBLISHED"
     \/ \E l \in Lanes : LaneSlot[l] = s /\ pc[l] \in {"bind", "dispatch"}

\* No publication is lost and none is executed twice, across any recycling of
\* its slot and any race between the lanes that poll it: from the store of its
\* status word it is outstanding until it has been dispatched, once.
RunsExactlyOnce ==
  \A t \in Tickets :
    IF t < host.ticket THEN runs[t] = 1 \/ (runs[t] = 0 /\ Outstanding(t))
                       ELSE runs[t] = 0

\* The launch geometry of execution.rs: as many lanes as slots.
OneLanePolls == \A l1, l2 \in Lanes : LaneSlot[l1] = LaneSlot[l2] => l1 = l2

\* The tenant whose mask authorised a lane is the tenant of the slot it
\* executes, although the id, the mask and the status are loaded in separate
\* steps.  Needs OneLanePolls: with two, the slot may be recycled for
\* another tenant between a lane's loads and its compare-exchange.
AuthorisedTenantRuns ==
  \A l \in Lanes : pc[l] \in OwnerPcs \cup {"mask", "claim"} =>
    reg[l].tenant = ring[LaneSlot[l]].tenant

\* The counters the host polls agree with what has been executed: DONE_COUNT
\* trails the dispatched publications by exactly the lanes still in a body,
\* EPOCH by the lanes still in a fence, and the per-opcode metrics by none.
CountersAgree ==
  LET Ran(ops) == {t \in Tickets : runs[t] > 0 /\ published[t].opcode \in ops}
      In(pcs, ops) == {l \in Lanes : pc[l] \in pcs /\ reg[l].opcode \in ops}
  IN  /\ control.done_count + Cardinality(In({"body", "observable", "tally"}, OpcodeNames))
            = Cardinality(Ran(OpcodeNames))
      /\ control.epoch + Cardinality(In({"body"}, {"BATCH_FENCE"}))
            = Cardinality(Ran({"BATCH_FENCE"}))
      /\ \A o \in Metered : metrics[o] = Cardinality(Ran({o}))

\* A host that reads DONE_COUNT and finds the number of its publications may
\* take them all for executed (items_remaining of a dispatch): each has been
\* dispatched, no lane is still in a body, and no slot is left to claim.
DoneCountComplete ==
  /\ control.done_count <= host.ticket - 1
  /\ control.done_count = host.ticket - 1 =>
       /\ \A t \in Tickets : t < host.ticket => runs[t] = 1
       /\ \A l \in Lanes : pc[l] \notin {"bind", "dispatch", "body", "observable", "tally"}
       /\ \A s \in Slots : ring[s].status # "PUBLISHED"

\* The host never touches the payload of a slot the device may be reading:
\* while a slot is PUBLISHED or CLAIMED its words do not change.
InFlightPayloadStable ==
  [][\A s \in Slots : ring[s].status \in {"PUBLISHED", "CLAIMED"} =>
       ring'[s] = [ring[s] EXCEPT !.status = ring'[s].status]]_vars

\* What the documentation says of a batch's fence: when its tag is observable,
\* the batch has been executed (publish.rs: "the final slot is a BATCH_FENCE
\* that signals completion to the host").
FenceSignalsCompletion ==
  \A t \in Tickets : control.observable # 0 /\ published[t].batch = control.observable
                       => runs[t] > 0

\* Claimed work is always handed back to the host, also when the tenant is
\* disabled or the kernel shut down after the claim.
ClaimedIsHandedBack ==
  \A s \in Slots : ring[s].status = "CLAIMED" ~> ring[s].status = "DONE"

\* Once the shutdown word is set every lane leaves its loop.
ShutdownStopsLanes == control.shutdown # 0 ~> \A l \in Lanes : pc[l] = "returned"

\* A publication whose tenant stays enabled is executed, unless the kernel is
\* shut down.
EnabledWorkRuns ==
  \A t \in Tickets :
    <>[](control.shutdown = 0 /\ mask[published[t].tenant] # 0)
      => (t <= host.issued ~> runs[t] > 0)
=============================================================================
