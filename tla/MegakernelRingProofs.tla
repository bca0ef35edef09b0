------------------------ MODULE MegakernelRingProofs ------------------------
(***************************************************************************)
(* Proofs about MegakernelRing, for every number of slots, lanes, tenants   *)
(* and publications and, except for TenantAuthorised, for every assignment  *)
(* of lanes to slots.                                                       *)
(***************************************************************************)
EXTENDS MegakernelRing, FiniteSetTheorems, TLAPS

\* A leaf that names no prover is for the SMT solver, tried twice, and for Zenon
\* where the solver finds nothing.
USE SMTT(60), SMTT(70), Zenon

\* The host writes its tickets in order.  The slots of the tickets it has not
\* finished are distinct and not in flight, none of those tickets has run,
\* and the words of the current ticket stored so far are in its slot.
HostInv ==
  /\ host.ticket <= host.issued + 1
  /\ host.ticket > host.issued => host.word = 1
  /\ \A t \in host.ticket .. host.issued : Publishable(published[t].slot)
  /\ \A t, u \in host.ticket .. host.issued :
       published[t].slot = published[u].slot => t = u
  /\ \A t \in Tickets : t >= host.ticket => runs[t] = 0
  /\ host.ticket <= host.issued =>
       LET p == published[host.ticket]
       IN  /\ host.word > 1 => ring[p.slot].opcode = p.opcode
           /\ host.word > 2 => ring[p.slot].tenant = p.tenant
           /\ host.word > 3 => ring[p.slot].args = host.ticket

\* A slot in flight holds the whole payload of one finished publication.
SlotInv ==
  \A s \in Slots : ring[s].status \in {"PUBLISHED", "CLAIMED"} =>
    /\ ring[s].args \in 1 .. host.ticket - 1
    /\ published[ring[s].args].slot = s
    /\ published[ring[s].args].opcode = ring[s].opcode
    /\ published[ring[s].args].tenant = ring[s].tenant
    /\ ring[s].status = "PUBLISHED" => runs[ring[s].args] = 0

\* A lane past its loads holds the words of the slot it owns; before its
\* dispatch, the ticket of that slot has not run.
LaneInv ==
  \A l \in Lanes :
    /\ pc[l] \in OwnerPcs \ {"bind"} =>
         /\ reg[l].opcode = ring[LaneSlot[l]].opcode
         /\ reg[l].args = ring[LaneSlot[l]].args
    /\ pc[l] \in {"bind", "dispatch"} => runs[ring[LaneSlot[l]].args] = 0

\* No publication has been dispatched twice.
RunsAtMostOnce == \A t \in Tickets : runs[t] <= 1

IInv ==
  /\ TypeOK
  /\ HostInv
  /\ ClaimedByOneLane
  /\ SlotInv
  /\ LaneInv
  /\ RunsAtMostOnce

USE SlotCountAssumption, LaneSlotAssumption, TenantsAssumption,
    TenantCountAssumption, OpcodesAssumption, BoundsAssumption
    DEF Slots, Tickets

\* The initial state satisfies the inductive invariant.
LEMMA InitIInv == Init => IInv
<1> SUFFICES ASSUME Init PROVE IInv
  OBVIOUS
<1>1. TypeOK
  BY DEF Init, TypeOK, Payload, NoPublication, OpcodeNames, Statuses, LanePcs, Metered
<1>2. HostInv
  BY DEF Init, HostInv, Publishable
<1>3. ClaimedByOneLane
  BY DEF Init, ClaimedByOneLane, Owns, OwnerPcs
<1>4. SlotInv
  BY DEF Init, SlotInv
<1>5. LaneInv
  BY DEF Init, LaneInv, OwnerPcs
<1>6. RunsAtMostOnce
  BY DEF Init, RunsAtMostOnce
<1> QED
  BY <1>1, <1>2, <1>3, <1>4, <1>5, <1>6 DEF IInv

SlotWords == [status : Statuses, opcode : OpcodeNames,
              tenant : Tenants, args : 0 .. MaxTickets]
Registers == [tenant : Tenants, opcode : OpcodeNames, args : 0 .. MaxTickets]

\* A step that moves no lane across the boundary of OwnerPcs and leaves the
\* ring alone keeps the ownership of slots.
LEMMA SameOwners ==
  ASSUME ClaimedByOneLane, ring' = ring,
         \A m \in Lanes : pc'[m] \in OwnerPcs <=> pc[m] \in OwnerPcs
  PROVE  ClaimedByOneLane'
BY DEF ClaimedByOneLane, Owns

\* The slot a lane owns is CLAIMED and holds a finished publication.
LEMMA OwnedSlot ==
  ASSUME IInv, NEW l \in Lanes, pc[l] \in OwnerPcs
  PROVE  /\ LaneSlot[l] \in Slots
         /\ ring[LaneSlot[l]].status = "CLAIMED"
         /\ ring[LaneSlot[l]].args \in Tickets
         /\ ring[LaneSlot[l]].args < host.ticket
<1>1. ring[LaneSlot[l]].status = "CLAIMED"
  BY DEF IInv, ClaimedByOneLane, Owns
<1> QED
  BY <1>1 DEF IInv, SlotInv, TypeOK

\* The lane steps that only load words and move on inside, or outside, the
\* claimed section.
LEMMA LoadStepIInv ==
  ASSUME IInv, NEW l \in Lanes,
         Prologue(l) \/ Observe(l) \/ LoadTenant(l) \/ LoadMask(l) \/ Bind(l)
  PROVE  IInv'
<1> USE DEF IInv, hostVars, Goto
<1>1. ring[LaneSlot[l]] \in SlotWords
  BY DEF TypeOK, SlotWords
<1>2. reg' \in [Lanes -> Registers]
  <2>1. reg \in [Lanes -> Registers]
    BY DEF TypeOK, Registers
  <2>2. CASE LoadTenant(l)
    BY <1>1, <2>1, <2>2 DEF LoadTenant, SlotWords, Registers
  <2>3. CASE Bind(l)
    BY <1>1, <2>1, <2>3, Zenon DEF Bind, SlotWords, Registers
  <2> QED
    BY <2>1, <2>2, <2>3 DEF Prologue, Observe, LoadMask
<1>3. pc' \in [Lanes -> LanePcs] /\ (\A m \in Lanes : m # l => pc'[m] = pc[m])
  BY Zenon DEF Prologue, Observe, LoadTenant, LoadMask, Bind, TypeOK, LanePcs
<1>4. pc'[l] \in OwnerPcs <=> pc[l] \in OwnerPcs
  BY ZenonT(60) DEF Prologue, Observe, LoadTenant, LoadMask, Bind, TypeOK, OwnerPcs
<1>5. UNCHANGED <<ring, control, mask, metrics, host, published, runs>>
  BY DEF Prologue, Observe, LoadTenant, LoadMask, Bind
<1>6. TypeOK'
  BY <1>2, <1>3, <1>5, Zenon DEF TypeOK, Registers
<1>7. HostInv' /\ SlotInv' /\ RunsAtMostOnce'
  BY <1>5 DEF HostInv, SlotInv, RunsAtMostOnce, Publishable
<1>8. ClaimedByOneLane'
  BY <1>3, <1>4, <1>5, SameOwners
<1>9. LaneInv'
  <2>1. \A m \in Lanes : m # l => reg'[m] = reg[m]
    BY Zenon DEF Prologue, Observe, LoadTenant, LoadMask, Bind, TypeOK
  <2>2. CASE Bind(l)
    <3>1. /\ pc[l] = "bind" /\ pc'[l] = "dispatch"
          /\ reg'[l].opcode = ring[LaneSlot[l]].opcode
          /\ reg'[l].args = ring[LaneSlot[l]].args
      BY <2>2 DEF Bind, TypeOK
    <3> QED
      BY <3>1, <2>1, <1>3, <1>5 DEF LaneInv, OwnerPcs
  <2>3. CASE ~Bind(l)
    <3>1. pc'[l] \notin OwnerPcs
      BY <2>3 DEF Prologue, Observe, LoadTenant, LoadMask, OwnerPcs, TypeOK
    <3> QED
      BY <3>1, <2>1, <1>3, <1>5 DEF LaneInv, OwnerPcs
  <2> QED
    BY <2>2, <2>3
<1> QED
  BY <1>6, <1>7, <1>8, <1>9

\* The lane steps inside a claimed slot that touch neither the ring nor the
\* history: the opcode bodies and the DONE_COUNT increment.
LEMMA BodyStepIInv ==
  ASSUME IInv, NEW l \in Lanes,
         NopBody(l) \/ StoreBody(l) \/ ShutdownBody(l) \/ FenceEpoch(l)
           \/ FenceTag(l) \/ Tally(l)
  PROVE  IInv'
<1> USE DEF IInv, hostVars, Goto
<1>1. /\ pc[l] \in OwnerPcs \ {"bind", "dispatch"}
      /\ pc' \in [Lanes -> LanePcs]
      /\ pc'[l] \in OwnerPcs \ {"bind", "dispatch"}
      /\ \A m \in Lanes : m # l => pc'[m] = pc[m]
  BY ZenonT(60) DEF NopBody, StoreBody, ShutdownBody, FenceEpoch, FenceTag, Tally, TypeOK,
         LanePcs, OwnerPcs
<1>2. UNCHANGED <<ring, metrics, reg, host, published, runs>>
  BY DEF NopBody, StoreBody, ShutdownBody, FenceEpoch, FenceTag, Tally
<1>3. reg[l].args \in Tickets
  BY <1>1, OwnedSlot DEF LaneInv
<1>4. control' \in [shutdown : {0, 1}, done_count : Nat, epoch : Nat,
                     observable : 0 .. MaxTickets]
  <2>0. /\ control \in [shutdown : {0, 1}, done_count : Nat, epoch : Nat,
                          observable : 0 .. MaxTickets]
        /\ control.epoch + 1 \in Nat
        /\ control.done_count + 1 \in Nat
    BY DEF TypeOK
  <2>1. CASE ShutdownBody(l)
    BY <2>0, <2>1 DEF ShutdownBody
  <2>2. CASE FenceEpoch(l)
    BY <2>0, <2>2 DEF FenceEpoch
  <2>3. CASE FenceTag(l)
    BY <2>0, <2>3, <1>3 DEF FenceTag
  <2>4. CASE Tally(l)
    BY <2>0, <2>4 DEF Tally
  <2> QED
    BY <2>1, <2>2, <2>3, <2>4 DEF NopBody, StoreBody, TypeOK
<1>5. mask' \in [Tenants -> {0, 1}]
  <2>1. published[reg[l].args] \in Payload
    BY <1>3 DEF TypeOK
  <2>2. CASE StoreBody(l)
    BY <2>1, <2>2 DEF StoreBody, TypeOK, Payload
  <2> QED
    BY <2>2 DEF NopBody, ShutdownBody, FenceEpoch, FenceTag, Tally, TypeOK
<1>6. TypeOK'
  BY <1>1, <1>2, <1>4, <1>5, Zenon DEF TypeOK
<1>7. HostInv' /\ SlotInv' /\ RunsAtMostOnce'
  BY <1>2 DEF HostInv, SlotInv, RunsAtMostOnce, Publishable
<1>8. ClaimedByOneLane'
  BY <1>1, <1>2, SameOwners
<1>9. LaneInv'
  BY <1>1, <1>2 DEF LaneInv, OwnerPcs
<1> QED
  BY <1>6, <1>7, <1>8, <1>9

\* The compare-exchange: a lane that wins turns a PUBLISHED slot into the one
\* CLAIMED slot it owns; a lane that loses changes nothing shared.
LEMMA ClaimIInv ==
  ASSUME IInv, NEW l \in Lanes, Claim(l)
  PROVE  IInv'
<1> USE DEF IInv, hostVars, Goto
<1> DEFINE s == LaneSlot[l]
<1>0. /\ s \in Slots /\ ring[s] \in SlotWords /\ pc[l] \notin OwnerPcs
      /\ UNCHANGED <<control, mask, metrics, reg, host, published, runs>>
      /\ pc' \in [Lanes -> LanePcs]
      /\ \A m \in Lanes : m # l => pc'[m] = pc[m]
  BY Zenon DEF Claim, TypeOK, SlotWords, OwnerPcs, LanePcs
<1>1. CASE ring[s].status # "PUBLISHED"
  <2>1. UNCHANGED ring /\ pc'[l] = "prologue"
    BY <1>1 DEF Claim, TypeOK
  <2>2. TypeOK'
    BY <2>1, <1>0 DEF TypeOK
  <2>3. HostInv' /\ SlotInv' /\ RunsAtMostOnce'
    BY <2>1, <1>0 DEF HostInv, SlotInv, RunsAtMostOnce, Publishable
  <2>4. ClaimedByOneLane'
    BY <2>1, <1>0, SameOwners DEF OwnerPcs
  <2>5. LaneInv'
    BY <2>1, <1>0 DEF LaneInv, OwnerPcs
  <2> QED
    BY <2>2, <2>3, <2>4, <2>5
<1>2. CASE ring[s].status = "PUBLISHED"
  <2>1. /\ ring' = [ring EXCEPT ![s] = [@ EXCEPT !.status = "CLAIMED"]]
        /\ pc'[l] = "bind"
    BY <1>2 DEF Claim, TypeOK
  <2>2. /\ ring' \in [Slots -> SlotWords]
        /\ ring'[s].status = "CLAIMED"
        /\ ring'[s].opcode = ring[s].opcode
        /\ ring'[s].tenant = ring[s].tenant
        /\ ring'[s].args = ring[s].args
        /\ \A q \in Slots : q # s => ring'[q] = ring[q]
    BY <2>1, <1>0, Zenon DEF TypeOK, SlotWords, Statuses
  <2>3. TypeOK'
    BY <2>2, <1>0, Zenon DEF TypeOK, SlotWords
  <2>4. RunsAtMostOnce'
    BY <1>0 DEF RunsAtMostOnce
  <2>5. \A m \in Lanes : pc[m] \in OwnerPcs => LaneSlot[m] # s
    BY <1>2, OwnedSlot
  <2>6. \A t \in host.ticket .. host.issued : published[t].slot # s
    BY <1>2 DEF HostInv, Publishable
  <2>7. HostInv'
    <3>0. \A t \in host.ticket .. host.issued : t \in Tickets
      BY DEF TypeOK
    <3>1. \A t \in Tickets : published[t].slot \in Slots
      BY DEF TypeOK, Payload
    <3>2. \A t \in host.ticket .. host.issued :
            ring'[published[t].slot] = ring[published[t].slot]
      BY <3>0, <3>1, <2>2, <2>6
    <3>3. host.ticket <= host.issued => host.ticket \in host.ticket .. host.issued
      BY DEF TypeOK
    <3> QED
      BY <3>2, <3>3, <1>0 DEF HostInv, Publishable
  <2>8. ClaimedByOneLane'
    <3>1. \A l1, l2 \in Lanes : LaneSlot[l1] = LaneSlot[l2] /\ pc'[l1] \in OwnerPcs
                                  /\ pc'[l2] \in OwnerPcs => l1 = l2
      BY <2>5, <1>0 DEF ClaimedByOneLane
    <3>2. ASSUME NEW q \in Slots
          PROVE  ring'[q].status = "CLAIMED" <=> \E m \in Lanes : Owns(m, q)'
      <4>1. CASE q = s
        BY <4>1, <2>1, <2>2 DEF Owns, OwnerPcs
      <4>2. CASE q # s
        <5>1. \A m \in Lanes : Owns(m, q)' <=> Owns(m, q)
          BY <4>2, <1>0 DEF Owns
        <5>2. ring'[q] = ring[q]
          BY <4>2, <2>2
        <5> QED
          BY <5>1, <5>2 DEF ClaimedByOneLane
      <4> QED
        BY <4>1, <4>2
    <3> QED
      BY <3>1, <3>2 DEF ClaimedByOneLane
  <2>9. SlotInv'
    <3>1. ASSUME NEW q \in Slots, ring'[q].status \in {"PUBLISHED", "CLAIMED"}
          PROVE  /\ ring[q].status \in {"PUBLISHED", "CLAIMED"}
                 /\ ring'[q].status = "PUBLISHED" => ring[q].status = "PUBLISHED"
                 /\ ring'[q].opcode = ring[q].opcode
                 /\ ring'[q].tenant = ring[q].tenant
                 /\ ring'[q].args = ring[q].args
      BY <3>1, <2>2, <1>2
    <3> QED
      BY <3>1, <1>0 DEF SlotInv
  <2>10. LaneInv'
    <3>1. \A m \in Lanes : ring'[LaneSlot[m]].opcode = ring[LaneSlot[m]].opcode
                             /\ ring'[LaneSlot[m]].args = ring[LaneSlot[m]].args
      BY <2>2
    <3>2. runs[ring[s].args] = 0
      BY <1>2, <1>0 DEF SlotInv
    <3> QED
      BY <3>1, <3>2, <2>1, <1>0 DEF LaneInv, OwnerPcs
  <2> QED
    BY <2>3, <2>4, <2>7, <2>8, <2>9, <2>10
<1> QED
  BY <1>1, <1>2

\* Two slots in flight hold different tickets.
LEMMA InFlightTicketsDiffer ==
  ASSUME IInv, NEW s1 \in Slots, NEW s2 \in Slots, s1 # s2,
         ring[s1].status \in {"PUBLISHED", "CLAIMED"},
         ring[s2].status \in {"PUBLISHED", "CLAIMED"}
  PROVE  ring[s1].args # ring[s2].args
BY DEF IInv, SlotInv

\* The dispatch counts the ticket of the lane's own slot, which has not run.
LEMMA DispatchIInv ==
  ASSUME IInv, NEW l \in Lanes, Dispatch(l)
  PROVE  IInv'
<1> USE DEF IInv, hostVars, Goto
<1> DEFINE s == LaneSlot[l]
           t0 == ring[s].args
<1>1. /\ pc[l] = "dispatch" /\ pc[l] \in OwnerPcs
      /\ UNCHANGED <<ring, control, mask, reg, host, published>>
      /\ pc' \in [Lanes -> LanePcs] /\ pc'[l] = "body"
      /\ \A m \in Lanes : m # l => pc'[m] = pc[m]
  BY DEF Dispatch, TypeOK, OwnerPcs, LanePcs
<1>2. /\ s \in Slots /\ ring[s].status = "CLAIMED"
      /\ t0 \in Tickets /\ t0 < host.ticket
  BY <1>1, OwnedSlot
<1>3. reg[l].args = t0 /\ runs[t0] = 0
  BY <1>1 DEF LaneInv, OwnerPcs
<1>4. /\ runs' \in [Tickets -> Nat]
      /\ runs'[t0] = 1
      /\ \A t \in Tickets : t # t0 => runs'[t] = runs[t]
  <2>1. runs' = [t \in Tickets |-> runs[t] + (IF t = t0 THEN 1 ELSE 0)]
    BY <1>3 DEF Dispatch
  <2>2. \A t \in Tickets : runs[t] \in Nat
    BY DEF TypeOK
  <2> QED
    BY <2>1, <2>2, <1>2, <1>3
<1>5. metrics' \in [Metered -> Nat]
  BY DEF Dispatch, TypeOK
<1>6. TypeOK'
  BY <1>1, <1>4, <1>5, Zenon DEF TypeOK
<1>7. HostInv'
  <2>1. host.ticket \in Nat
    BY DEF TypeOK
  <2>2. \A t \in Tickets : t >= host.ticket => runs'[t] = 0
    BY <1>2, <1>4, <2>1 DEF HostInv
  <2> QED
    BY <1>1, <2>2 DEF HostInv, Publishable
<1>8. ClaimedByOneLane'
  BY <1>1, SameOwners DEF OwnerPcs
<1>9. \A q \in Slots : q # s /\ ring[q].status \in {"PUBLISHED", "CLAIMED"} =>
         ring[q].args \in Tickets /\ ring[q].args # t0
  <2> SUFFICES ASSUME NEW q \in Slots, q # s,
                      ring[q].status \in {"PUBLISHED", "CLAIMED"}
               PROVE  ring[q].args \in Tickets /\ ring[q].args # t0
    OBVIOUS
  <2>1. host.ticket \in 1 .. MaxTickets + 1
    BY DEF TypeOK
  <2>2. ring[q].args \in 1 .. host.ticket - 1
    BY DEF SlotInv
  <2>3. ring[q].args # t0
    BY <1>2, InFlightTicketsDiffer
  <2> QED
    BY <2>1, <2>2, <2>3
<1>10. SlotInv'
  BY <1>1, <1>2, <1>4, <1>9, ZenonT(60) DEF SlotInv
<1>11. LaneInv'
  <2>1. ASSUME NEW m \in Lanes, m # l, pc[m] \in OwnerPcs
        PROVE  ring[LaneSlot[m]].args \in Tickets /\ ring[LaneSlot[m]].args # t0
    <3>1. LaneSlot[m] # s
      BY <1>1, <2>1 DEF ClaimedByOneLane
    <3> QED
      BY <2>1, <3>1, <1>9, OwnedSlot
  <2>2. \A m \in Lanes : pc'[m] \in {"bind", "dispatch"} =>
          m # l /\ pc[m] \in {"bind", "dispatch"} /\ pc[m] \in OwnerPcs
    BY <1>1 DEF OwnerPcs
  <2>3. \A m \in Lanes : pc'[m] \in {"bind", "dispatch"} =>
          runs'[ring[LaneSlot[m]].args] = 0
    BY <2>1, <2>2, <1>4 DEF LaneInv
  <2>4. \A m \in Lanes : pc'[m] \in OwnerPcs \ {"bind"} => pc[m] \in OwnerPcs \ {"bind"}
    BY <1>1 DEF OwnerPcs
  <2> QED
    BY <1>1, <2>3, <2>4 DEF LaneInv
<1>12. RunsAtMostOnce'
  BY <1>4 DEF RunsAtMostOnce
<1> QED
  BY <1>6, <1>7, <1>8, <1>10, <1>11, <1>12

\* The DONE store: the lane gives up the one slot it owns.
LEMMA MarkDoneIInv ==
  ASSUME IInv, NEW l \in Lanes, MarkDone(l)
  PROVE  IInv'
<1> USE DEF IInv, hostVars, Goto
<1> DEFINE s == LaneSlot[l]
<1>1. /\ pc[l] \in OwnerPcs
      /\ UNCHANGED <<control, mask, metrics, reg, host, published, runs>>
      /\ pc' \in [Lanes -> LanePcs] /\ pc'[l] = "prologue"
      /\ \A m \in Lanes : m # l => pc'[m] = pc[m]
  BY DEF MarkDone, TypeOK, OwnerPcs, LanePcs
<1>2. s \in Slots /\ ring[s] \in SlotWords /\ ring[s].status = "CLAIMED"
  BY <1>1, OwnedSlot DEF TypeOK, SlotWords
<1>3. ring' = [ring EXCEPT ![s] = [@ EXCEPT !.status = "DONE"]]
  BY DEF MarkDone
<1>4. /\ ring' \in [Slots -> SlotWords]
      /\ ring'[s].status = "DONE"
      /\ \A q \in Slots : q # s => ring'[q] = ring[q]
  BY <1>2, <1>3, Zenon DEF TypeOK, SlotWords, Statuses
<1>5. TypeOK'
  BY <1>1, <1>4, Zenon DEF TypeOK, SlotWords
<1>6. \A m \in Lanes : m # l /\ pc[m] \in OwnerPcs => LaneSlot[m] # s
  BY <1>1 DEF ClaimedByOneLane
<1>7. HostInv'
  <2>1. \A t \in host.ticket .. host.issued : t \in Tickets
    BY DEF TypeOK
  <2>2. \A t \in Tickets : published[t].slot \in Slots
    BY DEF TypeOK, Payload
  <2>3. \A t \in host.ticket .. host.issued :
          ring'[published[t].slot] = ring[published[t].slot]
    BY <2>1, <2>2, <1>2, <1>4 DEF HostInv, Publishable
  <2>4. host.ticket <= host.issued => host.ticket \in host.ticket .. host.issued
    BY DEF TypeOK
  <2> QED
    BY <2>3, <2>4, <1>1 DEF HostInv, Publishable
<1>8. ClaimedByOneLane'
  <2>1. \A m \in Lanes : pc'[m] \in OwnerPcs => m # l /\ pc[m] \in OwnerPcs
    BY <1>1 DEF OwnerPcs
  <2>2. ASSUME NEW q \in Slots
        PROVE  ring'[q].status = "CLAIMED" <=> \E m \in Lanes : Owns(m, q)'
    <3>1. CASE q = s
      BY <3>1, <2>1, <1>4, <1>6 DEF Owns
    <3>2. CASE q # s
      <4>1. \A m \in Lanes : Owns(m, q)' <=> Owns(m, q)
        BY <3>2, <1>1 DEF Owns
      <4>2. ring'[q] = ring[q]
        BY <3>2, <1>4
      <4> QED
        BY <4>1, <4>2 DEF ClaimedByOneLane
    <3> QED
      BY <3>1, <3>2
  <2> QED
    BY <2>1, <2>2 DEF ClaimedByOneLane
<1>9. SlotInv'
  BY <1>1, <1>4 DEF SlotInv
<1>10. LaneInv'
  <2>1. \A m \in Lanes : m # l /\ pc[m] \in OwnerPcs =>
          ring'[LaneSlot[m]] = ring[LaneSlot[m]]
    BY <1>4, <1>6
  <2> QED
    BY <2>1, <1>1 DEF LaneInv, OwnerPcs
<1>11. RunsAtMostOnce'
  BY <1>1 DEF RunsAtMostOnce
<1> QED
  BY <1>5, <1>7, <1>8, <1>9, <1>10, <1>11

Requests == [opcode : OpcodeNames, value : {0, 1}, target : Tenants]

\* Issuing a window of tickets: their slots are publishable and distinct, and
\* no slot in flight refers to them yet.
LEMMA PublishWindowIInv ==
  ASSUME IInv, NEW start \in Slots, NEW tenant \in Tenants, NEW n \in Nat,
         NEW items \in [1 .. n -> Requests], NEW batch \in 0 .. MaxTickets,
         PublishWindow(start, tenant, n, items, batch)
  PROVE  IInv'
<1> USE DEF IInv
<1>1. /\ UNCHANGED <<ring, control, mask, metrics, pc, reg, runs>>
      /\ host.issued \in Nat /\ host.issued + n <= MaxTickets
      /\ start + n <= SlotCount
      /\ \A q \in start .. start + n - 1 : Publishable(q)
  BY DEF PublishWindow, TypeOK, laneVars
<1>2. host.ticket = host.issued + 1 /\ host.word = 1
  <2>1. host.ticket \in Nat /\ host.issued \in Nat
    BY DEF TypeOK
  <2>2. host.ticket > host.issued
    BY DEF PublishWindow, HostIdle
  <2> QED
    BY <2>1, <2>2 DEF HostInv
<1>3. /\ host' \in [issued : 0 .. MaxTickets, ticket : 1 .. MaxTickets + 1, word : 1 .. 4]
      /\ host'.issued = host.issued + n
      /\ host'.ticket = host.ticket
      /\ host'.word = host.word
  <2>1. /\ host \in [issued : 0 .. MaxTickets, ticket : 1 .. MaxTickets + 1, word : 1 .. 4]
        /\ host' = [host EXCEPT !.issued = host.issued + n]
    BY DEF PublishWindow, TypeOK
  <2>2. host.issued + n \in 0 .. MaxTickets
    BY <1>1
  <2> QED
    BY <2>1, <2>2, Zenon
<1> DEFINE New(t) == t \in host.issued + 1 .. host.issued + n
<1>4. ASSUME NEW t \in Tickets, New(t)
      PROVE  /\ published'[t].slot = start + (t - host.issued - 1)
             /\ published'[t].slot \in start .. start + n - 1
             /\ published'[t].slot \in Slots
             /\ published'[t] \in Payload
  <2>1. t - host.issued \in 1 .. n
    BY <1>1, <1>4
  <2>2. items[t - host.issued] \in Requests
    BY <2>1
  <2>3. published'[t] = [slot |-> start + (t - host.issued - 1),
                         opcode |-> items[t - host.issued].opcode,
                         tenant |-> tenant,
                         value |-> items[t - host.issued].value,
                         target |-> items[t - host.issued].target,
                         batch |-> batch]
    BY <1>4 DEF PublishWindow
  <2>4. start + (t - host.issued - 1) \in start .. start + n - 1
    <3>1. start \in Nat /\ t \in Nat /\ host.issued \in Nat
      BY <1>1
    <3> QED
      BY <3>1, <2>1
  <2>5. start + (t - host.issued - 1) \in Slots
    BY <1>1, <2>4
  <2> QED
    BY <2>2, <2>3, <2>4, <2>5 DEF Payload, Requests
<1>5. ASSUME NEW t \in Tickets, ~New(t)
      PROVE  published'[t] = published[t]
  BY <1>5 DEF PublishWindow
<1>6. published' \in [Tickets -> Payload]
  <2>1. published' = [t \in Tickets |-> published'[t]]
    BY DEF PublishWindow
  <2>2. \A t \in Tickets : published'[t] \in Payload
    BY <1>4, <1>5, Zenon DEF TypeOK
  <2> QED
    BY <2>1, <2>2
<1>7. TypeOK'
  BY <1>1, <1>3, <1>6, Zenon DEF TypeOK
<1>8. \A t \in 1 .. host.ticket - 1 : t \in Tickets /\ published'[t] = published[t]
  BY <1>1, <1>2, <1>5
<1>9. HostInv'
  <2>1. \A t \in host'.ticket .. host'.issued : t \in Tickets /\ New(t)
    BY <1>1, <1>2, <1>3
  <2>2. \A t \in host'.ticket .. host'.issued :
          ring'[published'[t].slot].status \in {"EMPTY", "DONE"}
    BY <1>1, <1>4, <2>1, Zenon DEF Publishable
  <2>3. ASSUME NEW t \in host'.ticket .. host'.issued,
               NEW u \in host'.ticket .. host'.issued,
               published'[t].slot = published'[u].slot
        PROVE  t = u
    <3>1. start + (t - host.issued - 1) = start + (u - host.issued - 1)
      BY <1>4, <2>1, <2>3
    <3>2. start \in Int /\ t \in Int /\ u \in Int /\ host.issued \in Int
      BY <1>1, <2>1
    <3> QED
      BY <3>1, <3>2
  <2>4. \A t \in Tickets : t >= host'.ticket => runs'[t] = 0
    BY <1>1, <1>3 DEF HostInv
  <2>5. host'.ticket <= host'.issued + 1 /\ host'.word = 1
    BY <1>1, <1>2, <1>3
  <2> QED
    BY <2>2, <2>3, <2>4, <2>5 DEF HostInv, Publishable
<1>10. ClaimedByOneLane' /\ LaneInv' /\ RunsAtMostOnce'
  BY <1>1 DEF ClaimedByOneLane, Owns, LaneInv, RunsAtMostOnce
<1>11. SlotInv'
  BY <1>1, <1>3, <1>8, ZenonT(60) DEF SlotInv
<1> QED
  BY <1>7, <1>9, <1>10, <1>11

\* publish_slot, publish_work_items and batch_publish all issue a window.
LEMMA PublishIInv ==
  ASSUME IInv, Publish
  PROVE  IInv'
<1>0. Items \subseteq Requests
  BY DEF Items, Requests
<1>1. CASE PublishSlot
  <2>1. PICK s \in Slots, tenant \in Tenants, item \in Items :
          PublishWindow(s, tenant, 1, [k \in 1 .. 1 |-> item], 0)
    BY <1>1, Zenon DEF PublishSlot
  <2>2. [k \in 1 .. 1 |-> item] \in [1 .. 1 -> Requests]
    BY <1>0
  <2>3. 1 \in Nat /\ 0 \in 0 .. MaxTickets
    OBVIOUS
  <2> QED
    BY <2>1, <2>2, <2>3, PublishWindowIInv, Zenon
<1>2. CASE PublishWorkItems
  <2>1. PICK s \in Slots, tenant \in Tenants, n \in 1 .. MaxItems :
          \E items \in [1 .. n -> Items] : PublishWindow(s, tenant, n, items, 0)
    BY <1>2 DEF PublishWorkItems
  <2>2. PICK items \in [1 .. n -> Items] : PublishWindow(s, tenant, n, items, 0)
    BY <2>1
  <2>3. items \in [1 .. n -> Requests]
    BY <1>0
  <2> QED
    BY <2>2, <2>3, PublishWindowIInv
<1>3. CASE BatchPublish
  <2>1. PICK s \in Slots, tenant \in Tenants, n \in 0 .. MaxItems :
          \E items \in [1 .. n -> Items] :
            PublishWindow(s, tenant, n + 1, WithFence(items, n), host.issued + n + 1)
    BY <1>3 DEF BatchPublish
  <2>2. PICK items \in [1 .. n -> Items] :
          PublishWindow(s, tenant, n + 1, WithFence(items, n), host.issued + n + 1)
    BY <2>1
  <2>3. Fence \in Requests
    BY DEF Fence, Requests, OpcodeNames
  <2>4. WithFence(items, n) \in [1 .. n + 1 -> Requests]
    BY <1>0, <2>3 DEF WithFence
  <2>5. host.issued + n + 1 \in 0 .. MaxTickets
    <3>1. host.issued \in Nat
      BY DEF IInv, TypeOK
    <3>2. host.issued + (n + 1) <= MaxTickets
      BY <2>2 DEF PublishWindow
    <3> QED
      BY <3>1, <3>2
  <2> QED
    BY <2>2, <2>4, <2>5, PublishWindowIInv
<1> QED
  BY <1>1, <1>2, <1>3 DEF Publish

\* One word of the current ticket is stored in its slot, which no lane may be
\* reading; the status word, stored last, completes the publication.
LEMMA HostStoreIInv ==
  ASSUME IInv, HostStore
  PROVE  IInv'
<1> USE DEF IInv
<1> DEFINE t0 == host.ticket
           p == published[t0]
           s == p.slot
<1>1. /\ UNCHANGED <<control, mask, metrics, pc, reg, published, runs>>
      /\ t0 \in Nat /\ host.issued \in Nat /\ host.word \in 1 .. 4
      /\ t0 <= host.issued
  BY DEF HostStore, HostIdle, TypeOK, laneVars
<1>2. t0 \in Tickets /\ p \in Payload /\ s \in Slots /\ ring[s] \in SlotWords
  <2>1. t0 \in Tickets
    BY <1>1 DEF TypeOK
  <2>2. p \in Payload
    BY <2>1 DEF TypeOK
  <2> QED
    BY <2>1, <2>2, Zenon DEF TypeOK, Payload, SlotWords
<1>3. ring[s].status \in {"EMPTY", "DONE"} /\ runs[t0] = 0
  BY <1>1, <1>2 DEF HostInv, Publishable
<1>4. ring' = [ring EXCEPT ![s] = StoreWord(ring[s], WordOrder[host.word], t0)]
  BY DEF HostStore
<1> DEFINE w == StoreWord(ring[s], WordOrder[host.word], t0)
<1>a. /\ host.word = 1 => w = [ring[s] EXCEPT !.opcode = p.opcode]
      /\ host.word = 2 => w = [ring[s] EXCEPT !.tenant = p.tenant]
      /\ host.word = 3 => w = [ring[s] EXCEPT !.args = t0]
      /\ host.word = 4 => w = [ring[s] EXCEPT !.status = "PUBLISHED"]
  <2>1. /\ WordOrder[1] = "opcode" /\ WordOrder[2] = "tenant"
        /\ WordOrder[3] = "args" /\ WordOrder[4] = "status"
    BY DEF WordOrder
  <2> QED
    BY <2>1 DEF StoreWord
<1>b. /\ p.opcode \in OpcodeNames /\ p.tenant \in Tenants
      /\ "PUBLISHED" \in Statuses /\ t0 \in 0 .. MaxTickets
  BY <1>2 DEF Payload, Statuses
<1> HIDE DEF w
<1>5. /\ ring' \in [Slots -> SlotWords]
      /\ \A q \in Slots : q # s => ring'[q] = ring[q]
      /\ ring'[s] = w
  <2>1. w \in SlotWords
    <3>1. CASE host.word = 1
      BY <3>1, <1>a, <1>b, <1>2 DEF SlotWords
    <3>2. CASE host.word = 2
      BY <3>2, <1>a, <1>b, <1>2 DEF SlotWords
    <3>3. CASE host.word = 3
      BY <3>3, <1>a, <1>b, <1>2 DEF SlotWords
    <3>4. CASE host.word = 4
      BY <3>4, <1>a, <1>b, <1>2 DEF SlotWords
    <3> QED
      BY <1>1, <3>1, <3>2, <3>3, <3>4
  <2>2. ring' = [ring EXCEPT ![s] = w]
    BY <1>4 DEF w
  <2> QED
    BY <2>1, <2>2, <1>2 DEF TypeOK, SlotWords
<1>6. /\ host.word < 4 => ring'[s].status = ring[s].status
      /\ host.word = 4 => ring'[s].status = "PUBLISHED"
      /\ host.word = 1 => ring'[s].opcode = p.opcode
      /\ host.word # 1 => ring'[s].opcode = ring[s].opcode
      /\ host.word = 2 => ring'[s].tenant = p.tenant
      /\ host.word # 2 => ring'[s].tenant = ring[s].tenant
      /\ host.word = 3 => ring'[s].args = t0
      /\ host.word # 3 => ring'[s].args = ring[s].args
  <2>1. CASE host.word = 1
    BY <2>1, <1>2, <1>5, <1>a, Zenon DEF SlotWords
  <2>2. CASE host.word = 2
    BY <2>2, <1>2, <1>5, <1>a, Zenon DEF SlotWords
  <2>3. CASE host.word = 3
    BY <2>3, <1>2, <1>5, <1>a DEF SlotWords
  <2>4. CASE host.word = 4
    <3>1. ~(host.word < 4)
      BY <2>4
    <3> QED
      BY <2>4, <3>1, <1>2, <1>5, <1>a, ZenonT(60) DEF SlotWords
  <2>5. host.word = 1 \/ host.word = 2 \/ host.word = 3 \/ host.word = 4
    BY <1>1
  <2> QED
    BY <2>1, <2>2, <2>3, <2>4, <2>5, ZenonT(60)
<1>7. /\ host' \in [issued : 0 .. MaxTickets, ticket : 1 .. MaxTickets + 1, word : 1 .. 4]
      /\ host'.issued = host.issued
      /\ host.word < 4 => host'.ticket = t0 /\ host'.word = host.word + 1
      /\ host.word = 4 => host'.ticket = t0 + 1 /\ host'.word = 1
  <2>1. /\ host \in [issued : 0 .. MaxTickets, ticket : 1 .. MaxTickets + 1, word : 1 .. 4]
        /\ host' = IF host.word < 4 THEN [host EXCEPT !.word = host.word + 1]
                    ELSE [host EXCEPT !.ticket = host.ticket + 1, !.word = 1]
    BY DEF HostStore, TypeOK
  <2>2. t0 + 1 \in 1 .. MaxTickets + 1 /\ 1 \in 1 .. 4
    BY <1>2
  <2>3. host.word < 4 => host.word + 1 \in 1 .. 4
    BY <1>1
  <2>4. CASE host.word < 4
    BY <2>1, <2>3, <2>4
  <2>5. CASE host.word = 4
    <3>1. host' = [host EXCEPT !.ticket = t0 + 1, !.word = 1]
      BY <2>1, <2>5
    <3>2. host' = [issued |-> host.issued, ticket |-> t0 + 1, word |-> 1]
      BY <3>1, <2>1, Zenon
    <3> QED
      BY <3>2, <2>1, <2>2, <2>5
  <2> QED
    BY <1>1, <2>4, <2>5
<1>8. TypeOK'
  BY <1>1, <1>5, <1>7, Zenon DEF TypeOK, SlotWords
<1>9. RunsAtMostOnce'
  BY <1>1 DEF RunsAtMostOnce
<1>10. ClaimedByOneLane'
  <2>1. \A q \in Slots : ring'[q].status = "CLAIMED" <=> ring[q].status = "CLAIMED"
    BY <1>1, <1>3, <1>5, <1>6
  <2> QED
    BY <2>1, <1>1 DEF ClaimedByOneLane, Owns
<1>11. LaneInv'
  <2>1. \A m \in Lanes : pc[m] \in OwnerPcs => ring'[LaneSlot[m]] = ring[LaneSlot[m]]
    BY <1>3, <1>5, OwnedSlot
  <2> QED
    BY <2>1, <1>1 DEF LaneInv, OwnerPcs
<1>12. \A t \in t0 .. host.issued : t \in Tickets /\ published[t].slot \in Slots
  <2>1. \A t \in t0 .. host.issued : t \in Tickets
    BY DEF TypeOK
  <2> QED
    BY <2>1, ZenonT(60) DEF TypeOK, Payload
<1>13. \A t \in t0 .. host.issued : t # t0 => ring'[published[t].slot] = ring[published[t].slot]
  <2>1. t0 \in t0 .. host.issued
    BY <1>1
  <2> QED
    BY <2>1, <1>5, <1>12 DEF HostInv
\* The words before the current one have been stored.
<1>c. /\ host.word > 1 => ring[s].opcode = p.opcode
      /\ host.word > 2 => ring[s].tenant = p.tenant
      /\ host.word > 3 => ring[s].args = t0
  BY <1>1 DEF HostInv
<1>14. CASE host.word < 4
  <2>1. HostInv'
    <3>1. \A t \in t0 .. host.issued :
            ring'[published[t].slot].status = ring[published[t].slot].status
      BY <1>6, <1>13, <1>14
    <3>2. /\ host'.word > 1 => ring'[s].opcode = p.opcode
          /\ host'.word > 2 => ring'[s].tenant = p.tenant
          /\ host'.word > 3 => ring'[s].args = t0
      <4>1. host'.word = host.word + 1 /\ host.word \in 1 .. 3
        BY <1>1, <1>7, <1>14
      <4>2. host.word > 1 \/ host.word = 1
        BY <4>1
      <4>3. host'.word > 2 => host.word > 1 /\ (host.word > 2 \/ host.word = 2)
        BY <4>1
      <4>4. host'.word > 3 => host.word = 3
        BY <4>1
      <4>5. host.word # 1 \/ host.word = 1
        OBVIOUS
      <4>6. QED
        BY <1>6, <1>c, <4>2, <4>3, <4>4, <4>5, ZenonT(60)
    <3>3. /\ host'.ticket = t0 /\ host'.issued = host.issued
          /\ t0 <= host.issued /\ t0 <= host.issued + 1 /\ ~(t0 > host.issued)
      BY <1>1, <1>7, <1>14
    <3> QED
      BY <3>1, <3>2, <3>3, <1>1 DEF HostInv, Publishable
  <2>2. SlotInv'
    <3>1. \A q \in Slots : ring'[q].status \in {"PUBLISHED", "CLAIMED"} =>
            ring'[q] = ring[q]
      BY <1>3, <1>5, <1>6, <1>14
    <3>2. host'.ticket = host.ticket
      BY <1>7, <1>14
    <3> QED
      BY <3>1, <3>2, <1>1 DEF SlotInv
  <2> QED
    BY <2>1, <2>2, <1>8, <1>9, <1>10, <1>11
<1>15. CASE host.word = 4
  <2>1. HostInv'
    <3>1. /\ host'.ticket = t0 + 1 /\ host'.issued = host.issued /\ host'.word = 1
          /\ t0 + 1 <= host.issued + 1
      BY <1>1, <1>7, <1>15
    <3>2. \A t \in t0 + 1 .. host.issued : t \in t0 .. host.issued /\ t # t0
      BY <1>1
    <3>3. \A t \in t0 + 1 .. host.issued :
            ring'[published[t].slot].status \in {"EMPTY", "DONE"}
      BY <3>2, <1>13 DEF HostInv, Publishable
    <3>4. \A t, u \in t0 + 1 .. host.issued :
            published[t].slot = published[u].slot => t = u
      BY <3>2 DEF HostInv
    <3>5. \A t \in Tickets : t >= t0 + 1 => runs[t] = 0
      BY <1>1 DEF HostInv
    <3> QED
      BY <3>1, <3>3, <3>4, <3>5, <1>1 DEF HostInv, Publishable
  <2>2. SlotInv'
    <3>1. /\ ring'[s].opcode = p.opcode /\ ring'[s].tenant = p.tenant
          /\ ring'[s].args = t0
      BY <1>6, <1>c, <1>15
    <3>2. host'.ticket = t0 + 1
      BY <1>7, <1>15
    <3>3. t0 \in 1 .. host'.ticket - 1
      BY <3>2, <1>2, <1>1
    <3>4. ASSUME NEW q \in Slots, q # s, ring[q].status \in {"PUBLISHED", "CLAIMED"}
          PROVE  ring[q].args \in 1 .. host'.ticket - 1
      BY <3>2, <3>4, <1>1 DEF SlotInv
    <3>5. ASSUME NEW q \in Slots, ring'[q].status \in {"PUBLISHED", "CLAIMED"}
          PROVE  /\ ring'[q].args \in 1 .. host'.ticket - 1
                 /\ published[ring'[q].args].slot = q
                 /\ published[ring'[q].args].opcode = ring'[q].opcode
                 /\ published[ring'[q].args].tenant = ring'[q].tenant
                 /\ ring'[q].status = "PUBLISHED" => runs[ring'[q].args] = 0
      <4>1. CASE q = s
        BY <4>1, <3>1, <3>3, <1>3
      <4>2. CASE q # s
        BY <4>2, <3>4, <3>5, <1>5 DEF SlotInv
      <4> QED
        BY <4>1, <4>2
    <3> QED
      BY <3>5, <1>1 DEF SlotInv
  <2> QED
    BY <2>1, <2>2, <1>8, <1>9, <1>10, <1>11
<1> QED
  BY <1>1, <1>14, <1>15

\* Every step of the host and of every lane preserves the inductive invariant.
LEMMA NextIInv == IInv /\ [Next]_vars => IInv'
<1> SUFFICES ASSUME IInv, [Next]_vars PROVE IInv'
  OBVIOUS
<1>1. CASE Publish
  BY <1>1, PublishIInv
<1>2. CASE HostStore
  BY <1>2, HostStoreIInv
<1>3. CASE \E l \in Lanes : LaneStep(l)
  <2>1. PICK l \in Lanes : LaneStep(l)
    BY <1>3
  <2>2. CASE Prologue(l) \/ Observe(l) \/ LoadTenant(l) \/ LoadMask(l) \/ Bind(l)
    BY <2>2, LoadStepIInv
  <2>3. CASE \/ NopBody(l) \/ StoreBody(l) \/ ShutdownBody(l) \/ FenceEpoch(l)
             \/ FenceTag(l) \/ Tally(l)
    BY <2>3, BodyStepIInv
  <2>4. CASE Claim(l)
    BY <2>4, ClaimIInv
  <2>5. CASE Dispatch(l)
    BY <2>5, DispatchIInv
  <2>6. CASE MarkDone(l)
    BY <2>6, MarkDoneIInv
  <2> QED
    BY <2>1, <2>2, <2>3, <2>4, <2>5, <2>6 DEF LaneStep
<1>4. CASE UNCHANGED vars
  BY <1>4, ZenonT(60) DEF vars, IInv, TypeOK, HostInv, Publishable, ClaimedByOneLane, Owns,
              SlotInv, LaneInv, RunsAtMostOnce
<1> QED
  BY <1>1, <1>2, <1>3, <1>4 DEF Next

\* The inductive invariant holds in every reachable state.
THEOREM Invariance == Spec => []IInv
BY InitIInv, NextIInv, PTL DEF Spec

\* Every word of the shared buffers, every register and every counter keeps
\* its type, for every ring, launch and sequence of publications.
THEOREM TypeCorrect == Spec => []TypeOK
<1>1. IInv => TypeOK
  BY DEF IInv
<1> QED
  BY <1>1, Invariance, PTL

\* The compare-exchange of tenant_authorized_claim_body is mutual exclusion on
\* slots: a CLAIMED slot has exactly one lane executing it, however many lanes
\* poll the slot.
THEOREM ClaimExclusive == Spec => []ClaimedByOneLane
<1>1. IInv => ClaimedByOneLane
  BY DEF IInv
<1> QED
  BY <1>1, Invariance, PTL

\* No torn or recycled payload is ever executed: storing the status word last
\* in publish_slot_validated is enough, without a lock on the slot.
THEOREM NoTornPayload == Spec => []ExecutesOnePublication
<1>1. IInv => ExecutesOnePublication
  <2> SUFFICES ASSUME IInv, NEW l \in Lanes, pc[l] \in OwnerPcs \ {"bind"}
               PROVE  /\ reg[l].args \in 1 .. host.issued
                      /\ published[reg[l].args].slot = LaneSlot[l]
                      /\ published[reg[l].args].opcode = reg[l].opcode
    BY DEF ExecutesOnePublication
  <2>1. /\ LaneSlot[l] \in Slots
        /\ ring[LaneSlot[l]].status = "CLAIMED"
        /\ ring[LaneSlot[l]].args \in Tickets
        /\ ring[LaneSlot[l]].args < host.ticket
    BY OwnedSlot
  <2>2. /\ reg[l].opcode = ring[LaneSlot[l]].opcode
        /\ reg[l].args = ring[LaneSlot[l]].args
    BY DEF IInv, LaneInv
  <2>3. /\ host.ticket \in Nat /\ host.issued \in Nat
        /\ host.ticket <= host.issued + 1
    BY DEF IInv, TypeOK, HostInv
  <2> QED
    BY <2>1, <2>2, <2>3 DEF IInv, SlotInv
<1> QED
  BY <1>1, Invariance, PTL

\* The words of a slot in flight change in no step but for its status, and a
\* PUBLISHED slot stays so until a lane that polls it claims it.
LEMMA InFlightStep ==
  ASSUME IInv, [Next]_vars, NEW s \in Slots,
         ring[s].status \in {"PUBLISHED", "CLAIMED"}
  PROVE  /\ ring'[s] = [ring[s] EXCEPT !.status = ring'[s].status]
         /\ \/ ring'[s].status = ring[s].status
            \/ \E l \in Lanes : LaneSlot[l] = s /\ (Claim(l) \/ MarkDone(l))
<1>0. ring[s] \in SlotWords
  BY DEF IInv, TypeOK, SlotWords
<1>1. CASE ring'[s] = ring[s]
  BY <1>0, <1>1 DEF SlotWords
<1>2. CASE HostStore
  <2> DEFINE t0 == host.ticket
  <2>1. t0 \in t0 .. host.issued
    BY <1>2 DEF HostStore, HostIdle, IInv, TypeOK
  <2>2. published[t0].slot # s
    BY <2>1 DEF IInv, HostInv, Publishable
  <2>3. ring'[s] = ring[s]
    BY <1>2, <2>2, Zenon DEF HostStore, IInv, TypeOK
  <2> QED
    BY <1>1, <2>3
<1>3. ASSUME NEW l \in Lanes, LaneSlot[l] # s, Claim(l) \/ MarkDone(l)
      PROVE  ring'[s] = ring[s]
  BY <1>3, Zenon DEF Claim, MarkDone, IInv, TypeOK
<1>4. ASSUME NEW l \in Lanes, LaneSlot[l] = s, Claim(l) \/ MarkDone(l)
      PROVE  ring'[s] = [ring[s] EXCEPT !.status = ring'[s].status]
  <2>1. \/ ring' = ring
        \/ ring' = [ring EXCEPT ![s] = [ring[s] EXCEPT !.status = "CLAIMED"]]
        \/ ring' = [ring EXCEPT ![s] = [ring[s] EXCEPT !.status = "DONE"]]
    BY <1>4 DEF Claim, MarkDone
  <2>2. \/ ring'[s] = ring[s]
        \/ ring'[s] = [ring[s] EXCEPT !.status = "CLAIMED"]
        \/ ring'[s] = [ring[s] EXCEPT !.status = "DONE"]
    BY <2>1, Zenon DEF IInv, TypeOK
  <2> QED
    BY <2>2, <1>0 DEF SlotWords
<1>5. \/ ring' = ring \/ HostStore \/ \E l \in Lanes : Claim(l) \/ MarkDone(l)
  BY ZenonT(60) DEF Next, Publish, PublishSlot, PublishWorkItems, BatchPublish, PublishWindow,
         LaneStep, Prologue, Observe, LoadTenant, LoadMask, Bind, Dispatch, NopBody,
         StoreBody, ShutdownBody, FenceEpoch, FenceTag, Tally, vars
<1> QED
  BY <1>1, <1>2, <1>3, <1>4, <1>5

\* The host never rewrites the payload of a slot the device may be reading.
THEOREM PayloadStable == Spec => InFlightPayloadStable
<1>1. IInv /\ [Next]_vars =>
        [\A s \in Slots : ring[s].status \in {"PUBLISHED", "CLAIMED"} =>
           ring'[s] = [ring[s] EXCEPT !.status = ring'[s].status]]_vars
  BY InFlightStep
<1> QED
  BY <1>1, Invariance, PTL DEF Spec, InFlightPayloadStable

-----------------------------------------------------------------------------
(* Every publication is dispatched exactly once *)

\* A step moves at most one lane.
LEMMA OneLaneMoves ==
  ASSUME IInv, [Next]_vars, NEW m \in Lanes, ~LaneStep(m)
  PROVE  pc'[m] = pc[m] /\ reg'[m] = reg[m]
<1>1. ASSUME NEW l \in Lanes, l # m, LaneStep(l)
      PROVE  pc'[m] = pc[m] /\ reg'[m] = reg[m]
  BY <1>1, Zenon DEF LaneStep, Prologue, Observe, LoadTenant, LoadMask, Claim, Bind, Dispatch,
              NopBody, StoreBody, ShutdownBody, FenceEpoch, FenceTag, Tally, MarkDone,
              Goto, IInv, TypeOK
<1>2. CASE Publish \/ HostStore \/ UNCHANGED vars
  BY <1>2, ZenonT(60) DEF Publish, PublishSlot, PublishWorkItems, BatchPublish, PublishWindow,
              HostStore, laneVars, vars
<1> QED
  BY <1>1, <1>2 DEF Next

\* A publication that has been issued is never rewritten.
LEMMA IssuedKept ==
  ASSUME IInv, [Next]_vars, NEW t \in Tickets, t <= host.issued
  PROVE  published'[t] = published[t]
<1>1. ASSUME NEW start, NEW tenant, NEW n \in Nat, NEW items, NEW batch,
             PublishWindow(start, tenant, n, items, batch)
      PROVE  published'[t] = published[t]
  BY <1>1 DEF PublishWindow, IInv, TypeOK
<1>2. 1 \in Nat /\ \A n \in 1 .. MaxItems : n \in Nat
  OBVIOUS
<1>3. \A n \in 0 .. MaxItems : n + 1 \in Nat
  OBVIOUS
<1>4. CASE PublishSlot
  BY <1>1, <1>2, <1>4 DEF PublishSlot
<1>5. CASE PublishWorkItems
  BY <1>1, <1>2, <1>5 DEF PublishWorkItems
<1>6. CASE BatchPublish
  BY <1>1, <1>3, <1>6 DEF BatchPublish
<1>7. CASE HostStore \/ UNCHANGED vars \/ \E l \in Lanes : LaneStep(l)
  BY <1>7, ZenonT(60) DEF HostStore, vars, LaneStep, Prologue, Observe, LoadTenant, LoadMask,
     Claim, Bind, Dispatch, NopBody, StoreBody, ShutdownBody, FenceEpoch, FenceTag, Tally,
     MarkDone, hostVars
<1>8. QED
  BY <1>4, <1>5, <1>6, <1>7 DEF Next, Publish

\* The host goes on to its next ticket in a store only.
LEMMA HostMoves ==
  ASSUME IInv, [Next]_vars
  PROVE  host'.ticket = host.ticket \/ HostStore
BY ZenonT(60) DEF Next, Publish, PublishSlot, PublishWorkItems, BatchPublish, PublishWindow,
   LaneStep, Prologue, Observe, LoadTenant, LoadMask, Claim, Bind, Dispatch, NopBody, StoreBody,
   ShutdownBody, FenceEpoch, FenceTag, Tally, MarkDone, hostVars, vars, IInv, TypeOK

\* The words of every slot have their types.
LEMMA RingTyped == IInv => ring \in [Slots -> SlotWords]
BY Zenon DEF IInv, TypeOK, SlotWords

\* Whether publication t has been dispatched, or is still on its way to be.
Accounted(t) == runs[t] = 1 \/ (runs[t] = 0 /\ Outstanding(t))

\* A publication whose slot is PUBLISHED stays outstanding: only a lane's
\* compare-exchange takes it, and that lane is then about to dispatch it.
LEMMA PublishedStep ==
  ASSUME IInv, [Next]_vars, NEW s \in Slots, ring[s].status = "PUBLISHED"
  PROVE  \/ ring'[s].status = "PUBLISHED"
         \/ \E l \in Lanes : LaneSlot[l] = s /\ pc'[l] \in {"bind", "dispatch"}
<1>1. CASE ring'[s].status = ring[s].status
  BY <1>1
<1>2. ASSUME NEW l \in Lanes, LaneSlot[l] = s, Claim(l)
      PROVE  pc'[l] = "bind"
  BY <1>2, Zenon DEF Claim, Goto, IInv, TypeOK
<1>3. ASSUME NEW l \in Lanes, LaneSlot[l] = s, MarkDone(l)
      PROVE  FALSE
  <2>1. pc[l] \in OwnerPcs
    BY <1>3 DEF MarkDone, OwnerPcs
  <2>2. QED
    BY <1>3, <2>1, OwnedSlot
<1>4. \/ ring'[s].status = ring[s].status
      \/ \E l \in Lanes : LaneSlot[l] = s /\ (Claim(l) \/ MarkDone(l))
  <2>1. ring[s].status \in {"PUBLISHED", "CLAIMED"}
    OBVIOUS
  <2>2. QED
    BY <2>1, InFlightStep, Zenon
<1>5. QED
  BY <1>1, <1>2, <1>3, <1>4, Zenon

\* The lane that is to dispatch a publication stays where it is, loads the
\* words, or dispatches that publication.
LEMMA OwnerStep ==
  ASSUME IInv, [Next]_vars, NEW l \in Lanes, pc[l] \in {"bind", "dispatch"}
  PROVE  \/ pc'[l] \in {"bind", "dispatch"}
         \/ runs'[ring[LaneSlot[l]].args] = 1
<1>1. CASE ~LaneStep(l)
  BY <1>1, OneLaneMoves
<1>2. CASE Bind(l)
  BY <1>2, Zenon DEF Bind, Goto, IInv, TypeOK
<1>3. CASE Dispatch(l)
  <2>1. pc[l] \in OwnerPcs
    BY DEF OwnerPcs
  <2>2. ring[LaneSlot[l]].args \in Tickets
    BY <2>1, OwnedSlot
  <2>3. reg[l].args = ring[LaneSlot[l]].args /\ runs[ring[LaneSlot[l]].args] = 0
    BY <1>3 DEF Dispatch, IInv, LaneInv, OwnerPcs
  <2>4. QED
    BY <1>3, <2>2, <2>3 DEF Dispatch
<1>4. CASE LaneStep(l) /\ ~Bind(l) /\ ~Dispatch(l)
  BY <1>4, Zenon DEF LaneStep, Prologue, Observe, LoadTenant, LoadMask, Claim, NopBody,
     StoreBody, ShutdownBody, FenceEpoch, FenceTag, Tally, MarkDone
<1>5. QED
  BY <1>1, <1>2, <1>3, <1>4

\* Publication t stays accounted for in every step.
LEMMA AccountedStep ==
  ASSUME IInv, IInv', [Next]_vars, NEW t \in Tickets, t < host.ticket, Accounted(t)
  PROVE  Accounted(t)'
<1>1. runs'[t] \in {0, 1} /\ runs'[t] >= runs[t]
  <2>1. runs[t] \in Nat /\ runs'[t] \in Nat /\ runs'[t] <= 1
    BY DEF IInv, TypeOK, RunsAtMostOnce
  <2>2. ASSUME NEW l \in Lanes, Dispatch(l) PROVE runs'[t] >= runs[t]
    BY <2>1, <2>2 DEF Dispatch
  <2>3. runs' = runs \/ \E l \in Lanes : Dispatch(l)
    BY ZenonT(60) DEF Next, Publish, PublishSlot, PublishWorkItems, BatchPublish, PublishWindow,
       HostStore, LaneStep, Prologue, Observe, LoadTenant, LoadMask, Claim, Bind, NopBody,
       StoreBody, ShutdownBody, FenceEpoch, FenceTag, Tally, MarkDone, vars
  <2>4. QED
    BY <2>1, <2>2, <2>3
<1>2. CASE runs'[t] = 1
  BY <1>2 DEF Accounted
<1>3. CASE runs'[t] = 0
  <2>1. PICK s : s = published[t].slot
    BY Zenon
  <2>2. ring[s].args = t
        /\ (\/ ring[s].status = "PUBLISHED"
            \/ \E l \in Lanes : LaneSlot[l] = s /\ pc[l] \in {"bind", "dispatch"})
    <3>1. runs[t] = 0
      BY <1>1, <1>3 DEF IInv, TypeOK
    <3>2. QED
      BY <3>1, <2>1 DEF Accounted, Outstanding
  <2>3. published'[t] = published[t] /\ s \in Slots
    <3>0. host \in [issued : 0 .. MaxTickets, ticket : 1 .. MaxTickets + 1, word : 1 .. 4]
      BY DEF IInv, TypeOK
    <3>1. t <= host.issued
      BY <3>0, BoundsAssumption DEF IInv, HostInv, Tickets
    <3>2. published[t] \in Payload
      BY DEF IInv, TypeOK
    <3>3. QED
      BY <3>1, <3>2, <2>1, IssuedKept DEF Payload
  <2>4. ring[s].status \in {"PUBLISHED", "CLAIMED"}
    <3>1. ASSUME NEW l \in Lanes, LaneSlot[l] = s, pc[l] \in {"bind", "dispatch"}
          PROVE  ring[s].status = "CLAIMED"
      BY <3>1, OwnedSlot DEF OwnerPcs
    <3>2. QED
      BY <2>2, <3>1
  <2>5. ring'[s].args = t
    <3>1. ring[s] \in SlotWords
      BY <2>3, RingTyped
    <3>2. ring'[s] = [ring[s] EXCEPT !.status = ring'[s].status]
      BY <2>3, <2>4, InFlightStep
    <3>3. QED
      BY <2>2, <3>1, <3>2 DEF SlotWords
  <2>6. \/ ring'[s].status = "PUBLISHED"
        \/ \E l \in Lanes : LaneSlot[l] = s /\ pc'[l] \in {"bind", "dispatch"}
    <3>1. ASSUME NEW l \in Lanes, LaneSlot[l] = s, pc[l] \in {"bind", "dispatch"}
          PROVE  pc'[l] \in {"bind", "dispatch"}
      BY <1>3, <2>2, <3>1, OwnerStep
    <3>2. QED
      BY <2>2, <2>3, <3>1, PublishedStep
  <2>7. QED
    BY <1>3, <2>1, <2>3, <2>5, <2>6 DEF Accounted, Outstanding
<1>4. QED
  BY <1>1, <1>2, <1>3

\* The host finishes a publication only with the store of its status word, and
\* the publication is then in its slot, whole, and has not run.
LEMMA FinishedStep ==
  ASSUME IInv, IInv', [Next]_vars, NEW t \in Tickets, ~(t < host.ticket), t < host.ticket'
  PROVE  Accounted(t)'
<1>0. host \in [issued : 0 .. MaxTickets, ticket : 1 .. MaxTickets + 1, word : 1 .. 4]
  BY DEF IInv, TypeOK
<1>1. HostStore
  BY HostMoves
<1>2. host.word = 4 /\ t = host.ticket
  <2>1. host' = IF host.word < 4 THEN [host EXCEPT !.word = @ + 1]
                                 ELSE [host EXCEPT !.ticket = @ + 1, !.word = 1]
    BY <1>1 DEF HostStore
  <2>2. t \in Nat /\ MaxTickets \in Nat
    BY BoundsAssumption DEF Tickets
  <2>3. QED
    BY <1>0, <2>1, <2>2
<1>3. PICK s : s = published[t].slot
  BY Zenon
<1>4. s \in Slots /\ ring[s] \in SlotWords /\ ring[s].args = t /\ runs[t] = 0
  <2>1. s \in Slots
    <3>1. published[t] \in Payload
      BY DEF IInv, TypeOK
    <3>2. QED
      BY <1>3, <3>1 DEF Payload
  <2>2. ring[s] \in SlotWords
    BY <2>1, RingTyped
  <2>3. t <= host.issued
    BY <1>0, <1>1, <1>2 DEF HostStore, HostIdle
  <2>4. QED
    BY <1>0, <1>2, <1>3, <2>1, <2>2, <2>3 DEF IInv, HostInv
<1>5. ring'[s] = [ring[s] EXCEPT !.status = "PUBLISHED"]
  <2>1. ring'[s] = StoreWord(ring[s], WordOrder[host.word], host.ticket)
    BY <1>1, <1>2, <1>3, <1>4, Zenon DEF HostStore, IInv, TypeOK
  <2>2. WordOrder[host.word] = "status"
    BY <1>2 DEF WordOrder
  <2>3. QED
    BY <2>1, <2>2 DEF StoreWord
<1>6. published' = published /\ runs' = runs
  BY <1>1 DEF HostStore
<1>7. QED
  BY <1>3, <1>4, <1>5, <1>6 DEF Accounted, Outstanding, SlotWords

\* Every publication is executed exactly once: a publication the host has
\* finished is outstanding until a lane dispatches it, no recycling of slots
\* and no race of lanes loses it, and none repeats it (publish_slot_validated,
\* the compare-exchange of tenant_authorized_claim_body).
THEOREM ExactlyOnce == Spec => []RunsExactlyOnce
<1>1. Init => RunsExactlyOnce
  BY DEF Init, RunsExactlyOnce
<1>2. IInv /\ IInv' /\ RunsExactlyOnce /\ [Next]_vars => RunsExactlyOnce'
  <2> SUFFICES ASSUME IInv, IInv', RunsExactlyOnce, [Next]_vars, NEW t \in Tickets
               PROVE  IF t < host.ticket' THEN Accounted(t)' ELSE runs'[t] = 0
    BY Zenon DEF RunsExactlyOnce, Accounted
  <2>1. CASE t < host.ticket
    <3>1. Accounted(t)
      BY <2>1 DEF RunsExactlyOnce, Accounted
    <3>2. t < host.ticket'
      <4>1. host'.ticket >= host.ticket
        <5>1. host.ticket \in Nat /\ host.word \in Nat
          BY DEF IInv, TypeOK
        <5>2. CASE HostStore
          BY <5>1, <5>2 DEF HostStore, IInv, TypeOK
        <5>3. QED
          BY <5>1, <5>2, HostMoves
      <4>2. QED
        BY <2>1, <4>1 DEF IInv, TypeOK
    <3>3. QED
      BY <2>1, <3>1, <3>2, AccountedStep
  <2>2. CASE ~(t < host.ticket) /\ t < host.ticket'
    BY <2>2, FinishedStep
  <2>3. CASE ~(t < host.ticket')
    <3>1. t >= host'.ticket
      BY <2>3 DEF IInv, TypeOK
    <3>2. QED
      BY <2>3, <3>1 DEF IInv, HostInv
  <2>4. QED
    BY <2>1, <2>2, <2>3
<1>3. QED
  BY <1>1, <1>2, Invariance, PTL DEF Spec
-----------------------------------------------------------------------------
(* Tenants *)

\* With one lane per slot, a lane that has seen its slot PUBLISHED finds it
\* PUBLISHED, by the same tenant, when it gets to the compare-exchange.
AuthInv ==
  /\ AuthorisedTenantRuns
  /\ \A l \in Lanes : pc[l] \in {"tenant", "mask", "claim"} =>
       ring[LaneSlot[l]].status = "PUBLISHED"

\* A lane that does not move keeps its view of its slot, since no other lane
\* polls that slot and the host leaves it alone.
LEMMA AuthOtherLane ==
  ASSUME OneLanePolls, IInv, AuthInv, [Next]_vars, NEW m \in Lanes,
         pc'[m] = pc[m], reg'[m] = reg[m],
         pc[m] \in OwnerPcs \cup {"tenant", "mask", "claim"}
  PROVE  /\ pc[m] # "tenant" => reg'[m].tenant = ring'[LaneSlot[m]].tenant
         /\ pc[m] \in {"tenant", "mask", "claim"} => ring'[LaneSlot[m]].status = "PUBLISHED"
<1> DEFINE s == LaneSlot[m]
<1>1. s \in Slots /\ ring[s] \in SlotWords /\ ring[s].status \in {"PUBLISHED", "CLAIMED"}
  BY OwnedSlot, Zenon DEF AuthInv, IInv, TypeOK, SlotWords
<1>2. /\ ring'[s] = [ring[s] EXCEPT !.status = ring'[s].status]
      /\ \/ ring'[s].status = ring[s].status
         \/ \E l \in Lanes : LaneSlot[l] = s /\ (Claim(l) \/ MarkDone(l))
  BY <1>1, InFlightStep
<1>3. ~(Claim(m) \/ MarkDone(m))
  BY DEF Claim, MarkDone, Goto, IInv, TypeOK
<1>4. ring'[s].status = ring[s].status
  BY <1>2, <1>3 DEF OneLanePolls
<1>5. ring'[s].tenant = ring[s].tenant
  BY <1>1, <1>2 DEF SlotWords
<1> QED
  BY <1>4, <1>5 DEF AuthInv, AuthorisedTenantRuns

\* A lane that moves loads the tenant, the mask and the status of one
\* publication.
LEMMA AuthOwnStep ==
  ASSUME IInv, AuthInv, NEW m \in Lanes, LaneStep(m)
  PROVE  /\ pc'[m] \in OwnerPcs \cup {"mask", "claim"} =>
              reg'[m].tenant = ring'[LaneSlot[m]].tenant
         /\ pc'[m] \in {"tenant", "mask", "claim"} => ring'[LaneSlot[m]].status = "PUBLISHED"
<1> USE DEF Goto
<1> DEFINE s == LaneSlot[m]
<1>0. /\ s \in Slots /\ ring[s] \in SlotWords /\ reg[m] \in Registers
      /\ pc \in [Lanes -> LanePcs] /\ reg \in [Lanes -> Registers]
      /\ ring \in [Slots -> SlotWords]
  BY DEF IInv, TypeOK, SlotWords, Registers
<1>1. CASE Prologue(m) \/ MarkDone(m)
  BY <1>0, <1>1 DEF Prologue, MarkDone, OwnerPcs
<1>2. CASE Observe(m)
  BY <1>0, <1>2 DEF Observe, OwnerPcs
<1>3. CASE LoadTenant(m)
  <2>1. pc[m] = "tenant" /\ pc'[m] = "mask" /\ ring' = ring
    BY <1>0, <1>3 DEF LoadTenant
  <2>2. reg'[m].tenant = ring[s].tenant
    BY <1>0, <1>3 DEF LoadTenant, Registers
  <2> QED
    BY <2>1, <2>2, Zenon DEF AuthInv, OwnerPcs
<1>4. CASE LoadMask(m)
  BY <1>0, <1>4 DEF LoadMask, AuthInv, AuthorisedTenantRuns, OwnerPcs
<1>5. CASE Claim(m)
  <2>1. reg' = reg /\ pc[m] = "claim" /\ pc'[m] \notin {"tenant", "mask", "claim"}
    BY <1>0, <1>5 DEF Claim
  <2>2. ring'[s].tenant = ring[s].tenant
    <3>1. ring' = ring \/ ring' = [ring EXCEPT ![s] = [ring[s] EXCEPT !.status = "CLAIMED"]]
      BY <1>5 DEF Claim
    <3> QED
      BY <3>1, <1>0 DEF SlotWords
  <2> QED
    BY <2>1, <2>2 DEF AuthInv, AuthorisedTenantRuns
<1>6. CASE Bind(m)
  <2>1. pc[m] \in OwnerPcs /\ pc'[m] = "dispatch" /\ ring' = ring
    BY <1>0, <1>6 DEF Bind, OwnerPcs
  <2>2. reg'[m].tenant = reg[m].tenant
    BY <1>0, <1>6 DEF Bind, Registers
  <2> QED
    BY <2>1, <2>2 DEF AuthInv, AuthorisedTenantRuns
<1>7. CASE \/ Dispatch(m) \/ NopBody(m) \/ StoreBody(m) \/ ShutdownBody(m)
           \/ FenceEpoch(m) \/ FenceTag(m) \/ Tally(m)
  <2>1. /\ pc[m] \in OwnerPcs /\ pc'[m] \notin {"tenant", "mask", "claim"}
        /\ ring' = ring /\ reg' = reg
    BY <1>0, <1>7 DEF Dispatch, NopBody, StoreBody, ShutdownBody, FenceEpoch, FenceTag,
                      Tally, OwnerPcs
  <2> QED
    BY <2>1 DEF AuthInv, AuthorisedTenantRuns
<1> QED
  BY <1>1, <1>2, <1>3, <1>4, <1>5, <1>6, <1>7, Zenon DEF LaneStep

\* Every step preserves the agreement between a lane's tenant and its slot.
LEMMA AuthStep ==
  ASSUME OneLanePolls, IInv, AuthInv, [Next]_vars
  PROVE  AuthInv'
<1> SUFFICES ASSUME NEW m \in Lanes
             PROVE  /\ pc'[m] \in OwnerPcs \cup {"mask", "claim"} =>
                         reg'[m].tenant = ring'[LaneSlot[m]].tenant
                    /\ pc'[m] \in {"tenant", "mask", "claim"} =>
                         ring'[LaneSlot[m]].status = "PUBLISHED"
  BY DEF AuthInv, AuthorisedTenantRuns
<1>1. CASE LaneStep(m)
  BY <1>1, AuthOwnStep
<1>2. CASE ~LaneStep(m)
  <2>1. pc'[m] = pc[m] /\ reg'[m] = reg[m]
    BY <1>2, OneLaneMoves
  <2> QED
    BY <2>1, AuthOtherLane DEF OwnerPcs
<1> QED
  BY <1>1, <1>2

\* Under the launch geometry of execution.rs, one lane per slot, the tenant
\* whose mask word authorised a lane is the tenant of the work it executes,
\* although id, mask and status are three separate loads.
THEOREM TenantAuthorised ==
  ASSUME OneLanePolls
  PROVE  Spec => []AuthorisedTenantRuns
<1>1. Init => AuthInv
  BY DEF Init, AuthInv, AuthorisedTenantRuns, OwnerPcs
<1>2. IInv /\ AuthInv /\ [Next]_vars => AuthInv'
  BY AuthStep
<1>3. AuthInv => AuthorisedTenantRuns
  BY DEF AuthInv
<1> QED
  BY <1>1, <1>2, <1>3, Invariance, PTL DEF Spec
-----------------------------------------------------------------------------
(* The counters of the control buffer *)

\* The publications of some opcodes that have been dispatched, and the lanes
\* that are at some program points with one of them.
Executed(ops) == {t \in Tickets : runs[t] > 0 /\ published[t].opcode \in ops}
Inside(pcs, ops) == {l \in Lanes : pc[l] \in pcs /\ reg[l].opcode \in ops}

InBody == {"body", "observable", "tally"}

\* Both are finite.
LEMMA FiniteCounts ==
  ASSUME NEW pcs, NEW ops
  PROVE  /\ IsFiniteSet(Executed(ops)) /\ Cardinality(Executed(ops)) \in Nat
         /\ IsFiniteSet(Inside(pcs, ops)) /\ Cardinality(Inside(pcs, ops)) \in Nat
<1>1. IsFiniteSet(Executed(ops))
  <2>1. IsFiniteSet(1 .. MaxTickets)
    BY FS_Interval
  <2>2. Executed(ops) \in SUBSET (1 .. MaxTickets)
    BY DEF Executed
  <2>3. QED
    BY <2>1, <2>2, FS_Subset
<1>2. IsFiniteSet(Inside(pcs, ops))
  <2>1. Inside(pcs, ops) \in SUBSET Lanes
    BY DEF Inside
  <2>2. QED
    BY <2>1, LanesAssumption, FS_Subset
<1>3. QED
  BY <1>1, <1>2, FS_CardinalityType

\* When one lane moves, the lanes that are counted stay the same, ...
LEMMA LaneStays ==
  ASSUME NEW l \in Lanes, NEW pcs, NEW ops,
         \A m \in Lanes \ {l} : pc'[m] = pc[m] /\ reg'[m] = reg[m],
         (pc[l] \in pcs /\ reg[l].opcode \in ops) <=> (pc'[l] \in pcs /\ reg'[l].opcode \in ops)
  PROVE  Inside(pcs, ops)' = Inside(pcs, ops)
BY DEF Inside

\* ... lose that lane, ...
LEMMA LaneLeaves ==
  ASSUME NEW l \in Lanes, NEW pcs, NEW ops,
         \A m \in Lanes \ {l} : pc'[m] = pc[m] /\ reg'[m] = reg[m],
         pc[l] \in pcs /\ reg[l].opcode \in ops, ~(pc'[l] \in pcs /\ reg'[l].opcode \in ops)
  PROVE  Cardinality(Inside(pcs, ops)') = Cardinality(Inside(pcs, ops)) - 1
<1>1. Inside(pcs, ops)' = Inside(pcs, ops) \ {l} /\ l \in Inside(pcs, ops)
  BY DEF Inside
<1>2. QED
  BY <1>1, FiniteCounts, FS_RemoveElement, Zenon

\* ... or gain it.
LEMMA LaneEnters ==
  ASSUME NEW l \in Lanes, NEW pcs, NEW ops,
         \A m \in Lanes \ {l} : pc'[m] = pc[m] /\ reg'[m] = reg[m],
         ~(pc[l] \in pcs /\ reg[l].opcode \in ops), pc'[l] \in pcs /\ reg'[l].opcode \in ops
  PROVE  Cardinality(Inside(pcs, ops)') = Cardinality(Inside(pcs, ops)) + 1
<1>1. Inside(pcs, ops)' = Inside(pcs, ops) \cup {l} /\ l \notin Inside(pcs, ops)
  BY DEF Inside
<1>2. QED
  BY <1>1, FiniteCounts, FS_AddElement, Zenon

\* What CountersAgree says, in these terms.
Agreement ==
  /\ control.done_count + Cardinality(Inside(InBody, OpcodeNames))
       = Cardinality(Executed(OpcodeNames))
  /\ control.epoch + Cardinality(Inside({"body"}, {"BATCH_FENCE"}))
       = Cardinality(Executed({"BATCH_FENCE"}))
  /\ \A o \in Metered : metrics[o] = Cardinality(Executed({o}))

\* The steps that dispatch nothing and meet no counter.
LEMMA UncountedSteps ==
  ASSUME IInv, Agreement, NEW l \in Lanes,
         \/ Prologue(l) \/ Observe(l) \/ LoadTenant(l) \/ LoadMask(l) \/ Claim(l) \/ Bind(l)
         \/ NopBody(l) \/ StoreBody(l) \/ ShutdownBody(l) \/ FenceTag(l) \/ MarkDone(l)
  PROVE  Agreement'
<1> USE DEF Goto, hostVars
<1>0. pc \in [Lanes -> LanePcs] /\ reg \in [Lanes -> Registers]
  BY DEF IInv, TypeOK, Registers
<1>1. \A m \in Lanes \ {l} : pc'[m] = pc[m] /\ reg'[m] = reg[m]
  BY <1>0 DEF Prologue, Observe, LoadTenant, LoadMask, Claim, Bind, NopBody, StoreBody,
              ShutdownBody, FenceTag, MarkDone
<1>2. /\ UNCHANGED <<metrics, published, runs>>
      /\ control'.done_count = control.done_count /\ control'.epoch = control.epoch
  BY DEF Prologue, Observe, LoadTenant, LoadMask, Claim, Bind, NopBody, StoreBody,
         ShutdownBody, FenceTag, MarkDone, IInv, TypeOK
<1>3. \A ops : Executed(ops)' = Executed(ops)
  BY <1>2 DEF Executed
<1>4. Inside(InBody, OpcodeNames)' = Inside(InBody, OpcodeNames)
  <2>1. (pc[l] \in InBody <=> pc'[l] \in InBody) /\ reg[l].opcode \in OpcodeNames
    BY <1>0 DEF Prologue, Observe, LoadTenant, LoadMask, Claim, Bind, NopBody, StoreBody,
                ShutdownBody, FenceTag, MarkDone, InBody, Registers
  <2>2. pc[l] \in InBody => reg'[l] = reg[l]
    BY <1>0 DEF Prologue, Observe, LoadTenant, LoadMask, Claim, Bind, NopBody, StoreBody,
                ShutdownBody, FenceTag, MarkDone, InBody
  <2>3. QED
    BY <1>1, <2>1, <2>2, LaneStays, Zenon
<1>5. Inside({"body"}, {"BATCH_FENCE"})' = Inside({"body"}, {"BATCH_FENCE"})
  <2>1. /\ pc'[l] # "body"
        /\ pc[l] = "body" => reg[l].opcode # "BATCH_FENCE"
    BY <1>0 DEF Prologue, Observe, LoadTenant, LoadMask, Claim, Bind, NopBody, StoreBody,
                ShutdownBody, FenceTag, MarkDone
  <2>2. QED
    BY <1>1, <2>1, LaneStays, Zenon
<1>6. QED
  BY <1>2, <1>3, <1>4, <1>5 DEF Agreement

\* The two steps that count: the epoch when a lane leaves the first half of a
\* fence, DONE_COUNT when it leaves the body.
LEMMA CountedSteps ==
  ASSUME IInv, Agreement, NEW l \in Lanes, FenceEpoch(l) \/ Tally(l)
  PROVE  Agreement'
<1> USE DEF Goto, hostVars
<1>0. /\ pc \in [Lanes -> LanePcs] /\ reg[l].opcode \in OpcodeNames
      /\ control.done_count \in Nat /\ control.epoch \in Nat
  BY DEF IInv, TypeOK
<1>1. UNCHANGED <<reg, metrics, published, runs>> /\ \A m \in Lanes \ {l} : pc'[m] = pc[m]
  BY <1>0 DEF FenceEpoch, Tally
<1>2. \A ops : Executed(ops)' = Executed(ops)
  BY <1>1 DEF Executed
<1>3. /\ Cardinality(Inside(InBody, OpcodeNames)) \in Nat
      /\ Cardinality(Inside({"body"}, {"BATCH_FENCE"})) \in Nat
  BY FiniteCounts
<1>4. CASE FenceEpoch(l)
  <2>1. /\ pc[l] = "body" /\ pc'[l] = "observable" /\ reg[l].opcode = "BATCH_FENCE"
        /\ control'.done_count = control.done_count /\ control'.epoch = control.epoch + 1
    BY <1>0, <1>4 DEF FenceEpoch, IInv, TypeOK
  <2>2. Inside(InBody, OpcodeNames)' = Inside(InBody, OpcodeNames)
    <3>1. pc[l] \in InBody /\ pc'[l] \in InBody
      BY <2>1 DEF InBody
    <3>2. QED
      BY <1>1, <3>1, LaneStays, Zenon
  <2>3. Cardinality(Inside({"body"}, {"BATCH_FENCE"})')
          = Cardinality(Inside({"body"}, {"BATCH_FENCE"})) - 1
    BY <1>1, <2>1, LaneLeaves, Zenon
  <2>4. control'.epoch + Cardinality(Inside({"body"}, {"BATCH_FENCE"})')
          = control.epoch + Cardinality(Inside({"body"}, {"BATCH_FENCE"}))
    BY <1>0, <1>3, <2>1, <2>3
  <2>5. QED
    BY <1>1, <1>2, <2>1, <2>2, <2>4, Zenon DEF Agreement
<1>5. CASE Tally(l)
  <2>1. /\ pc[l] = "tally" /\ pc'[l] = "mark"
        /\ control'.done_count = control.done_count + 1 /\ control'.epoch = control.epoch
    BY <1>0, <1>5 DEF Tally, IInv, TypeOK
  <2>2. Cardinality(Inside(InBody, OpcodeNames)') = Cardinality(Inside(InBody, OpcodeNames)) - 1
    <3>1. pc[l] \in InBody /\ pc'[l] \notin InBody
      BY <2>1 DEF InBody
    <3>2. QED
      BY <1>0, <1>1, <3>1, LaneLeaves, Zenon
  <2>3. Inside({"body"}, {"BATCH_FENCE"})' = Inside({"body"}, {"BATCH_FENCE"})
    BY <1>1, <2>1, LaneStays, Zenon
  <2>4. control'.done_count + Cardinality(Inside(InBody, OpcodeNames)')
          = control.done_count + Cardinality(Inside(InBody, OpcodeNames))
    BY <1>0, <1>3, <2>1, <2>2
  <2>5. QED
    BY <1>1, <1>2, <2>1, <2>3, <2>4, Zenon DEF Agreement
<1>6. QED
  BY <1>4, <1>5

\* A dispatch makes its ticket one that has run, in the metric of its opcode
\* and with its lane in the body.
LEMMA DispatchCounts ==
  ASSUME IInv, Agreement, NEW l \in Lanes, Dispatch(l)
  PROVE  Agreement'
<1> USE DEF Goto, hostVars
<1> DEFINE t0 == reg[l].args
           o0 == reg[l].opcode
<1>1. /\ pc[l] = "dispatch" /\ pc'[l] = "body" /\ UNCHANGED <<control, reg, published>>
      /\ \A m \in Lanes \ {l} : pc'[m] = pc[m]
      /\ o0 \in OpcodeNames /\ control.done_count \in Nat /\ control.epoch \in Nat
      /\ \A o \in Metered : metrics[o] \in Nat
      /\ \A o \in Metered : metrics'[o] = metrics[o] + (IF o = o0 THEN 1 ELSE 0)
  BY DEF Dispatch, IInv, TypeOK
<1>2. t0 \in Tickets /\ runs[t0] = 0 /\ published[t0].opcode = o0
  <2>1. /\ pc[l] \in OwnerPcs /\ t0 = ring[LaneSlot[l]].args /\ o0 = ring[LaneSlot[l]].opcode
        /\ runs[t0] = 0
    BY <1>1 DEF IInv, LaneInv, OwnerPcs
  <2>2. LaneSlot[l] \in Slots /\ ring[LaneSlot[l]].status = "CLAIMED" /\ t0 \in Tickets
    BY <2>1, OwnedSlot
  <2>3. QED
    <3>1. published[ring[LaneSlot[l]].args].opcode = ring[LaneSlot[l]].opcode
      BY <2>2, Zenon DEF IInv, SlotInv
    <3>2. QED
      BY <2>1, <2>2, <3>1, Zenon
<1>3. runs'[t0] = 1 /\ \A t \in Tickets : t # t0 => runs'[t] = runs[t]
  BY <1>2 DEF Dispatch, IInv, TypeOK
<1>4. ASSUME NEW ops
      PROVE  Cardinality(Executed(ops)') =
               Cardinality(Executed(ops)) + (IF o0 \in ops THEN 1 ELSE 0)
  <2>1. t0 \notin Executed(ops)
    BY <1>2 DEF Executed
  <2>2. CASE o0 \in ops
    <3>1. Executed(ops)' = Executed(ops) \cup {t0}
      BY <1>1, <1>2, <1>3, <2>2 DEF Executed
    <3>2. QED
      BY <2>1, <2>2, <3>1, FiniteCounts, FS_AddElement, Zenon
  <2>3. CASE o0 \notin ops
    <3>1. Executed(ops)' = Executed(ops)
      BY <1>1, <1>2, <1>3, <2>3 DEF Executed
    <3>2. QED
      BY <2>3, <3>1, FiniteCounts
  <2>4. QED
    BY <2>2, <2>3
<1>5. /\ Cardinality(Inside(InBody, OpcodeNames)) \in Nat
      /\ Cardinality(Inside({"body"}, {"BATCH_FENCE"})) \in Nat
      /\ \A ops : Cardinality(Executed(ops)) \in Nat
  BY FiniteCounts
<1>a. /\ \A m \in Lanes \ {l} : pc'[m] = pc[m] /\ reg'[m] = reg[m]
      /\ pc[l] = "dispatch" /\ pc'[l] = "body" /\ reg'[l].opcode = reg[l].opcode
  BY <1>1
<1>6. Cardinality(Inside(InBody, OpcodeNames)') = Cardinality(Inside(InBody, OpcodeNames)) + 1
  <2>1. pc[l] \notin InBody /\ pc'[l] \in InBody /\ reg'[l].opcode \in OpcodeNames
    BY <1>1 DEF InBody
  <2>2. QED
    BY <1>a, <2>1, LaneEnters, Zenon
<1>7. Cardinality(Inside({"body"}, {"BATCH_FENCE"})')
        = Cardinality(Inside({"body"}, {"BATCH_FENCE"}))
          + (IF o0 = "BATCH_FENCE" THEN 1 ELSE 0)
  <2>1. CASE o0 = "BATCH_FENCE"
    <3>1. /\ ~(pc[l] \in {"body"} /\ reg[l].opcode \in {"BATCH_FENCE"})
          /\ pc'[l] \in {"body"} /\ reg'[l].opcode \in {"BATCH_FENCE"}
      BY <1>a, <2>1
    <3>2. QED
      BY <1>a, <2>1, <3>1, LaneEnters, Zenon
  <2>2. CASE o0 # "BATCH_FENCE"
    <3>1. Inside({"body"}, {"BATCH_FENCE"})' = Inside({"body"}, {"BATCH_FENCE"})
      BY <1>a, <2>2, LaneStays, Zenon
    <3>2. QED
      BY <1>5, <2>2, <3>1
  <2>3. QED
    BY <2>1, <2>2
<1> HIDE DEF o0
<1>8. control.done_count + Cardinality(Inside(InBody, OpcodeNames)')
        = Cardinality(Executed(OpcodeNames)')
  BY <1>1, <1>4, <1>5, <1>6 DEF Agreement
<1>9. control.epoch + Cardinality(Inside({"body"}, {"BATCH_FENCE"})')
        = Cardinality(Executed({"BATCH_FENCE"})')
  BY <1>1, <1>4, <1>5, <1>7 DEF Agreement
<1>10. \A o \in Metered : metrics'[o] = Cardinality(Executed({o})')
  BY <1>1, <1>4, <1>5, ZenonT(60) DEF Agreement
<1>11. QED
  BY <1>1, <1>8, <1>9, <1>10 DEF Agreement

\* A publication issues tickets, which have not run, and a store of the host
\* meets no counter.
LEMMA HostCounts ==
  ASSUME IInv, Agreement, Publish \/ HostStore
  PROVE  Agreement'
<1>1. UNCHANGED <<control, metrics, pc, reg, runs>>
  BY ZenonT(60) DEF Publish, PublishSlot, PublishWorkItems, BatchPublish, PublishWindow, HostStore, laneVars
<1>2. ASSUME NEW t \in Tickets, runs[t] > 0 PROVE published'[t] = published[t]
  <2>1. host.ticket \in Nat /\ host.issued \in Nat /\ t <= host.issued
    <3>1. host.ticket \in Nat /\ host.issued \in Nat /\ runs[t] \in Nat
      BY DEF IInv, TypeOK
    <3>2. host.ticket <= host.issued + 1 /\ (t >= host.ticket => runs[t] = 0)
      BY DEF IInv, HostInv
    <3>3. QED
      BY <1>2, <3>1, <3>2
  <2>2. [Next]_vars
    BY DEF Next
  <2>3. QED
    BY <2>1, <2>2, IssuedKept
<1>3. \A ops : Executed(ops)' = Executed(ops)
  BY <1>1, <1>2 DEF Executed
<1>4. \A pcs, ops : Inside(pcs, ops)' = Inside(pcs, ops)
  BY <1>1 DEF Inside
<1>5. QED
  BY <1>1, <1>3, <1>4 DEF Agreement

\* The counters agree in every reachable state.
LEMMA AlwaysAgree == Spec => []Agreement
<1>1. Init => Agreement
  <2> SUFFICES ASSUME Init PROVE Agreement
    OBVIOUS
  <2>1. \A ops : Executed(ops) = {}
    BY DEF Init, Executed
  <2>2. \A ops : Inside(InBody, ops) = {} /\ Inside({"body"}, ops) = {}
    BY DEF Init, Inside, InBody
  <2>3. /\ \A ops : Cardinality(Executed(ops)) = 0
        /\ \A ops : Cardinality(Inside(InBody, ops)) = 0 /\ Cardinality(Inside({"body"}, ops)) = 0
    BY <2>1, <2>2, FS_EmptySet, Zenon
  <2>4. control.done_count = 0 /\ control.epoch = 0 /\ \A o \in Metered : metrics[o] = 0
    BY DEF Init
  <2>5. QED
    BY <2>3, <2>4 DEF Agreement
<1>2. ASSUME IInv, Agreement, [Next]_vars PROVE Agreement'
  <2>1. ASSUME NEW l \in Lanes, LaneStep(l) PROVE Agreement'
    BY <1>2, <2>1, UncountedSteps, CountedSteps, DispatchCounts DEF LaneStep
  <2>2. CASE UNCHANGED vars
    BY <1>2, <2>2 DEF vars, Agreement, Executed, Inside
  <2>3. QED
    BY <1>2, <2>1, <2>2, HostCounts DEF Next
<1>3. QED
  BY <1>1, <1>2, Invariance, PTL DEF Spec

\* The counters the host polls are exact, for every ring and launch and
\* whatever lanes race for a slot: DONE_COUNT and EPOCH are behind the
\* publications that were dispatched by the lanes still in a body or in a
\* fence, and the metrics are not behind at all (dispatch_opcode_body,
\* batch_fence_body, claimed_slot_body).
THEOREM CountersExact == Spec => []CountersAgree
<1>1. Agreement => CountersAgree
  BY DEF Agreement, CountersAgree, Executed, Inside, InBody
<1>2. QED
  BY <1>1, AlwaysAgree, PTL

\* When the counters agree, DONE_COUNT reaches the number of finished
\* publications only with the last of them.
LEMMA AgreementComplete == IInv /\ Agreement => DoneCountComplete
<1> SUFFICES ASSUME IInv, Agreement PROVE DoneCountComplete
  OBVIOUS
<1> DEFINE all == 1 .. host.ticket - 1
           ran == Executed(OpcodeNames)
           in == Inside(InBody, OpcodeNames)
<1>1. /\ host.ticket \in Nat \ {0} /\ host.ticket <= MaxTickets + 1
      /\ control.done_count \in Nat /\ published \in [Tickets -> Payload]
      /\ runs \in [Tickets -> Nat] /\ \A l \in Lanes : reg[l].opcode \in OpcodeNames
  BY DEF IInv, TypeOK
<1>2. IsFiniteSet(all) /\ Cardinality(all) = host.ticket - 1
  <2>1. 1 \in Int /\ host.ticket - 1 \in Int
    BY <1>1
  <2>2. /\ IsFiniteSet(all)
        /\ Cardinality(all) = IF 1 > host.ticket - 1 THEN 0 ELSE (host.ticket - 1) - 1 + 1
    BY <2>1, FS_Interval, Zenon
  <2>3. QED
    BY <1>1, <2>2
<1>3. ran \in SUBSET all
  <2>1. \A t \in Tickets : t >= host.ticket => runs[t] = 0
    BY Zenon DEF IInv, HostInv
  <2>2. QED
    BY <1>1, <2>1, BoundsAssumption DEF Executed, Tickets
<1>4. /\ Cardinality(ran) \in Nat /\ IsFiniteSet(in) /\ Cardinality(in) \in Nat
      /\ Cardinality(ran) <= Cardinality(all) /\ (Cardinality(all) = Cardinality(ran) => all = ran)
  <2>1. Cardinality(ran) \in Nat /\ IsFiniteSet(in) /\ Cardinality(in) \in Nat
    BY FiniteCounts, Zenon
  <2>2. QED
    BY <1>2, <1>3, <2>1, FS_Subset, Zenon
<1>5. control.done_count + Cardinality(in) = Cardinality(ran)
  BY DEF Agreement
<1>6. control.done_count <= host.ticket - 1
  BY <1>1, <1>2, <1>4, <1>5
<1>7. ASSUME control.done_count = host.ticket - 1
      PROVE  /\ \A t \in Tickets : t < host.ticket => runs[t] = 1
             /\ \A l \in Lanes : pc[l] \notin {"bind", "dispatch", "body", "observable", "tally"}
             /\ \A s \in Slots : ring[s].status # "PUBLISHED"
  <2>1. Cardinality(in) = 0 /\ all = ran
    BY <1>1, <1>2, <1>4, <1>5, <1>7
  <2>2. in = {}
    BY <1>4, <2>1, FS_EmptySet
  <2>3. ASSUME NEW t \in Tickets, t < host.ticket PROVE runs[t] = 1
    <3>1. t \in ran
      BY <1>1, <2>1, <2>3
    <3>2. runs[t] > 0 /\ runs[t] \in Nat /\ runs[t] <= 1
      BY <1>1, <3>1 DEF Executed, IInv, RunsAtMostOnce
    <3>3. QED
      BY <3>2
  <2>4. ASSUME NEW l \in Lanes PROVE pc[l] \notin InBody
    BY <1>1, <2>2 DEF Inside
  <2>5. ASSUME NEW l \in Lanes, pc[l] \in {"bind", "dispatch"} PROVE FALSE
    <3>1. pc[l] \in OwnerPcs
      BY <2>5 DEF OwnerPcs
    <3>2. ring[LaneSlot[l]].args \in Tickets /\ ring[LaneSlot[l]].args < host.ticket
      BY <3>1, OwnedSlot
    <3>3. runs[ring[LaneSlot[l]].args] = 0
      BY <2>5 DEF IInv, LaneInv
    <3>4. QED
      BY <2>3, <3>2, <3>3
  <2>6. ASSUME NEW s \in Slots, ring[s].status = "PUBLISHED" PROVE FALSE
    <3>1. ring[s].args \in 1 .. host.ticket - 1 /\ runs[ring[s].args] = 0
      BY <2>6 DEF IInv, SlotInv
    <3>2. ring[s].args \in Tickets /\ ring[s].args < host.ticket
      BY <1>1, <3>1
    <3>3. QED
      BY <2>3, <3>1, <3>2
  <2>7. QED
    BY <2>3, <2>4, <2>5, <2>6 DEF InBody
<1>8. QED
  BY <1>6, <1>7 DEF DoneCountComplete

\* DONE_COUNT never runs ahead of the publications and reaches their number
\* only when each has been executed and nothing is left to claim: the host's
\* reading of items_remaining = 0 is right, for every ring and launch.
THEOREM DoneCountExact == Spec => []DoneCountComplete
BY AgreementComplete, AlwaysAgree, Invariance, PTL
=============================================================================
