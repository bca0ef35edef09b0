------------------------ MODULE PriorityKernelProofs ------------------------
(***************************************************************************)
(* Theorems about PriorityKernel, for every ring, partition table, launch,  *)
(* stride and threshold.                                                    *)
(***************************************************************************)
EXTENDS PriorityKernel, FiniteSetTheorems, TLAPS

\* A leaf that names no prover is for the SMT solver, tried twice, and for Zenon
\* where the solver finds nothing.
USE SMTT(60), SMTT(70), Zenon

\* The remainder of a natural number.
LEMMA ModRange ==
  ASSUME NEW a \in Nat, NEW b \in Nat \ {0}
  PROVE  a % b \in 0 .. b - 1
OBVIOUS

\* The partition table the host writes by default is one the scan can rely
\* on, for every ring size (write_default_priority_offsets_array).
THEOREM DefaultTable ==
  ASSUME NEW total \in Nat
  PROVE  PartitionTable(DefaultOffsets(total), total)
<1> DEFINE q == total \div PRIORITY_LEVELS
<1> DEFINE r == total % PRIORITY_LEVELS
<1>1. q \in Nat /\ r \in 0 .. 4 /\ total = 5 * q + r
  BY DEF PRIORITY_LEVELS
<1>2. DefaultOffsets(total) =
        [p \in 0 .. 5 |-> p * q + (IF p > NORMAL THEN r ELSE 0)]
  BY DEF DefaultOffsets, PRIORITY_LEVELS
<1> HIDE DEF q, r
<1>3. QED
  BY <1>1, <1>2 DEF PartitionTable, PRIORITY_LEVELS, Levels, NORMAL

\* Every probe of a scan is of a slot of the ring.
LEMMA ProbeInRing ==
  ASSUME NEW l \in Lanes, NEW force \in BOOLEAN, NEW x \in Probes[l][force]
  PROVE  x \in Levels \X Slots /\ ScanSlot(l, x[1], x[2]) \in Slots
<1> DEFINE p == x[1]
<1> DEFINE i == x[2]
<1>1. x \in Levels \X Slots /\ p \in 0 .. 4 /\ i \in Nat /\ (l % Stride) < PartLen(p)
  BY SlotCountAssumption DEF Probes, Levels, Slots, PRIORITY_LEVELS
<1>2. l % Stride \in Nat
  BY ModRange, LanesAssumption, StrideAssumption
<1>3. /\ Offsets[p] \in 0 .. SlotCount /\ Offsets[p + 1] \in 0 .. SlotCount
      /\ PartLen(p) = Offsets[p + 1] - Offsets[p]
  BY <1>1, OffsetsAssumption DEF PartitionTable, PRIORITY_LEVELS, PartLen
<1>4. PartLen(p) \in Nat \ {0}
  BY <1>1, <1>2, <1>3, SlotCountAssumption
<1>5. (l % Stride) + i * Stride \in Nat
  BY <1>1, <1>2, StrideAssumption
<1>6. ((l % Stride) + i * Stride) % PartLen(p) \in 0 .. PartLen(p) - 1
  BY <1>4, <1>5, ModRange, Zenon
<1>7. QED
  BY <1>1, <1>3, <1>4, <1>6, SlotCountAssumption DEF ScanSlot, Slots
-----------------------------------------------------------------------------
(* Type correctness *)

\* The scan moves the lane's own registers, to another probe or to the next
\* iteration.
LEMMA ScanMoves ==
  ASSUME TypeOK, NEW l \in Lanes, NEW force \in BOOLEAN,
         NEW left \in SUBSET Probes[l][force], Scan(l, force, left)
  PROVE  /\ pc' \in [Lanes -> LanePcs]
         /\ reg' \in [Lanes -> [force : BOOLEAN, probe : Levels \X Slots,
                                slot : Slots, tenant : Tenants]]
         /\ \A m \in Lanes \ {l} : pc'[m] = pc[m] /\ reg'[m] = reg[m]
         /\ \/ pc'[l] = "prologue"
            \/ /\ pc'[l] = "probe" /\ reg'[l].force = force
               /\ force => reg'[l].probe[1] > HIGH
<1>1. CASE left = {}
  <2>1. Unbound \in [force : BOOLEAN, probe : Levels \X Slots, slot : Slots, tenant : Tenants]
    BY SlotCountAssumption, TenantAssumption DEF Unbound, Levels, Slots, PRIORITY_LEVELS
  <2>2. pc' = [pc EXCEPT ![l] = "prologue"] /\ reg' = [reg EXCEPT ![l] = Unbound]
    BY <1>1 DEF Scan, NextIteration, Goto
  <2>3. QED
    BY <2>1, <2>2 DEF TypeOK, LanePcs
<1>2. CASE left # {}
  <2>1. PICK x \in left :
          /\ reg' = [reg EXCEPT ![l] = [force |-> force, probe |-> x, tenant |-> Tenant0,
                                          slot |-> ScanSlot(l, x[1], x[2])]]
          /\ pc' = [pc EXCEPT ![l] = "probe"]
    BY <1>2 DEF Scan, Goto
  <2>2. x \in Levels \X Slots /\ ScanSlot(l, x[1], x[2]) \in Slots
    BY ProbeInRing
  <2>3. force => x[1] > HIGH
    BY DEF Probes
  <2>4. QED
    BY <2>1, <2>2, <2>3, TenantAssumption DEF TypeOK, LanePcs
<1>3. QED
  BY <1>1, <1>2

\* What a probe that comes to nothing does.
LEMMA ScanOnMoves ==
  ASSUME TypeOK, NEW l \in Lanes, ScanOn(l)
  PROVE  /\ pc' \in [Lanes -> LanePcs]
         /\ reg' \in [Lanes -> [force : BOOLEAN, probe : Levels \X Slots,
                                slot : Slots, tenant : Tenants]]
         /\ \A m \in Lanes \ {l} : pc'[m] = pc[m] /\ reg'[m] = reg[m]
         /\ \/ pc'[l] = "prologue"
            \/ /\ pc'[l] = "probe" /\ reg'[l].force = reg[l].force
               /\ reg[l].force => reg'[l].probe[1] > HIGH
<1> DEFINE f == reg[l].force
<1> DEFINE left == {x \in Probes[l][f] : Before(reg[l].probe, x)}
<1>1. f \in BOOLEAN
  BY DEF TypeOK
<1>2. left \in SUBSET Probes[l][f] /\ Scan(l, f, left)
  BY DEF ScanOn
<1> HIDE DEF left, f
<1>3. QED
  BY <1>1, <1>2, ScanMoves DEF f

\* What the end of an iteration does.
LEMMA IterationMoves ==
  ASSUME TypeOK, NEW l \in Lanes, NextIteration(l)
  PROVE  /\ pc' \in [Lanes -> LanePcs] /\ pc'[l] = "prologue"
         /\ reg' \in [Lanes -> [force : BOOLEAN, probe : Levels \X Slots,
                                slot : Slots, tenant : Tenants]]
         /\ \A m \in Lanes \ {l} : pc'[m] = pc[m] /\ reg'[m] = reg[m]
<1>1. Unbound \in [force : BOOLEAN, probe : Levels \X Slots, slot : Slots, tenant : Tenants]
  BY SlotCountAssumption, TenantAssumption DEF Unbound, Levels, Slots, PRIORITY_LEVELS
<1>2. QED
  BY <1>1 DEF NextIteration, Goto, TypeOK, LanePcs

\* Storing one status word.
LEMMA StoreStatus ==
  ASSUME TypeOK, NEW s \in Slots, NEW st \in Statuses,
         ring' = [ring EXCEPT ![s] = [@ EXCEPT !.status = st]]
  PROVE  /\ ring' \in [Slots -> [status : Statuses, tenant : Tenants]]
         /\ ring'[s].status = st
         /\ \A r \in Slots \ {s} : ring'[r] = ring[r]
<1> DEFINE e == [ring[s] EXCEPT !.status = st]
<1>1. e \in [status : Statuses, tenant : Tenants] /\ e.status = st
  BY Zenon DEF TypeOK
<1>2. ring' = [ring EXCEPT ![s] = e]
  OBVIOUS
<1>3. ring \in [Slots -> [status : Statuses, tenant : Tenants]]
  BY DEF TypeOK
<1> HIDE DEF e
<1>4. QED
  BY <1>1, <1>2, <1>3

\* The shape of every step of a lane: its own registers and program counter,
\* the status of the slot it has at hand, the counter, the history.
LEMMA LaneMoves ==
  ASSUME TypeOK, NEW l \in Lanes, LaneStep(l)
  PROVE  /\ TypeOK'
         /\ \A m \in Lanes \ {l} : pc'[m] = pc[m] /\ reg'[m] = reg[m]
         /\ mask' = mask /\ shutdown' = shutdown
<1>1. CASE Prologue(l)
  BY <1>1 DEF Prologue, Goto, TypeOK, LanePcs, hostVars
<1>2. CASE LoadCounter(l)
  <2> DEFINE f == starved >= Threshold
  <2>1. f \in BOOLEAN /\ Scan(l, f, Probes[l][f])
    BY <1>2 DEF LoadCounter
  <2> HIDE DEF f
  <2>2. QED
    BY <1>2, <2>1, ScanMoves DEF LoadCounter, TypeOK, hostVars
<1>3. CASE Probe(l)
  <2>1. CASE ring[reg[l].slot].status = "PUBLISHED"
    <3> DEFINE e == [reg[l] EXCEPT !.tenant = ring[reg[l].slot].tenant]
    <3>1. e \in [force : BOOLEAN, probe : Levels \X Slots, slot : Slots, tenant : Tenants]
      <4>1. reg[l].slot \in Slots
        BY DEF TypeOK
      <4>2. ring[reg[l].slot].tenant \in Tenants
        BY <4>1 DEF TypeOK
      <4>3. QED
        BY <4>2 DEF TypeOK
    <3>2. reg' = [reg EXCEPT ![l] = e] /\ pc' = [pc EXCEPT ![l] = "mask"]
      BY <1>3, <2>1 DEF Probe, Goto
    <3> HIDE DEF e
    <3>3. QED
      BY <1>3, <3>1, <3>2 DEF Probe, TypeOK, LanePcs, hostVars
  <2>2. CASE ring[reg[l].slot].status # "PUBLISHED"
    BY <1>3, <2>2, ScanOnMoves DEF Probe, TypeOK, hostVars
  <2>3. QED
    BY <2>1, <2>2
<1>4. CASE ProbeMask(l)
  <2>1. CASE mask[reg[l].tenant] # 0
    BY <1>4, <2>1 DEF ProbeMask, Goto, TypeOK, LanePcs, hostVars
  <2>2. CASE mask[reg[l].tenant] = 0
    BY <1>4, <2>2, ScanOnMoves DEF ProbeMask, TypeOK, hostVars
  <2>3. QED
    BY <2>1, <2>2
<1>5. CASE Claim(l)
  <2>1. CASE ring[reg[l].slot].status = "PUBLISHED"
    <3>1. ring' \in [Slots -> [status : Statuses, tenant : Tenants]]
      BY <1>5, <2>1, StoreStatus DEF Claim, TypeOK, Statuses
    <3>2. streak' \in Nat
      BY <1>5, <2>1 DEF Claim, Streak, TypeOK
    <3>3. /\ pc' = [pc EXCEPT ![l] = "account"] /\ reg' = reg /\ revoked' = revoked
          /\ mask' = mask /\ shutdown' = shutdown /\ starved' = starved
      BY <1>5, <2>1 DEF Claim, Goto, hostVars
    <3>4. QED
      BY <3>1, <3>2, <3>3 DEF TypeOK, LanePcs
  <2>2. CASE ring[reg[l].slot].status # "PUBLISHED"
    BY <1>5, <2>2, ScanOnMoves DEF Claim, TypeOK, hostVars
  <2>3. QED
    BY <2>1, <2>2
<1>6. CASE Account(l)
  BY <1>6 DEF Account, Goto, TypeOK, LanePcs, hostVars
<1>7. CASE Authorise(l)
  <2>1. CASE mask[reg[l].tenant] # 0
    BY <1>7, <2>1 DEF Authorise, Goto, TypeOK, LanePcs, hostVars
  <2>2. CASE mask[reg[l].tenant] = 0
    BY <1>7, <2>2, IterationMoves DEF Authorise, TypeOK, hostVars
  <2>3. QED
    BY <2>1, <2>2
<1>8. CASE Execute(l)
  <2>1. ring' \in [Slots -> [status : Statuses, tenant : Tenants]]
    BY <1>8, StoreStatus DEF Execute, TypeOK, Statuses
  <2>2. QED
    BY <1>8, <2>1, IterationMoves DEF Execute, TypeOK, hostVars
<1>9. QED
  BY <1>1, <1>2, <1>3, <1>4, <1>5, <1>6, <1>7, <1>8 DEF LaneStep

\* The initial states are well typed.
LEMMA TypeInit == Init => TypeOK
<1>1. Unbound \in [force : BOOLEAN, probe : Levels \X Slots, slot : Slots, tenant : Tenants]
  BY SlotCountAssumption, TenantAssumption DEF Unbound, Levels, Slots, PRIORITY_LEVELS
<1>2. [status |-> "EMPTY", tenant |-> Tenant0] \in [status : Statuses, tenant : Tenants]
  BY TenantAssumption DEF Statuses
<1> SUFFICES ASSUME Init PROVE TypeOK
  OBVIOUS
<1>3. ring \in [Slots -> [status : Statuses, tenant : Tenants]]
  BY <1>2 DEF Init
<1>4. reg \in [Lanes -> [force : BOOLEAN, probe : Levels \X Slots, slot : Slots, tenant : Tenants]]
  BY <1>1 DEF Init
<1>5. QED
  BY <1>3, <1>4, Zenon DEF Init, TypeOK, LanePcs

\* Every step keeps the types.
LEMMA TypeStep == TypeOK /\ [Next]_vars => TypeOK'
<1> SUFFICES ASSUME TypeOK, [Next]_vars PROVE TypeOK'
  OBVIOUS
<1>1. CASE PublishSlot
  BY <1>1 DEF PublishSlot, TypeOK, Statuses, hostVars
<1>2. CASE SetMask
  BY <1>2 DEF SetMask, TypeOK
<1>3. CASE Shutdown
  BY <1>3 DEF Shutdown, TypeOK
<1>4. CASE \E l \in Lanes : LaneStep(l)
  BY <1>4, LaneMoves
<1>5. CASE UNCHANGED vars
  BY <1>5 DEF vars, TypeOK
<1>6. QED
  BY <1>1, <1>2, <1>3, <1>4, <1>5 DEF Next

\* Every word of the ring, every register and every counter keeps its type,
\* and no probe of any scan leaves the ring (priority_scan_body_with_stride).
THEOREM TypeCorrect == Spec => []TypeOK
BY TypeInit, TypeStep, PTL DEF Spec
-----------------------------------------------------------------------------
(* Claims *)

\* A step of lane l that is not its claim neither makes it a holder nor
\* changes the status of a slot, except the DONE store of its own slot.
LEMMA HoldingMoves ==
  ASSUME TypeOK, NEW l \in Lanes, LaneStep(l)
  PROVE  \/ /\ Holding(l) /\ Holding(l)' /\ ring' = ring /\ reg' = reg /\ revoked' = revoked
         \/ /\ ~Holding(l) /\ ~Holding(l)' /\ ring' = ring /\ revoked' = revoked
         \/ /\ ~Holding(l) /\ Holding(l)' /\ reg' = reg /\ revoked' = revoked
            /\ ring[reg[l].slot].status = "PUBLISHED"
            /\ ring' = [ring EXCEPT ![reg[l].slot] = [@ EXCEPT !.status = "CLAIMED"]]
         \/ /\ Holding(l) /\ ~Holding(l)' /\ ring' = ring
            /\ revoked' = revoked \cup {reg[l].slot}
         \/ /\ Holding(l) /\ ~Holding(l)' /\ revoked' = revoked
            /\ ring' = [ring EXCEPT ![reg[l].slot] = [@ EXCEPT !.status = "DONE"]]
<1>0. pc \in [Lanes -> LanePcs]
  BY DEF TypeOK
<1>1. CASE Prologue(l)
  BY <1>0, <1>1 DEF Prologue, Goto, Holding
<1>2. CASE LoadCounter(l)
  <2> DEFINE f == starved >= Threshold
  <2>1. f \in BOOLEAN /\ Scan(l, f, Probes[l][f])
    BY <1>2 DEF LoadCounter
  <2> HIDE DEF f
  <2>2. QED
    BY <1>2, <2>1, ScanMoves DEF LoadCounter, Holding
<1>3. CASE Probe(l)
  BY <1>0, <1>3, ScanOnMoves DEF Probe, Goto, Holding
<1>4. CASE ProbeMask(l)
  BY <1>0, <1>4, ScanOnMoves DEF ProbeMask, Goto, Holding
<1>5. CASE Claim(l)
  BY <1>0, <1>5, ScanOnMoves DEF Claim, Goto, Holding
<1>6. CASE Account(l)
  BY <1>0, <1>6 DEF Account, Goto, Holding
<1>7. CASE Authorise(l)
  BY <1>0, <1>7, IterationMoves DEF Authorise, Goto, Holding
<1>8. CASE Execute(l)
  BY <1>0, <1>8, IterationMoves DEF Execute, Holding
<1>9. QED
  BY <1>1, <1>2, <1>3, <1>4, <1>5, <1>6, <1>7, <1>8 DEF LaneStep

Claims == OneHolder /\ StuckOnlyIfRevoked

\* A lane's step keeps the claims of all lanes.
LEMMA ClaimsLane ==
  ASSUME TypeOK, Claims, NEW l \in Lanes, LaneStep(l)
  PROVE  Claims'
<1>1. TypeOK' /\ \A m \in Lanes \ {l} : pc'[m] = pc[m] /\ reg'[m] = reg[m]
  BY LaneMoves
<1>2. \A m \in Lanes \ {l} : (Holding(m)' <=> Holding(m)) /\ reg'[m].slot = reg[m].slot
  BY <1>1 DEF Holding
<1>3. \A m \in Lanes : reg[m].slot \in Slots
  BY DEF TypeOK
<1>4. CASE Holding(l) /\ Holding(l)' /\ ring' = ring /\ reg' = reg /\ revoked' = revoked
  BY <1>2, <1>4 DEF Claims, OneHolder, StuckOnlyIfRevoked
<1>5. CASE ~Holding(l) /\ ~Holding(l)' /\ ring' = ring /\ revoked' = revoked
  BY <1>2, <1>5 DEF Claims, OneHolder, StuckOnlyIfRevoked
<1>6. CASE /\ ~Holding(l) /\ Holding(l)' /\ reg' = reg /\ revoked' = revoked
           /\ ring[reg[l].slot].status = "PUBLISHED"
           /\ ring' = [ring EXCEPT ![reg[l].slot] = [@ EXCEPT !.status = "CLAIMED"]]
  <2>1. /\ ring'[reg[l].slot].status = "CLAIMED"
        /\ \A r \in Slots \ {reg[l].slot} : ring'[r] = ring[r]
    BY <1>3, <1>6, StoreStatus, Zenon DEF Statuses
  <2>2. \A m \in Lanes \ {l} : Holding(m) => reg[m].slot # reg[l].slot
    BY <1>6 DEF Claims, OneHolder
  <2>3. OneHolder'
    BY <1>2, <1>3, <1>6, <2>1, <2>2 DEF Claims, OneHolder
  <2>4. StuckOnlyIfRevoked'
    BY <1>2, <1>6, <2>1 DEF Claims, StuckOnlyIfRevoked
  <2>5. QED
    BY <2>3, <2>4 DEF Claims
<1>7. CASE Holding(l) /\ ~Holding(l)' /\ ring' = ring /\ revoked' = revoked \cup {reg[l].slot}
  BY <1>2, <1>7 DEF Claims, OneHolder, StuckOnlyIfRevoked
<1>8. CASE /\ Holding(l) /\ ~Holding(l)' /\ revoked' = revoked
           /\ ring' = [ring EXCEPT ![reg[l].slot] = [@ EXCEPT !.status = "DONE"]]
  <2>1. /\ ring'[reg[l].slot].status = "DONE"
        /\ \A r \in Slots \ {reg[l].slot} : ring'[r] = ring[r]
    BY <1>3, <1>8, StoreStatus, Zenon DEF Statuses
  <2>2. \A m \in Lanes \ {l} : Holding(m) => reg[m].slot # reg[l].slot
    BY <1>8 DEF Claims, OneHolder
  <2>3. OneHolder'
    BY <1>2, <1>3, <1>8, <2>1, <2>2 DEF Claims, OneHolder
  <2>4. StuckOnlyIfRevoked'
    BY <1>2, <1>8, <2>1 DEF Claims, StuckOnlyIfRevoked
  <2>5. QED
    BY <2>3, <2>4 DEF Claims
<1>9. QED
  BY <1>4, <1>5, <1>6, <1>7, <1>8, HoldingMoves

\* Every step keeps the claims.
LEMMA ClaimsStep == TypeOK /\ Claims /\ [Next]_vars => Claims'
<1> SUFFICES ASSUME TypeOK, Claims, [Next]_vars PROVE Claims'
  OBVIOUS
<1>1. CASE PublishSlot
  <2>1. PICK s \in Slots, t \in Tenants :
          /\ ring[s].status \in {"EMPTY", "DONE"}
          /\ ring' = [ring EXCEPT ![s] = [status |-> "PUBLISHED", tenant |-> t]]
          /\ pc' = pc /\ reg' = reg /\ revoked' = revoked
    BY <1>1, Zenon DEF PublishSlot
  <2>2. ring'[s].status = "PUBLISHED" /\ \A r \in Slots \ {s} : ring'[r] = ring[r]
    BY <2>1 DEF TypeOK
  <2>3. \A m \in Lanes : (Holding(m)' <=> Holding(m)) /\ reg[m].slot \in Slots
    BY <2>1 DEF Holding, TypeOK
  <2>4. \A m \in Lanes : Holding(m) => reg[m].slot # s
    BY <2>1 DEF Claims, OneHolder
  <2>5. OneHolder'
    BY <2>1, <2>2, <2>3, <2>4 DEF Claims, OneHolder
  <2>6. StuckOnlyIfRevoked'
    BY <2>1, <2>2, <2>3 DEF Claims, StuckOnlyIfRevoked
  <2>7. QED
    BY <2>5, <2>6 DEF Claims
<1>2. CASE \E l \in Lanes : LaneStep(l)
  BY <1>2, ClaimsLane
<1>3. CASE SetMask \/ Shutdown \/ UNCHANGED vars
  <2>1. ring' = ring /\ pc' = pc /\ reg' = reg /\ revoked' = revoked
    BY <1>3 DEF SetMask, Shutdown, vars
  <2>2. QED
    BY <2>1 DEF Claims, OneHolder, StuckOnlyIfRevoked, Holding
<1>4. QED
  BY <1>1, <1>2, <1>3 DEF Next

\* No lane has a claim initially.
LEMMA ClaimsInit == Init => Claims
BY DEF Init, Claims, OneHolder, StuckOnlyIfRevoked, Holding

\* However many lanes probe the same slots, a claimed slot has one holder.
THEOREM ClaimsExclusive == Spec => []OneHolder
<1>1. Spec => []Claims
  BY TypeInit, TypeStep, ClaimsInit, ClaimsStep, PTL DEF Spec
<1>2. Claims => OneHolder
  BY DEF Claims
<1>3. QED
  BY <1>1, <1>2, PTL

\* A slot is left CLAIMED only when its tenant is disabled between the two
\* looks at its mask.
THEOREM StuckHasOneCause == Spec => []StuckOnlyIfRevoked
<1>1. Spec => []Claims
  BY TypeInit, TypeStep, ClaimsInit, ClaimsStep, PTL DEF Spec
<1>2. Claims => StuckOnlyIfRevoked
  BY DEF Claims
<1>3. QED
  BY <1>1, <1>2, PTL
-----------------------------------------------------------------------------
(* The starvation counter *)

Scanning(l) == pc[l] \in {"probe", "mask", "claim", "account"}

\* A forced scan stays below HIGH.
Forced ==
  \A l \in Lanes : (pc[l] \in {"probe", "mask", "claim", "account"} /\ reg[l].force)
                      => reg[l].probe[1] > HIGH

\* The lanes whose scan began before the guard tripped and that may still add
\* one to the counter.
Unforced == {l \in Lanes : Scanning(l) /\ ~reg[l].force}

\* The counter leaves room for each of them.
CounterRoom ==
  starved + Cardinality(Unforced) <= Threshold + Cardinality(Lanes) - 1

\* Sizes of subsets of the launch.
LEMMA Sizes ==
  ASSUME NEW S \in SUBSET Lanes
  PROVE  /\ IsFiniteSet(S) /\ Cardinality(S) \in Nat /\ Cardinality(Lanes) \in Nat
         /\ Cardinality(S) <= Cardinality(Lanes)
         /\ \A T \in SUBSET S : Cardinality(T) \in Nat /\ Cardinality(T) <= Cardinality(S)
         /\ \A l \in S : Cardinality(S \ {l}) = Cardinality(S) - 1
<1>1. IsFiniteSet(Lanes)
  BY LanesAssumption
<1>2. IsFiniteSet(S) /\ Cardinality(S) <= Cardinality(Lanes)
  BY <1>1, FS_Subset
<1>3. Cardinality(S) \in Nat /\ Cardinality(Lanes) \in Nat
  BY <1>1, <1>2, FS_CardinalityType
<1>4. ASSUME NEW T \in SUBSET S
      PROVE  Cardinality(T) \in Nat /\ Cardinality(T) <= Cardinality(S)
  BY <1>2, FS_Subset, FS_CardinalityType
<1>5. ASSUME NEW l \in S PROVE Cardinality(S \ {l}) = Cardinality(S) - 1
  BY <1>2, FS_RemoveElement
<1>6. QED
  BY <1>2, <1>3, <1>4, <1>5

\* What one step of a lane does to the counter and to the lanes that may still
\* add to it.
LEMMA GuardMoves ==
  ASSUME TypeOK, Forced, NEW l \in Lanes, LaneStep(l)
  PROVE  /\ Forced'
         /\ \/ starved' = starved /\ Unforced' \subseteq Unforced
            \/ starved' = starved /\ starved < Threshold
            \/ starved' = 0
            \/ starved' = starved + 1 /\ l \in Unforced /\ Unforced' = Unforced \ {l}
<1>0. pc \in [Lanes -> LanePcs]
  BY DEF TypeOK
<1>1. \A m \in Lanes \ {l} : pc'[m] = pc[m] /\ reg'[m] = reg[m]
  BY LaneMoves
<1>2. ASSUME \/ ~Scanning(l)'
             \/ Scanning(l)' /\ (reg'[l].force => reg'[l].probe[1] > HIGH)
      PROVE  Forced'
  BY <1>1, <1>2 DEF Forced, Scanning
<1>3. ASSUME \/ ~Scanning(l)' \/ reg'[l].force
             \/ Scanning(l) /\ ~reg[l].force
      PROVE  Unforced' \subseteq Unforced
  BY <1>1, <1>3 DEF Unforced, Scanning
<1>4. CASE Prologue(l)
  BY <1>0, <1>2, <1>3, <1>4 DEF Prologue, Goto, Scanning
<1>5. CASE LoadCounter(l)
  <2> DEFINE f == starved >= Threshold
  <2>1. f \in BOOLEAN /\ Scan(l, f, Probes[l][f]) /\ starved' = starved
    BY <1>5 DEF LoadCounter
  <2>2. f \/ starved < Threshold
    BY ThresholdAssumption DEF TypeOK
  <2> HIDE DEF f
  <2>3. \/ pc'[l] = "prologue"
        \/ pc'[l] = "probe" /\ reg'[l].force = f /\ (f => reg'[l].probe[1] > HIGH)
    BY <2>1, ScanMoves
  <2>4. Forced'
    BY <1>2, <2>3 DEF Scanning
  <2>5. CASE f
    BY <1>3, <2>1, <2>3, <2>4, <2>5, Zenon DEF Scanning
  <2>6. QED
    BY <2>1, <2>2, <2>4, <2>5
<1>6. ASSUME Scanning(l), starved' = starved, reg[l].force \in BOOLEAN,
             \/ ScanOn(l)
             \/ /\ pc'[l] \in {"mask", "claim", "account"}
                /\ reg'[l].force = reg[l].force /\ reg'[l].probe = reg[l].probe
      PROVE  Forced' /\ Unforced' \subseteq Unforced
  <2>1. CASE ScanOn(l)
    BY <1>2, <1>3, <1>6, <2>1, ScanOnMoves DEF Scanning
  <2>2. CASE /\ pc'[l] \in {"mask", "claim", "account"}
             /\ reg'[l].force = reg[l].force /\ reg'[l].probe = reg[l].probe
    BY <1>2, <1>3, <1>6, <2>2 DEF Scanning, Forced
  <2>3. QED
    BY <1>6, <2>1, <2>2
<1>7. reg[l].force \in BOOLEAN /\ reg[l].probe[1] \in Nat
  BY DEF TypeOK, Levels
<1>8. CASE Probe(l)
  <2>1. Scanning(l) /\ starved' = starved
    BY <1>8 DEF Probe, Scanning
  <2>2. \/ ScanOn(l)
        \/ /\ pc'[l] \in {"mask", "claim", "account"}
           /\ reg'[l].force = reg[l].force /\ reg'[l].probe = reg[l].probe
    BY <1>0, <1>8 DEF Probe, Goto, TypeOK
  <2>3. QED
    BY <1>6, <1>7, <2>1, <2>2
<1>9. CASE ProbeMask(l)
  <2>1. Scanning(l) /\ starved' = starved
    BY <1>9 DEF ProbeMask, Scanning
  <2>2. \/ ScanOn(l)
        \/ /\ pc'[l] \in {"mask", "claim", "account"}
           /\ reg'[l].force = reg[l].force /\ reg'[l].probe = reg[l].probe
    BY <1>0, <1>9 DEF ProbeMask, Goto
  <2>3. QED
    BY <1>6, <1>7, <2>1, <2>2
<1>10. CASE Claim(l)
  <2>1. Scanning(l) /\ starved' = starved
    BY <1>10 DEF Claim, Scanning
  <2>2. \/ ScanOn(l)
        \/ /\ pc'[l] \in {"mask", "claim", "account"}
           /\ reg'[l].force = reg[l].force /\ reg'[l].probe = reg[l].probe
    BY <1>0, <1>10 DEF Claim, Goto
  <2>3. QED
    BY <1>6, <1>7, <2>1, <2>2
<1>11. CASE Account(l)
  <2>1. Scanning(l) /\ ~Scanning(l)' /\ pc'[l] = "authorise" /\ reg' = reg
    BY <1>0, <1>11 DEF Account, Goto, Scanning
  <2>2. Forced'
    BY <1>2, <2>1
  <2>3. CASE reg[l].probe[1] <= HIGH
    <3>1. starved' = starved + 1
      BY <1>11, <2>3 DEF Account
    <3>2. ~reg[l].force
      BY <1>7, <2>1, <2>3 DEF Forced, Scanning, HIGH
    <3>3. l \in Unforced /\ Unforced' = Unforced \ {l}
      BY <1>1, <2>1, <3>2 DEF Unforced, Scanning
    <3>4. QED
      BY <2>2, <3>1, <3>3
  <2>4. CASE ~(reg[l].probe[1] <= HIGH)
    BY <1>11, <2>2, <2>4 DEF Account
  <2>5. QED
    BY <2>3, <2>4
<1>12. CASE Authorise(l)
  <2>1. ~Scanning(l)' /\ starved' = starved
    BY <1>0, <1>12, IterationMoves DEF Authorise, Goto, Scanning
  <2>2. QED
    BY <1>2, <1>3, <2>1
<1>13. CASE Execute(l)
  <2>1. ~Scanning(l)' /\ starved' = starved
    BY <1>0, <1>13, IterationMoves DEF Execute, Scanning
  <2>2. QED
    BY <1>2, <1>3, <2>1
<1>14. QED
  BY <1>4, <1>5, <1>8, <1>9, <1>10, <1>11, <1>12, <1>13 DEF LaneStep

\* Every step keeps the bound on the counter.
LEMMA CounterStep ==
  TypeOK /\ Forced /\ CounterRoom /\ [Next]_vars => Forced' /\ CounterRoom'
<1> SUFFICES ASSUME TypeOK, Forced, CounterRoom, [Next]_vars PROVE Forced' /\ CounterRoom'
  OBVIOUS
<1>1. Unforced \in SUBSET Lanes /\ Unforced' \in SUBSET Lanes
  BY DEF Unforced
<1>2. starved \in Nat /\ Threshold \in Nat \ {0}
  BY ThresholdAssumption DEF TypeOK
<1>3. /\ Cardinality(Unforced) \in Nat /\ Cardinality(Unforced') \in Nat
      /\ Cardinality(Lanes) \in Nat
      /\ Cardinality(Unforced') <= Cardinality(Lanes)
  BY <1>1, Sizes
<1>4. CASE \E l \in Lanes : LaneStep(l)
  <2>1. PICK l \in Lanes : LaneStep(l)
    BY <1>4
  <2>2. Forced'
    BY <2>1, GuardMoves
  <2>3. CASE starved' = starved /\ Unforced' \subseteq Unforced
    <3>1. Cardinality(Unforced') <= Cardinality(Unforced)
      BY <1>1, <2>3, Sizes
    <3>2. QED
      BY <1>2, <1>3, <2>2, <2>3, <3>1 DEF CounterRoom
  <2>4. CASE starved' = starved /\ starved < Threshold
    BY <1>2, <1>3, <2>2, <2>4 DEF CounterRoom
  <2>5. CASE starved' = 0
    BY <1>2, <1>3, <2>2, <2>5 DEF CounterRoom
  <2>6. CASE starved' = starved + 1 /\ l \in Unforced /\ Unforced' = Unforced \ {l}
    <3>1. Cardinality(Unforced') = Cardinality(Unforced) - 1
      BY <1>1, <2>6, Sizes
    <3>2. QED
      BY <1>2, <1>3, <2>2, <2>6, <3>1 DEF CounterRoom
  <2>7. QED
    BY <2>1, <2>3, <2>4, <2>5, <2>6, GuardMoves
<1>5. CASE PublishSlot \/ SetMask \/ Shutdown \/ UNCHANGED vars
  <2>1. pc' = pc /\ reg' = reg /\ starved' = starved
    BY <1>5 DEF PublishSlot, SetMask, Shutdown, vars
  <2>2. Unforced' = Unforced /\ Forced'
    BY <2>1 DEF Unforced, Scanning, Forced
  <2>3. QED
    BY <2>1, <2>2 DEF CounterRoom
<1>6. QED
  BY <1>4, <1>5 DEF Next

\* The counter starts within its bound.
LEMMA CounterInit == Init => Forced /\ CounterRoom
<1> SUFFICES ASSUME Init PROVE Forced /\ CounterRoom
  OBVIOUS
<1>1. \A l \in Lanes : ~Scanning(l)
  BY DEF Init, Scanning
<1>2. Forced /\ Unforced = {}
  BY <1>1 DEF Forced, Unforced, Scanning
<1>3. Cardinality(Unforced) = 0
  BY <1>2, FS_EmptySet
<1>4. Cardinality(Lanes) \in Nat
  BY LanesAssumption, FS_CardinalityType
<1>5. QED
  BY <1>2, <1>3, <1>4, ThresholdAssumption DEF Init, CounterRoom

\* What the counter may reach.
CounterBound == starved <= Threshold + Cardinality(Lanes) - 1

\* The counter word passes the threshold by at most the lanes less one, for
\* every launch: the u32 does not wrap.
THEOREM CounterBounded == Spec => []CounterBound
<1>1. Spec => [](TypeOK /\ CounterRoom)
  BY TypeInit, TypeStep, CounterInit, CounterStep, PTL DEF Spec
<1>2. TypeOK /\ CounterRoom => CounterBound
  <2> SUFFICES ASSUME TypeOK, CounterRoom PROVE CounterBound
    OBVIOUS
  <2>1. Unforced \in SUBSET Lanes
    BY DEF Unforced
  <2>2. Cardinality(Unforced) \in Nat /\ Cardinality(Lanes) \in Nat
    BY <2>1, Sizes
  <2>3. QED
    BY <2>2, ThresholdAssumption DEF CounterRoom, CounterBound, TypeOK
<1>3. QED
  BY <1>1, <1>2, PTL
-----------------------------------------------------------------------------
(* The streaks *)

\* A lane that has claimed a slot of lower priority and not reset the counter,
\* one that has claimed a CRITICAL or HIGH slot and not counted it, and one
\* that may still claim such a slot in the scan it is in.
OwesReset(l) == pc[l] = "account" /\ reg[l].probe[1] > HIGH
OwesCount(l) == pc[l] = "account" /\ ~(reg[l].probe[1] > HIGH)
MayClaim(l) == pc[l] \in {"probe", "mask", "claim"} /\ ~reg[l].force

Free == {l \in Lanes : ~OwesReset(l)}
Counting == {l \in Lanes : OwesCount(l)}
Open == {l \in Lanes : MayClaim(l)}

\* The claims of CRITICAL and HIGH slots that may come before the next reset.
ToCome ==
  IF starved < Threshold
    THEN Threshold - 1 + Cardinality(Free) - starved - Cardinality(Counting)
    ELSE Cardinality(Open)

\* Twice the length of a streak when m lanes owe no reset.
Room(m) == m * (2 * Threshold + m - 1)

\* The streak leaves room for the claims to come, and a reset, which makes one
\* more lane free, makes room for what it erases.
StreakRoom ==
  IF Free = {} THEN streak = 0 ELSE 2 * (streak + ToCome) <= Room(Cardinality(Free))

\* Every lane that owes no reset adds to the room.
LEMMA RoomGrows ==
  ASSUME NEW m \in Nat
  PROVE  /\ Room(m) \in Int /\ Room(m + 1) = Room(m) + 2 * Threshold + 2 * m
<1>1. Threshold \in Nat
  BY ThresholdAssumption
<1>2. (m + 1) * (2 * Threshold + (m + 1) - 1) = m * (2 * Threshold + m - 1) + 2 * Threshold + 2 * m
  BY <1>1
<1>3. m * (2 * Threshold + m - 1) \in Int
  BY <1>1
<1>4. QED
  BY <1>2, <1>3 DEF Room

\* The room is enough for a streak without erased claims.
LEMMA RoomEnough ==
  ASSUME NEW m \in Nat \ {0}
  PROVE  Room(m) >= 2 * (Threshold - 1 + m) /\ Room(m) >= 2 * m
<1>1. PICK k \in Nat : m = k + 1
  <2>1. m - 1 \in Nat /\ m = (m - 1) + 1
    OBVIOUS
  <2>2. QED
    BY <2>1
<1>2. PICK t \in Nat : Threshold = t + 1
  <2>1. Threshold - 1 \in Nat /\ Threshold = (Threshold - 1) + 1
    BY ThresholdAssumption
  <2>2. QED
    BY <2>1
<1>3. Room(m) = 2 * k * t + k * k + 3 * k + 2 * t + 2
  BY <1>1, <1>2 DEF Room
<1>4. k * t \in Nat /\ k * k \in Nat /\ k * k >= k
  BY <1>1
<1>5. QED
  BY <1>1, <1>2, <1>3, <1>4

\* The sizes of two disjoint sets of free lanes.
LEMMA KindSizes ==
  ASSUME NEW F \in SUBSET Lanes, NEW C \in SUBSET F, NEW O \in SUBSET F, C \cap O = {}
  PROVE  /\ Cardinality(F) \in Nat /\ Cardinality(C) \in Nat /\ Cardinality(O) \in Nat
         /\ Cardinality(C) + Cardinality(O) <= Cardinality(F)
         /\ Cardinality(O) <= Cardinality(F)
         /\ Cardinality(F) = 0 <=> F = {}
<1>1. IsFiniteSet(F) /\ IsFiniteSet(C) /\ IsFiniteSet(O)
  BY Sizes
<1>2. /\ Cardinality(F) \in Nat /\ Cardinality(C) \in Nat /\ Cardinality(O) \in Nat
      /\ Cardinality(F) = 0 <=> F = {}
  BY <1>1, FS_CardinalityType, FS_EmptySet
<1>3. Cardinality(C \cap O) = 0
  BY FS_EmptySet
<1>4. Cardinality(C \cup O) = Cardinality(C) + Cardinality(O) - Cardinality(C \cap O)
  BY <1>1, FS_Union
<1>5. Cardinality(C \cup O) <= Cardinality(F)
  BY <1>1, FS_Subset
<1>6. QED
  BY <1>2, <1>3, <1>4, <1>5

\* What one step of a lane does to the streak, the counter and the three kinds
\* of lane: nothing of note, the begin of a scan below the threshold, a high
\* claim, a lower claim, a count, a reset.
LEMMA StreakMoves ==
  ASSUME TypeOK, Forced, NEW l \in Lanes, LaneStep(l)
  PROVE  \/ /\ streak' = streak /\ starved' = starved
            /\ Free' = Free /\ Counting' = Counting
            /\ Open' \subseteq Open \/ starved < Threshold
         \/ /\ streak' = streak + 1 /\ starved' = starved
            /\ Free' = Free /\ l \in Open /\ Open' = Open \ {l}
            /\ l \notin Counting /\ Counting' = Counting \cup {l}
         \/ /\ streak' = 0 /\ starved' = starved
            /\ l \in Free /\ Free' = Free \ {l}
         \/ /\ streak' = streak /\ starved' = starved + 1
            /\ Free' = Free /\ Open' = Open
            /\ l \in Counting /\ Counting' = Counting \ {l}
         \/ /\ streak' = streak /\ starved' = 0
            /\ l \notin Free /\ Free' = Free \cup {l} /\ Counting' = Counting
<1>0. pc \in [Lanes -> LanePcs] /\ reg[l].force \in BOOLEAN /\ reg[l].probe[1] \in Nat
  BY DEF TypeOK, Levels
<1>1. \A m \in Lanes \ {l} : pc'[m] = pc[m] /\ reg'[m] = reg[m]
  BY LaneMoves
<1>2. /\ \A m \in Lanes \ {l} : m \in Free' <=> m \in Free
      /\ \A m \in Lanes \ {l} : m \in Counting' <=> m \in Counting
      /\ \A m \in Lanes \ {l} : m \in Open' <=> m \in Open
  BY <1>1 DEF Free, Counting, Open, OwesReset, OwesCount, MayClaim
<1>3. /\ Free \subseteq Lanes /\ Counting \subseteq Lanes /\ Open \subseteq Lanes
      /\ Free' \subseteq Lanes /\ Counting' \subseteq Lanes /\ Open' \subseteq Lanes
  BY DEF Free, Counting, Open
<1>4. /\ l \in Free <=> ~(pc[l] = "account" /\ reg[l].probe[1] > HIGH)
      /\ l \in Free' <=> ~(pc'[l] = "account" /\ reg'[l].probe[1] > HIGH)
      /\ l \in Counting <=> pc[l] = "account" /\ ~(reg[l].probe[1] > HIGH)
      /\ l \in Counting' <=> pc'[l] = "account" /\ ~(reg'[l].probe[1] > HIGH)
      /\ l \in Open <=> pc[l] \in {"probe", "mask", "claim"} /\ ~reg[l].force
      /\ l \in Open' <=> pc'[l] \in {"probe", "mask", "claim"} /\ ~reg'[l].force
  BY DEF Free, Counting, Open, OwesReset, OwesCount, MayClaim
<1>5. ASSUME pc[l] # "account", pc'[l] # "account", streak' = streak, starved' = starved,
             (l \in Open' => l \in Open) \/ starved < Threshold
      PROVE  /\ Free' = Free /\ Counting' = Counting
             /\ Open' \subseteq Open \/ starved < Threshold
  BY <1>2, <1>3, <1>4, <1>5
<1>6. CASE Prologue(l)
  <2>1. /\ pc[l] = "prologue" /\ pc'[l] \in {"returned", "counter"}
        /\ streak' = streak /\ starved' = starved
    BY <1>0, <1>6 DEF Prologue, Goto
  <2>2. QED
    BY <1>4, <1>5, <2>1
<1>7. CASE LoadCounter(l)
  <2> DEFINE f == starved >= Threshold
  <2>1. /\ f \in BOOLEAN /\ Scan(l, f, Probes[l][f]) /\ pc[l] = "counter"
        /\ starved' = starved /\ streak' = streak
    BY <1>7 DEF LoadCounter
  <2>2. f \/ starved < Threshold
    BY ThresholdAssumption DEF TypeOK
  <2> HIDE DEF f
  <2>3. pc'[l] = "prologue" \/ (pc'[l] = "probe" /\ reg'[l].force = f)
    BY <2>1, ScanMoves
  <2>4. (l \in Open' => l \in Open) \/ starved < Threshold
    BY <1>4, <2>2, <2>3
  <2>5. QED
    BY <1>5, <2>1, <2>3, <2>4
<1>8. ASSUME pc[l] \in {"probe", "mask", "claim"}, starved' = starved, streak' = streak,
             \/ ScanOn(l)
             \/ pc'[l] \in {"mask", "claim"} /\ reg'[l].force = reg[l].force
      PROVE  /\ Free' = Free /\ Counting' = Counting
             /\ Open' \subseteq Open \/ starved < Threshold
  <2>1. /\ pc'[l] \in {"prologue", "probe", "mask", "claim"}
        /\ pc'[l] = "prologue" \/ reg'[l].force = reg[l].force
    <3>1. CASE ScanOn(l)
      BY <1>0, <1>8, <3>1, ScanOnMoves DEF Scanning
    <3>2. CASE pc'[l] \in {"mask", "claim"} /\ reg'[l].force = reg[l].force
      BY <3>2
    <3>3. QED
      BY <1>8, <3>1, <3>2
  <2>2. l \in Open' => l \in Open
    BY <1>4, <1>8, <2>1
  <2>3. pc[l] # "account" /\ pc'[l] # "account"
    BY <1>8, <2>1
  <2>4. QED
    BY <1>5, <1>8, <2>2, <2>3
<1>9. CASE Probe(l)
  <2>1. pc[l] = "probe" /\ starved' = starved /\ streak' = streak
    BY <1>9 DEF Probe
  <2>2. ScanOn(l) \/ (pc'[l] \in {"mask", "claim"} /\ reg'[l].force = reg[l].force)
    BY <1>0, <1>9 DEF Probe, Goto, TypeOK
  <2>3. QED
    BY <1>8, <2>1, <2>2
<1>10. CASE ProbeMask(l)
  <2>1. pc[l] = "mask" /\ starved' = starved /\ streak' = streak
    BY <1>10 DEF ProbeMask
  <2>2. ScanOn(l) \/ (pc'[l] \in {"mask", "claim"} /\ reg'[l].force = reg[l].force)
    BY <1>0, <1>10 DEF ProbeMask, Goto
  <2>3. QED
    BY <1>8, <2>1, <2>2
<1>11. CASE Claim(l)
  <2>1. pc[l] = "claim" /\ starved' = starved
    BY <1>11 DEF Claim
  <2>2. CASE ScanOn(l) /\ streak' = streak
    BY <1>8, <2>1, <2>2
  <2>3. CASE pc'[l] = "account" /\ reg' = reg /\ streak' = Streak(l)
    <3>1. CASE reg[l].probe[1] > HIGH
      <4>1. streak' = 0
        BY <1>0, <2>3, <3>1 DEF Streak, HIGH
      <4>2. l \in Free /\ Free' = Free \ {l}
        BY <1>2, <1>3, <1>4, <2>1, <2>3, <3>1
      <4>3. QED
        BY <2>1, <4>1, <4>2
    <3>2. CASE ~(reg[l].probe[1] > HIGH)
      <4>1. streak' = streak + 1
        BY <1>0, <2>3, <3>2 DEF Streak, HIGH
      <4>2. ~reg[l].force
        BY <1>0, <2>1, <3>2 DEF Forced
      <4>3. /\ l \in Free /\ l \in Free' /\ l \notin Counting /\ l \in Counting'
            /\ l \in Open /\ l \notin Open'
        BY <1>4, <2>1, <2>3, <3>2, <4>2
      <4>4. Free' = Free /\ Open' = Open \ {l} /\ Counting' = Counting \cup {l}
        BY <1>2, <1>3, <4>3
      <4>5. QED
        BY <2>1, <4>1, <4>3, <4>4
    <3>3. QED
      BY <3>1, <3>2
  <2>4. QED
    BY <1>0, <1>11, <2>2, <2>3 DEF Claim, Goto
<1>12. CASE Account(l)
  <2>1. pc[l] = "account" /\ pc'[l] = "authorise" /\ streak' = streak
    BY <1>0, <1>12 DEF Account, Goto
  <2>2. CASE reg[l].probe[1] > HIGH
    <3>1. starved' = 0
      BY <1>0, <1>12, <2>2 DEF Account, HIGH
    <3>2. l \notin Free /\ l \in Free' /\ l \notin Counting /\ l \notin Counting'
      BY <1>4, <2>1, <2>2
    <3>3. Free' = Free \cup {l} /\ Counting' = Counting
      BY <1>2, <1>3, <3>2
    <3>4. QED
      BY <2>1, <3>1, <3>2, <3>3
  <2>3. CASE ~(reg[l].probe[1] > HIGH)
    <3>1. starved' = starved + 1
      BY <1>0, <1>12, <2>3 DEF Account, HIGH
    <3>2. /\ l \in Free /\ l \in Free' /\ l \in Counting /\ l \notin Counting'
          /\ l \notin Open /\ l \notin Open'
      BY <1>4, <2>1, <2>3
    <3>3. Free' = Free /\ Open' = Open /\ Counting' = Counting \ {l}
      BY <1>2, <1>3, <3>2
    <3>4. QED
      BY <2>1, <3>1, <3>2, <3>3
  <2>4. QED
    BY <2>2, <2>3
<1>13. CASE Authorise(l)
  <2>1. /\ pc[l] = "authorise" /\ pc'[l] \in {"execute", "prologue"}
        /\ streak' = streak /\ starved' = starved
    BY <1>0, <1>13, IterationMoves DEF Authorise, Goto
  <2>2. QED
    BY <1>4, <1>5, <2>1
<1>14. CASE Execute(l)
  <2>1. /\ pc[l] = "execute" /\ pc'[l] = "prologue"
        /\ streak' = streak /\ starved' = starved
    BY <1>0, <1>14, IterationMoves DEF Execute
  <2>2. QED
    BY <1>4, <1>5, <2>1
<1>15. QED
  BY <1>6, <1>7, <1>9, <1>10, <1>11, <1>12, <1>13, <1>14 DEF LaneStep

\* Every step keeps the room of the streak.
LEMMA StreakStep ==
  TypeOK /\ Forced /\ StreakRoom /\ [Next]_vars => StreakRoom'
<1> SUFFICES ASSUME TypeOK, Forced, StreakRoom, [Next]_vars PROVE StreakRoom'
  OBVIOUS
<1> DEFINE m == Cardinality(Free)
           c == Cardinality(Counting)
           o == Cardinality(Open)
<1>1. starved \in Nat /\ streak \in Nat /\ Threshold \in Nat \ {0}
  BY ThresholdAssumption DEF TypeOK
<1>2. /\ m \in Nat /\ c \in Nat /\ o \in Nat /\ c + o <= m
      /\ m = 0 <=> Free = {}
  <2>1. /\ Free \in SUBSET Lanes /\ Counting \in SUBSET Free /\ Open \in SUBSET Free
        /\ Counting \cap Open = {}
    BY DEF Free, Counting, Open, OwesReset, OwesCount, MayClaim
  <2>2. QED
    BY <2>1, KindSizes, Zenon
<1>3. /\ m' \in Nat /\ c' \in Nat /\ o' \in Nat /\ c' + o' <= m' /\ o' <= m'
      /\ m' = 0 <=> Free' = {}
  <2>1. /\ Free' \in SUBSET Lanes /\ Counting' \in SUBSET Free' /\ Open' \in SUBSET Free'
        /\ Counting' \cap Open' = {}
    BY DEF Free, Counting, Open, OwesReset, OwesCount, MayClaim
  <2>2. QED
    BY <2>1, KindSizes, Zenon
<1>4. /\ m = 0 => streak = 0
      /\ (m # 0 /\ starved < Threshold) => 2 * (streak + (Threshold - 1 + m - starved - c)) <= Room(m)
      /\ (m # 0 /\ ~(starved < Threshold)) => 2 * (streak + o) <= Room(m)
  BY <1>2 DEF StreakRoom, ToCome
<1>5. ASSUME m' # 0 => \/ /\ starved' < Threshold
                          /\ 2 * (streak' + (Threshold - 1 + m' - starved' - c')) <= Room(m')
                       \/ ~(starved' < Threshold) /\ 2 * (streak' + o') <= Room(m'),
             m' = 0 => streak' = 0
      PROVE  StreakRoom'
  BY <1>3, <1>5 DEF StreakRoom, ToCome
<1>6. Free \in SUBSET Lanes /\ Counting \in SUBSET Lanes /\ Open \in SUBSET Lanes
  BY DEF Free, Counting, Open
<1>7. Room(m) \in Int /\ Room(m') \in Int
  BY <1>2, <1>3, RoomGrows
<1>8. CASE \E l \in Lanes : LaneStep(l)
  <2>1. PICK l \in Lanes : LaneStep(l)
    BY <1>8
  <2>2. CASE /\ streak' = streak /\ starved' = starved
             /\ Free' = Free /\ Counting' = Counting
             /\ Open' \subseteq Open \/ starved < Threshold
    <3>1. m' = m /\ c' = c
      BY <2>2
    <3>2. o' <= o \/ starved < Threshold
      BY <1>6, <2>2, Sizes
    <3> HIDE DEF m, c, o
    <3>3. QED
      BY <1>1, <1>2, <1>3, <1>4, <1>5, <1>7, <2>2, <3>1, <3>2
  <2>3. CASE /\ streak' = streak + 1 /\ starved' = starved
             /\ Free' = Free /\ l \in Open /\ Open' = Open \ {l}
             /\ l \notin Counting /\ Counting' = Counting \cup {l}
    <3>1. m' = m
      BY <2>3
    <3>2. o' = o - 1
      BY <1>6, <2>3, Sizes
    <3>3. c' = c + 1
      BY <1>6, <2>3, Sizes, FS_AddElement
    <3> HIDE DEF m, c, o
    <3>4. QED
      BY <1>1, <1>2, <1>3, <1>4, <1>5, <1>7, <2>3, <3>1, <3>2, <3>3
  <2>4. CASE streak' = 0 /\ starved' = starved /\ l \in Free /\ Free' = Free \ {l}
    <3> HIDE DEF m, c, o
    <3>1. CASE m' = 0
      BY <1>5, <2>4, <3>1
    <3>2. CASE m' # 0
      <4>1. Room(m') >= 2 * (Threshold - 1 + m') /\ Room(m') >= 2 * m'
        BY <1>3, <3>2, RoomEnough
      <4>2. CASE starved' < Threshold
        <5>1. 2 * (streak' + (Threshold - 1 + m' - starved' - c')) <= Room(m')
          BY <1>1, <1>3, <1>7, <2>4, <4>1, <4>2
        <5>2. QED
          BY <1>5, <3>2, <4>2, <5>1
      <4>3. CASE ~(starved' < Threshold)
        <5>1. o' <= m'
          BY <1>3, Zenon
        <5>2. 2 * (streak' + o') <= Room(m')
          BY <1>3, <1>7, <2>4, <4>1, <5>1
        <5>3. QED
          BY <1>5, <3>2, <4>3, <5>2
      <4>4. QED
        BY <4>2, <4>3
    <3>3. QED
      BY <3>1, <3>2
  <2>5. CASE /\ streak' = streak /\ starved' = starved + 1
             /\ Free' = Free /\ Open' = Open
             /\ l \in Counting /\ Counting' = Counting \ {l}
    <3>1. m' = m /\ o' = o
      BY <2>5
    <3>2. c' = c - 1
      BY <1>6, <2>5, Sizes
    <3> HIDE DEF m, c, o
    <3>3. QED
      BY <1>1, <1>2, <1>3, <1>4, <1>5, <1>7, <2>5, <3>1, <3>2
  <2>6. CASE /\ streak' = streak /\ starved' = 0
             /\ l \notin Free /\ Free' = Free \cup {l} /\ Counting' = Counting
    <3>1. c' = c
      BY <2>6
    <3>2. m' = m + 1
      BY <1>6, <2>6, Sizes, FS_AddElement
    <3> HIDE DEF m, c, o
    <3>3. Room(m') = Room(m) + 2 * Threshold + 2 * m
      BY <1>2, <3>2, RoomGrows
    <3>4. m = 0 => Room(m) = 0
      BY <1>1 DEF Room
    <3>5. 2 * (streak - c) <= Room(m)
      BY <1>1, <1>2, <1>4, <1>7, <3>4
    <3>6. QED
      BY <1>1, <1>2, <1>3, <1>5, <1>7, <2>6, <3>1, <3>2, <3>3, <3>5
  <2>7. QED
    BY <2>1, <2>2, <2>3, <2>4, <2>5, <2>6, StreakMoves
<1>9. CASE PublishSlot \/ SetMask \/ Shutdown \/ UNCHANGED vars
  <2>1. pc' = pc /\ reg' = reg /\ starved' = starved /\ streak' = streak
    BY <1>9 DEF PublishSlot, SetMask, Shutdown, vars
  <2>2. Free' = Free /\ Counting' = Counting /\ Open' = Open
    BY <2>1 DEF Free, Counting, Open, OwesReset, OwesCount, MayClaim
  <2>3. QED
    BY <2>1, <2>2 DEF StreakRoom, ToCome
<1>10. QED
  BY <1>8, <1>9 DEF Next

\* Before the first claim every lane is free.
LEMMA StreakInit == Init => StreakRoom
<1> SUFFICES ASSUME Init, Free # {} PROVE StreakRoom
  BY Zenon DEF Init, StreakRoom
<1>1. Free = Lanes /\ Counting = {}
  BY DEF Init, Free, Counting, OwesReset, OwesCount
<1>2. Cardinality(Free) \in Nat /\ Cardinality(Free) # 0 /\ Cardinality(Counting) = 0
  BY <1>1, LanesAssumption, FS_CardinalityType, FS_EmptySet
<1>3. Room(Cardinality(Free)) >= 2 * (Threshold - 1 + Cardinality(Free))
  BY <1>2, RoomEnough
<1>4. starved = 0 /\ streak = 0 /\ Threshold \in Nat \ {0}
  BY ThresholdAssumption DEF Init
<1>5. QED
  BY <1>2, <1>3, <1>4 DEF StreakRoom, ToCome

\* Between two claims of lower priority there are at most StreakLimit claims of
\* CRITICAL and HIGH slots, for any number of lanes and any threshold.
THEOREM StreakBounded == Spec => []HighStreakBounded
<1>1. Spec => [](TypeOK /\ StreakRoom)
  BY TypeInit, TypeStep, CounterInit, CounterStep, StreakInit, StreakStep, PTL DEF Spec
<1>2. TypeOK /\ StreakRoom => HighStreakBounded
  <2> SUFFICES ASSUME TypeOK, StreakRoom PROVE HighStreakBounded
    OBVIOUS
  <2> DEFINE n == Cardinality(Lanes)
             m == Cardinality(Free)
             c == Cardinality(Counting)
             o == Cardinality(Open)
  <2>1. /\ Free \in SUBSET Lanes /\ Counting \in SUBSET Free /\ Open \in SUBSET Free
        /\ Counting \cap Open = {}
    BY DEF Free, Counting, Open, OwesReset, OwesCount, MayClaim
  <2>2. m \in Nat /\ c \in Nat /\ o \in Nat /\ c + o <= m
    BY <2>1, KindSizes, Zenon
  <2>3. n \in Nat /\ m <= n
    BY <2>1, Sizes
  <2>4. streak \in Nat /\ starved \in Nat /\ Threshold \in Nat \ {0}
    BY ThresholdAssumption DEF TypeOK
  <2>5. 2 * streak <= Room(m)
    <3>1. CASE Free = {}
      <4>1. m = 0
        BY <3>1, FS_EmptySet
      <4>2. Room(m) = 0
        BY <2>4, <4>1 DEF Room
      <4>3. QED
        BY <3>1, <4>2 DEF StreakRoom
    <3>2. CASE Free # {}
      <4>1. ToCome \in Nat
        BY <2>2, <2>4 DEF ToCome
      <4>2. Room(m) \in Int
        BY <2>2, RoomGrows
      <4>3. QED
        BY <2>4, <3>2, <4>1, <4>2 DEF StreakRoom
    <3>3. QED
      BY <3>1, <3>2
  <2> HIDE DEF m, c, o
  <2>6. Room(m) <= Room(n)
    <3>1. PICK k \in Nat : n = m + k
      <4>1. n - m \in Nat /\ n = m + (n - m)
        BY <2>2, <2>3
      <4>2. QED
        BY <4>1
    <3>2. k * m \in Nat /\ k * k \in Nat /\ k * Threshold \in Nat /\ k * k >= k
      BY <2>2, <2>4, <3>1
    <3>3. Room(n) = Room(m) + 2 * (k * Threshold) + 2 * (k * m) + k * k - k
      BY <2>2, <2>4, <3>1 DEF Room
    <3>4. Room(m) \in Int
      BY <2>2, RoomGrows
    <3>5. QED
      BY <3>1, <3>2, <3>3, <3>4
  <2> HIDE DEF n
  <2>7. Room(n) = 2 * (n * Threshold) + n * (n - 1)
    BY <2>3, <2>4 DEF Room
  <2>8. n * (n - 1) \in Int /\ n * Threshold \in Int
    BY <2>3, <2>4
  <2>9. 2 * streak <= 2 * (n * Threshold) + n * (n - 1)
    BY <2>2, <2>3, <2>4, <2>5, <2>6, <2>7, RoomGrows
  <2>10. streak <= n * Threshold + (n * (n - 1)) \div 2
    BY <2>4, <2>8, <2>9
  <2>11. QED
    BY <2>10 DEF HighStreakBounded, StreakLimit, n
<1>3. QED
  BY <1>1, <1>2, PTL

=============================================================================
