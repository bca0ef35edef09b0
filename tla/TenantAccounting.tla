-------------------------- MODULE TenantAccounting --------------------------
(***************************************************************************)
(* The accounting of one tenant: the atomic counters of TenantState, shared *)
(* by the publisher threads that hold clones of the tenant's handle, a      *)
(* thread that takes counter snapshots, a thread that quiesces the tenant,  *)
(* the host pump that reports drained slots, and the registry that revokes  *)
(* the tenant.  Every atomic load and every compare-exchange is a step.     *)
(*                                                                          *)
(* Whether the ring accepts a slot is the business of MegakernelRing; here  *)
(* it is a choice.  The atomic additions of note_drained, record_quiesce    *)
(* and the rollback are compare-exchange loops without a guard, and so one  *)
(* step each.                                                               *)
(***************************************************************************)
EXTENDS Integers, FiniteSets

CONSTANTS
  Publishers,   \* threads that publish through clones of one handle
  Cap,          \* max_outstanding_slots
  MaxSpins,     \* max_spins of every quiesce call
  MaxCalls,     \* bound: publish_slot calls in a behaviour
  MaxSnapshots, \* bound: runtime_counters calls in a behaviour
  MaxQuiesces   \* bound: quiesce calls in a behaviour

ASSUME PublishersAssumption == IsFiniteSet(Publishers)
ASSUME CapAssumption == Cap \in Nat \ {0}
ASSUME BoundsAssumption ==
  MaxSpins \in Nat /\ MaxCalls \in Nat /\ MaxSnapshots \in Nat /\ MaxQuiesces \in Nat

VARIABLES
  published,  \* published_count
  drained,    \* drained_count
  revoked,    \* the revoked flag
  inflight,   \* slots in the ring that the pump has not reported drained
  calls,      \* publish_slot calls so far
  pub,        \* each publisher: program counter, the values it loaded, its last result
  snap,       \* the thread in runtime_counters
  quiet,      \* the thread in quiesce, with the counters of record_quiesce
  panicked    \* a checked_* helper has panicked

vars == <<published, drained, revoked, inflight, calls, pub, snap, quiet, panicked>>
counters == <<published, drained, revoked, inflight>>

Results == {"none", "ok", "revoked", "backpressure", "accounting", "rejected"}

Init ==
  /\ published = 0 /\ drained = 0 /\ revoked = FALSE /\ inflight = 0 /\ calls = 0
  /\ pub = [p \in Publishers |->
              [pc |-> "idle", seen |-> 0, drained |-> 0, backlog |-> 0, result |-> "none"]]
  /\ snap = [pc |-> "idle", seen |-> 0, taken |-> 0]
  /\ quiet = [pc |-> "idle", seen |-> 0, polls |-> 0, calls |-> 0, timeouts |-> 0,
              stopped |-> FALSE, revokedFirst |-> FALSE, late |-> 0, result |-> "none"]
  /\ panicked = FALSE
-----------------------------------------------------------------------------
(* publish_slot *)

Return(p, result) == pub' = [pub EXCEPT ![p] = [@ EXCEPT !.pc = "idle", !.result = result]]

\* Slip: the revoked flag is not looked at.
CheckNothing(p) ==
  /\ pub[p].pc = "idle" /\ calls < MaxCalls
  /\ calls' = calls + 1
  /\ pub' = [pub EXCEPT ![p].pc = "load"]
  /\ UNCHANGED <<counters, snap, quiet, panicked>>

\* The revoked check that opens publish_slot.  The opcode window check that
\* follows it reads constants only.
CheckRevoked(p) ==
  /\ pub[p].pc = "idle" /\ calls < MaxCalls
  /\ calls' = calls + 1
  /\ IF revoked THEN Return(p, "revoked") ELSE pub' = [pub EXCEPT ![p].pc = "load"]
  /\ UNCHANGED <<counters, snap, quiet, panicked>>

\* reserve_publish_slot: the load of published_count before the update loop.
LoadPublished(p) ==
  /\ pub[p].pc = "load"
  /\ pub' = [pub EXCEPT ![p] = [@ EXCEPT !.pc = "update", !.seen = published,
                                         !.backlog = published - drained]]
  /\ UNCHANGED <<counters, calls, snap, quiet, panicked>>

\* Slip: the drained_count of the thread's previous reservation is used.
LoadDrainedStale(p) ==
  /\ pub[p].pc = "update"
  /\ IF pub[p].seen - pub[p].drained >= Cap THEN Return(p, "backpressure")
     ELSE pub' = [pub EXCEPT ![p] = [@ EXCEPT !.pc = "exchange", !.drained = drained]]
  /\ UNCHANGED <<counters, calls, snap, quiet, panicked>>

\* The update closure: it loads drained_count after published_count and
\* refuses an impossible difference and a full backlog.
LoadDrained(p) ==
  /\ pub[p].pc = "update"
  /\ IF pub[p].seen < drained THEN Return(p, "accounting")
     ELSE IF pub[p].seen - drained >= Cap THEN Return(p, "backpressure")
     ELSE pub' = [pub EXCEPT ![p] = [@ EXCEPT !.pc = "exchange", !.drained = drained]]
  /\ UNCHANGED <<counters, calls, snap, quiet, panicked>>

\* Slip: after a failed exchange the old drained_count is used again.
ExchangeKeepsCheck(p) ==
  /\ pub[p].pc = "exchange"
  /\ \/ /\ published = pub[p].seen
        /\ published' = published + 1
        /\ pub' = [pub EXCEPT ![p].pc = "publish"]
     \/ /\ pub' = [pub EXCEPT ![p] = [@ EXCEPT !.seen = published,
                                               !.backlog = published - drained]]
        /\ UNCHANGED published
  /\ UNCHANGED <<drained, revoked, inflight, calls, snap, quiet, panicked>>

\* compare_exchange_weak: it may fail although the value matches, and a
\* failure repeats the closure on the value it returned.
Exchange(p) ==
  /\ pub[p].pc = "exchange"
  /\ \/ /\ published = pub[p].seen
        /\ published' = published + 1
        /\ pub' = [pub EXCEPT ![p].pc = "publish"]
     \/ /\ pub' = [pub EXCEPT ![p] = [@ EXCEPT !.pc = "update", !.seen = published,
                                               !.backlog = published - drained]]
        /\ UNCHANGED published
  /\ UNCHANGED <<drained, revoked, inflight, calls, snap, quiet, panicked>>

\* Megakernel::publish_slot accepts the slot ...
RingAccepts(p) ==
  /\ pub[p].pc = "publish"
  /\ inflight' = inflight + 1
  /\ Return(p, "ok")
  /\ UNCHANGED <<published, drained, revoked, calls, snap, quiet, panicked>>

\* Slip: the error is returned without the rollback.
RingRejectsOnly(p) ==
  /\ pub[p].pc = "publish"
  /\ Return(p, "rejected")
  /\ UNCHANGED <<counters, calls, snap, quiet, panicked>>

\* ... or rejects it, because the slot is in flight.
RingRejects(p) ==
  /\ pub[p].pc = "publish"
  /\ pub' = [pub EXCEPT ![p].pc = "rollback"]
  /\ UNCHANGED <<counters, calls, snap, quiet, panicked>>

\* The rollback of a rejected slot; checked_atomic_sub_u64 panics below zero.
Rollback(p) ==
  /\ pub[p].pc = "rollback"
  /\ IF published = 0 THEN panicked' = TRUE /\ UNCHANGED published
                      ELSE published' = published - 1 /\ UNCHANGED panicked
  /\ Return(p, "rejected")
  /\ UNCHANGED <<drained, revoked, inflight, calls, snap, quiet>>
-----------------------------------------------------------------------------
(* The other threads *)

\* note_drained: the pump reports slots that were in the ring.
NoteDrained ==
  \E n \in 1 .. inflight :
    /\ drained' = drained + n
    /\ inflight' = inflight - n
    /\ UNCHANGED <<published, revoked, calls, pub, snap, quiet, panicked>>

\* TenantRegistry::unregister, the store to the handle.
Unregister ==
  /\ ~revoked
  /\ revoked' = TRUE
  /\ UNCHANGED <<published, drained, inflight, calls, pub, snap, quiet, panicked>>

\* runtime_counters: published_count first, drained_count second.
SnapshotPublished ==
  /\ snap.pc = "idle" /\ snap.taken < MaxSnapshots
  /\ snap' = [snap EXCEPT !.pc = "drained", !.seen = published]
  /\ UNCHANGED <<counters, calls, pub, quiet, panicked>>

SnapshotDrained ==
  /\ snap.pc = "drained"
  /\ snap' = [snap EXCEPT !.pc = "idle", !.taken = @ + 1]
  /\ panicked' = (panicked \/ snap.seen < drained)
  /\ UNCHANGED <<counters, calls, pub, quiet>>

AllIdle == \A p \in Publishers : pub[p].pc = "idle"

\* Publishers that have passed the revoked check and not reserved a slot.
Entered == {p \in Publishers : pub[p].pc \in {"load", "update", "exchange"}}

\* quiesce begins.  The model notes whether the tenant was revoked by then,
\* whether in addition no publisher was inside publish_slot, and how many
\* publishers had passed the revoked check and not reserved a slot.
BeginQuiesce ==
  /\ quiet.pc = "idle" /\ quiet.calls < MaxQuiesces
  /\ quiet' = [quiet EXCEPT !.pc = "published", !.polls = 0, !.result = "none",
                            !.revokedFirst = revoked, !.stopped = revoked /\ AllIdle,
                            !.late = Cardinality(Entered)]
  /\ UNCHANGED <<counters, calls, pub, snap, panicked>>

PollPublished ==
  /\ quiet.pc = "published"
  /\ quiet' = [quiet EXCEPT !.pc = "drained", !.seen = published]
  /\ UNCHANGED <<counters, calls, pub, snap, panicked>>

\* record_quiesce, then the result.
Quiesced(result) ==
  quiet' = [quiet EXCEPT !.pc = "idle", !.calls = @ + 1, !.result = result,
                         !.timeouts = @ + (IF result = "ok" THEN 0 ELSE 1)]

\* Slip: a backlog of one counts as drained.
PollDrainedEarly ==
  /\ quiet.pc = "drained"
  /\ IF quiet.polls < MaxSpins
       THEN IF drained + 1 >= quiet.seen
              THEN Quiesced("ok")
              ELSE quiet' = [quiet EXCEPT !.pc = "published", !.polls = @ + 1]
       ELSE Quiesced(IF quiet.seen < drained THEN "accounting" ELSE "timeout")
  /\ UNCHANGED <<counters, calls, pub, snap, panicked>>

\* One poll of the loop; after max_spins of them, the two loads of the timeout
\* report, whose difference is checked.
PollDrained ==
  /\ quiet.pc = "drained"
  /\ IF quiet.polls < MaxSpins
       THEN IF drained >= quiet.seen
              THEN Quiesced("ok")
              ELSE quiet' = [quiet EXCEPT !.pc = "published", !.polls = @ + 1]
       ELSE Quiesced(IF quiet.seen < drained THEN "accounting" ELSE "timeout")
  /\ UNCHANGED <<counters, calls, pub, snap, panicked>>

PublisherStep(p) ==
  \/ CheckRevoked(p) \/ LoadPublished(p) \/ LoadDrained(p) \/ Exchange(p)
  \/ RingAccepts(p) \/ RingRejects(p) \/ Rollback(p)

WatcherStep ==
  \/ SnapshotPublished \/ SnapshotDrained
  \/ BeginQuiesce \/ PollPublished \/ PollDrained

Next ==
  \/ \E p \in Publishers : PublisherStep(p)
  \/ NoteDrained \/ Unregister \/ WatcherStep

Spec == Init /\ [][Next]_vars
-----------------------------------------------------------------------------
(* Properties *)

\* Counters are naturals, and every thread is at one of its program points.
TypeOK ==
  /\ published \in Nat /\ drained \in Nat /\ inflight \in Nat
  /\ revoked \in BOOLEAN /\ panicked \in BOOLEAN /\ calls \in 0 .. MaxCalls
  /\ pub \in [Publishers ->
                [pc : {"idle", "load", "update", "exchange", "publish", "rollback"},
                 seen : Nat, drained : Nat, backlog : Int, result : Results]]
  /\ snap \in [pc : {"idle", "drained"}, seen : Nat, taken : 0 .. MaxSnapshots]
  /\ quiet \in [pc : {"idle", "published", "drained"}, seen : Nat, polls : 0 .. MaxSpins,
                calls : 0 .. MaxQuiesces, timeouts : Nat, stopped : BOOLEAN,
                revokedFirst : BOOLEAN, late : Nat,
                result : {"none", "ok", "timeout", "accounting"}]

\* Publishers between a successful reservation and the end of their call.
Holders == {p \in Publishers : pub[p].pc \in {"publish", "rollback"}}

\* No slot is lost or counted twice: at every instant published_count is the
\* drained slots, the slots in the ring and the reservations under way, also
\* while rejected slots are being rolled back.
AccountingExact == published = drained + inflight + Cardinality(Holders)

\* The backlog never exceeds max_outstanding_slots, although the two counters
\* are loaded in separate steps and published_count may return to an old value
\* (a rollback) between the load and the exchange.
BacklogWithinCap == published - drained <= Cap

\* Backpressure is reported only to a publisher that found the backlog full
\* when it loaded published_count; it is never the product of two loads that
\* do not belong together.
BackpressureWhenFull ==
  \A p \in Publishers : pub[p].result = "backpressure" /\ pub[p].pc = "idle" =>
    pub[p].backlog = Cap

\* A quiesce that starts when the tenant is revoked and no publish is under
\* way, and succeeds, leaves nothing in the ring.
QuiescedAfterStop ==
  quiet.result = "ok" /\ quiet.stopped => inflight = 0 /\ published = drained

\* The one window that unregister leaves open is between the revoked check of
\* publish_slot and the reservation: after unregister and a quiesce that
\* succeeds, the slots in the ring, the reservations under way and the calls
\* that may still reserve one are together no more than the publishers that
\* were in that window when quiesce began.
StragglersBounded ==
  quiet.result = "ok" /\ quiet.revokedFirst =>
    inflight + Cardinality(Holders) + Cardinality(Entered) <= quiet.late

\* What the panic message of runtime_counters and the error of
\* reserve_publish_slot assert: no thread ever sees drained_count exceed
\* published_count.
SnapshotConsistent == ~panicked

\* What the module documentation promises for unregister followed by quiesce:
\* once it has succeeded, the tenant has no slot left in the ring.
HardDrain == quiet.result = "ok" /\ quiet.revokedFirst => inflight = 0
=============================================================================
