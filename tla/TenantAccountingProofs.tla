----------------------- MODULE TenantAccountingProofs -----------------------
(***************************************************************************)
(* Proofs about TenantAccounting, for every finite set of publishers, every *)
(* cap and every bound.                                                     *)
(***************************************************************************)
EXTENDS TenantAccounting, FiniteSetTheorems, TLAPS

\* A leaf that names no prover is for the SMT solver, tried twice, and for Zenon
\* where the solver finds nothing.
USE SMTT(60), SMTT(70), Zenon

\* What a publisher knows of the counters at each of its program points.  The
\* values it holds are old; drained_count only grows, so an old one is a lower
\* bound.
LocalInv ==
  \A p \in Publishers :
    /\ pub[p].pc = "update" =>
         pub[p].backlog <= Cap /\ pub[p].seen - pub[p].backlog <= drained
    /\ pub[p].pc = "exchange" =>
         pub[p].seen - pub[p].drained < Cap /\ pub[p].drained <= drained

\* What a quiesce that began on a stopped tenant knows.
QuietInv ==
  quiet.stopped =>
    /\ revoked /\ AllIdle
    /\ quiet.pc = "drained" => quiet.seen = published
    /\ quiet.result = "ok" => inflight = 0

\* A call under way is counted when it ends.
InCall ==
  /\ snap.pc = "drained" => snap.taken < MaxSnapshots
  /\ quiet.pc # "idle" => quiet.calls < MaxQuiesces

IInv == TypeOK /\ AccountingExact /\ BacklogWithinCap /\ LocalInv
          /\ BackpressureWhenFull /\ QuietInv /\ InCall

Locals == [pc : {"idle", "load", "update", "exchange", "publish", "rollback"},
           seen : Nat, drained : Nat, backlog : Int, result : Results]

Quiescer == [pc : {"idle", "published", "drained"}, seen : Nat, polls : 0 .. MaxSpins,
             calls : 0 .. MaxQuiesces, timeouts : Nat, stopped : BOOLEAN,
             revokedFirst : BOOLEAN, late : Nat,
             result : {"none", "ok", "timeout", "accounting"}]

USE PublishersAssumption, CapAssumption, BoundsAssumption

\* The reservations under way can be counted.
LEMMA HoldersFinite == IsFiniteSet(Holders) /\ Cardinality(Holders) \in Nat
<1>1. Holders \subseteq Publishers
  BY DEF Holders
<1>2. IsFiniteSet(Holders)
  BY <1>1, FS_Subset
<1> QED
  BY <1>2, FS_CardinalityType

\* So can the publishers past the revoked check.
LEMMA EnteredFinite ==
  /\ IsFiniteSet(Entered) /\ Cardinality(Entered) \in Nat
  /\ \A S \in SUBSET Entered : Cardinality(S) \in Nat /\ Cardinality(S) <= Cardinality(Entered)
  /\ \A p \in Entered : Cardinality(Entered \ {p}) = Cardinality(Entered) - 1
<1>1. Entered \subseteq Publishers
  BY DEF Entered
<1>2. IsFiniteSet(Entered)
  BY <1>1, FS_Subset
<1>3. Cardinality(Entered) \in Nat
  BY <1>2, FS_CardinalityType
<1>4. ASSUME NEW S \in SUBSET Entered
      PROVE  Cardinality(S) \in Nat /\ Cardinality(S) <= Cardinality(Entered)
  BY <1>2, FS_Subset, FS_CardinalityType
<1>5. ASSUME NEW p \in Entered PROVE Cardinality(Entered \ {p}) = Cardinality(Entered) - 1
  BY <1>2, FS_RemoveElement
<1> QED
  BY <1>2, <1>3, <1>4, <1>5

\* The initial state satisfies the inductive invariant.
LEMMA InitIInv == Init => IInv
<1> SUFFICES ASSUME Init PROVE IInv
  OBVIOUS
<1>1. TypeOK
  <2>1. pub \in [Publishers -> Locals]
    BY DEF Init, Locals, Results
  <2>2. snap \in [pc : {"idle", "drained"}, seen : Nat, taken : 0 .. MaxSnapshots]
    BY DEF Init
  <2>3. quiet \in Quiescer
    BY DEF Init, Quiescer
  <2>4. revoked \in BOOLEAN /\ panicked \in BOOLEAN
    BY Zenon DEF Init
  <2> QED
    BY <2>1, <2>2, <2>3, <2>4 DEF Init, TypeOK, Locals, Quiescer
<1>2. Holders = {}
  BY DEF Init, Holders
<1>3. AccountingExact
  BY <1>2, FS_EmptySet DEF Init, AccountingExact
<1>4. BacklogWithinCap /\ LocalInv /\ BackpressureWhenFull /\ QuietInv /\ InCall
  BY DEF InCall, Init, BacklogWithinCap, LocalInv, BackpressureWhenFull, QuietInv
<1> QED
  BY <1>1, <1>3, <1>4 DEF IInv

\* A publisher step changes the locals of one publisher.
LEMMA PubUpdate ==
  ASSUME IInv, NEW p \in Publishers, NEW r \in Locals, pub' = [pub EXCEPT ![p] = r]
  PROVE  /\ pub' \in [Publishers -> Locals]
         /\ pub'[p] = r
         /\ \A q \in Publishers : q # p => pub'[q] = pub[q]
BY DEF IInv, TypeOK, Locals

\* A step that leaves the reservations alone leaves their number alone.
LEMMA SameHolders ==
  ASSUME NEW p \in Publishers,
         \A q \in Publishers : q # p => pub'[q] = pub[q],
         pub[p].pc \in {"publish", "rollback"} <=> pub'[p].pc \in {"publish", "rollback"}
  PROVE  Holders' = Holders
BY DEF Holders

\* The steps of publish_slot before a reservation, which change no counter.
LEMMA BeforeReservation ==
  ASSUME IInv, NEW p \in Publishers,
         \/ CheckRevoked(p) \/ LoadPublished(p) \/ LoadDrained(p)
         \/ Exchange(p) /\ published' = published
  PROVE  IInv'
<1> USE DEF IInv, Return
<1>0. /\ pub \in [Publishers -> Locals] /\ pub[p] \in Locals
      /\ published \in Nat /\ drained \in Nat /\ inflight \in Nat
  BY DEF TypeOK, Locals
<1>1. UNCHANGED <<counters, snap, quiet, panicked>> /\ calls' \in 0 .. MaxCalls
  BY DEF CheckRevoked, LoadPublished, LoadDrained, Exchange, TypeOK, counters
<1> DEFINE n == pub'[p]
<1>2. /\ n \in Locals /\ pub' = [pub EXCEPT ![p] = n]
      /\ n.pc \in {"idle", "load", "update", "exchange"}
      /\ n.pc = "update" => n.seen = published /\ n.backlog = published - drained
      /\ n.pc = "exchange" => n.seen - n.drained < Cap /\ n.drained = drained
      /\ n.pc = "idle" /\ n.result = "backpressure" => n.backlog = Cap
      /\ pub[p].pc = "idle" /\ revoked => n.pc = "idle"
  <2>1. CASE CheckRevoked(p)
    <3>1. CASE revoked
      <4> DEFINE r == [pub[p] EXCEPT !.pc = "idle", !.result = "revoked"]
      <4>1. r \in Locals /\ r.pc = "idle" /\ r.result = "revoked"
        BY <1>0, Zenon DEF Locals, Results
      <4>2. pub' = [pub EXCEPT ![p] = r] /\ n = r
        BY <1>0, <2>1, <3>1 DEF CheckRevoked
      <4> HIDE DEF r
      <4> QED
        BY <4>1, <4>2, Zenon
    <3>2. CASE ~revoked
      <4> DEFINE r == [pub[p] EXCEPT !.pc = "load"]
      <4>1. r \in Locals /\ r.pc = "load"
        BY <1>0 DEF Locals
      <4>2. pub' = [pub EXCEPT ![p] = r] /\ n = r
        BY <1>0, <2>1, <3>2 DEF CheckRevoked
      <4> HIDE DEF r
      <4> QED
        BY <4>1, <4>2, <3>2, Zenon
    <3> QED
      BY <3>1, <3>2
  <2>2. CASE LoadPublished(p) \/ (Exchange(p) /\ published' = published)
    <3> DEFINE r == [pub[p] EXCEPT !.pc = "update", !.seen = published,
                                   !.backlog = published - drained]
    <3>1. published - drained \in Int
      BY <1>0
    <3>2. r \in Locals /\ r.pc = "update" /\ r.seen = published
            /\ r.backlog = published - drained
      BY <1>0, <3>1, Zenon DEF Locals
    <3>3. pub' = [pub EXCEPT ![p] = r] /\ n = r
      BY <2>2, <1>0 DEF LoadPublished, Exchange
    <3>4. pub[p].pc # "idle"
      BY <2>2 DEF LoadPublished, Exchange
    <3> HIDE DEF r
    <3> QED
      BY <3>2, <3>3, <3>4, Zenon
  <2>3. CASE LoadDrained(p)
    <3>0. pub[p].pc = "update" /\ pub[p].seen \in Nat /\ pub[p].backlog \in Int
      BY <2>3, <1>0 DEF LoadDrained, Locals
    <3>1. CASE pub[p].seen < drained
      <4> DEFINE r == [pub[p] EXCEPT !.pc = "idle", !.result = "accounting"]
      <4>1. r \in Locals /\ r.pc = "idle" /\ r.result = "accounting"
        BY <1>0, Zenon DEF Locals, Results
      <4>2. pub' = [pub EXCEPT ![p] = r] /\ n = r
        BY <1>0, <2>3, <3>1 DEF LoadDrained
      <4> HIDE DEF r
      <4> QED
        BY <4>1, <4>2, Zenon
    <3>2. CASE ~(pub[p].seen < drained) /\ pub[p].seen - drained >= Cap
      <4> DEFINE r == [pub[p] EXCEPT !.pc = "idle", !.result = "backpressure"]
      <4>1. r \in Locals /\ r.pc = "idle" /\ r.backlog = pub[p].backlog
        BY <1>0, Zenon DEF Locals, Results
      <4>2. pub' = [pub EXCEPT ![p] = r] /\ n = r
        BY <1>0, <2>3, <3>2 DEF LoadDrained
      <4>3. pub[p].backlog = Cap
        <5>1. pub[p].backlog <= Cap /\ pub[p].seen - pub[p].backlog <= drained
          BY <3>0 DEF LocalInv
        <5> QED
          BY <5>1, <3>0, <3>2, <1>0
      <4> HIDE DEF r
      <4> QED
        BY <4>1, <4>2, <4>3, Zenon
    <3>3. CASE ~(pub[p].seen < drained) /\ ~(pub[p].seen - drained >= Cap)
      <4> DEFINE r == [pub[p] EXCEPT !.pc = "exchange", !.drained = drained]
      <4>1. r \in Locals /\ r.pc = "exchange" /\ r.seen = pub[p].seen /\ r.drained = drained
        BY <1>0, Zenon DEF Locals
      <4>2. pub' = [pub EXCEPT ![p] = r] /\ n = r
        BY <1>0, <2>3, <3>3 DEF LoadDrained
      <4>3. r.seen - r.drained < Cap
        BY <4>1, <3>3, <3>0, <1>0
      <4> HIDE DEF r
      <4> QED
        BY <4>1, <4>2, <4>3, <3>0, Zenon
    <3> QED
      BY <3>1, <3>2, <3>3
  <2>4. \/ CheckRevoked(p) \/ LoadPublished(p) \/ LoadDrained(p)
        \/ Exchange(p) /\ published' = published
    OBVIOUS
  <2>5. \/ CheckRevoked(p) \/ (LoadPublished(p) \/ (Exchange(p) /\ published' = published))
        \/ LoadDrained(p)
    BY ONLY <2>4
  <2> HIDE DEF n
  <2> QED
    BY ONLY <2>1, <2>2, <2>3, <2>5
<1>3. /\ pub' \in [Publishers -> Locals]
      /\ \A q \in Publishers : q # p => pub'[q] = pub[q]
  BY <1>2, PubUpdate
<1>4. pub[p].pc \notin {"publish", "rollback"}
  BY DEF CheckRevoked, LoadPublished, LoadDrained, Exchange
<1>5. TypeOK'
  BY <1>1, <1>3 DEF TypeOK, Locals, counters
<1>6. AccountingExact'
  <2>1. Holders' = Holders
    BY <1>2, <1>3, <1>4, SameHolders
  <2> QED
    BY <2>1, <1>1 DEF AccountingExact, counters
<1>7. BacklogWithinCap'
  BY <1>1 DEF BacklogWithinCap, counters
<1>8. LocalInv'
  <2>1. published - drained <= Cap
    BY DEF BacklogWithinCap
  <2>2. published - (published - drained) <= drained
    BY <1>0
  <2> QED
    BY <1>0, <1>1, <1>2, <1>3, <2>1, <2>2 DEF LocalInv, counters
<1>9. BackpressureWhenFull'
  BY <1>2, <1>3 DEF BackpressureWhenFull
<1>10. QuietInv'
  <2>1. quiet.stopped => AllIdle'
    BY <1>2, <1>3 DEF QuietInv, AllIdle
  <2> QED
    BY <2>1, <1>1 DEF QuietInv, counters
<1>11. InCall'
  BY <1>1 DEF InCall
<1> QED
  BY <1>5, <1>6, <1>7, <1>8, <1>9, <1>10, <1>11

\* A successful exchange reserves a slot within the cap: the publisher's old
\* drained_count is at most the current one.
LEMMA ReservationIInv ==
  ASSUME IInv, NEW p \in Publishers, Exchange(p), published' # published
  PROVE  IInv'
<1> USE DEF IInv
<1>0. /\ pub \in [Publishers -> Locals] /\ pub[p] \in Locals
      /\ published \in Nat /\ drained \in Nat /\ inflight \in Nat
  BY DEF TypeOK, Locals
<1>1. /\ UNCHANGED <<drained, revoked, inflight, calls, snap, quiet, panicked>>
      /\ pub[p].pc = "exchange"
      /\ published = pub[p].seen /\ published' = published + 1
      /\ pub' = [pub EXCEPT ![p] = [pub[p] EXCEPT !.pc = "publish"]]
  BY DEF Exchange
<1> DEFINE r == [pub[p] EXCEPT !.pc = "publish"]
<1>2. r \in Locals /\ r.pc = "publish"
  BY <1>0 DEF Locals
<1> HIDE DEF r
<1>3. /\ pub' \in [Publishers -> Locals] /\ pub'[p].pc = "publish"
      /\ \A q \in Publishers : q # p => pub'[q] = pub[q]
  <2>1. pub' = [pub EXCEPT ![p] = r]
    BY <1>1 DEF r
  <2> QED
    BY <2>1, <1>2, PubUpdate, Zenon
<1>4. TypeOK'
  BY <1>0, <1>1, <1>3 DEF TypeOK, Locals
<1>5. AccountingExact'
  <2>1. Holders' = Holders \cup {p} /\ p \notin Holders
    BY <1>1, <1>3 DEF Holders
  <2>2. Cardinality(Holders') = Cardinality(Holders) + 1
    BY <2>1, HoldersFinite, FS_AddElement, Zenon
  <2> QED
    BY <2>2, <1>0, <1>1, HoldersFinite DEF AccountingExact
<1>6. BacklogWithinCap'
  <2>1. pub[p].seen - pub[p].drained < Cap /\ pub[p].drained <= drained
    BY <1>1 DEF LocalInv
  <2>2. pub[p].drained \in Nat
    BY <1>0 DEF Locals
  <2>3. (published + 1) - drained <= Cap
    BY <1>0, <1>1, <2>1, <2>2
  <2>4. published' = published + 1 /\ drained' = drained
    BY <1>1
  <2>5. published' - drained' <= Cap
    BY <2>3, <2>4, Zenon
  <2> QED
    BY ONLY <2>5 DEF BacklogWithinCap
<1>7. LocalInv' /\ BackpressureWhenFull'
  BY <1>1, <1>3 DEF LocalInv, BackpressureWhenFull
<1>8. QuietInv' /\ InCall'
  <2>1. ~AllIdle
    BY <1>1 DEF AllIdle
  <2> QED
    BY <2>1, <1>1 DEF QuietInv, InCall
<1> QED
  BY <1>4, <1>5, <1>6, <1>7, <1>8

\* The end of a reservation: its slot is in the ring, or it is rolled back.
LEMMA ReservationEndsIInv ==
  ASSUME IInv, NEW p \in Publishers, RingAccepts(p) \/ Rollback(p)
  PROVE  IInv'
<1> USE DEF IInv
<1>0. /\ pub \in [Publishers -> Locals] /\ pub[p] \in Locals
      /\ published \in Nat /\ drained \in Nat /\ inflight \in Nat
  BY DEF TypeOK, Locals
<1>1. /\ UNCHANGED <<drained, revoked, calls, snap, quiet>>
      /\ pub[p].pc \in {"publish", "rollback"}
  BY DEF RingAccepts, Rollback
<1>2. Cardinality(Holders) \in Nat /\ Cardinality(Holders \ {p}) \in Nat
        /\ Cardinality(Holders) = Cardinality(Holders \ {p}) + 1
  <2>1. p \in Holders
    BY <1>1 DEF Holders
  <2>2. IsFiniteSet(Holders \ {p})
    BY HoldersFinite, FS_RemoveElement
  <2>3. Cardinality(Holders \ {p}) \in Nat
    BY <2>2, FS_CardinalityType
  <2>4. Cardinality(Holders \ {p}) = Cardinality(Holders) - 1
    BY <2>1, HoldersFinite, FS_RemoveElement, Zenon
  <2> QED
    BY <2>3, <2>4, HoldersFinite
<1>3. published = drained + inflight + Cardinality(Holders \ {p}) + 1
  BY <1>0, <1>2 DEF AccountingExact
<1>4. /\ published' \in Nat /\ inflight' \in Nat /\ panicked' = panicked
      /\ \/ published' = published /\ inflight' = inflight + 1
         \/ published' = published - 1 /\ inflight' = inflight
  <2>1. published # 0
    BY <1>0, <1>2, <1>3
  <2> QED
    BY <2>1, <1>0 DEF RingAccepts, Rollback
<1>5. PICK result \in {"ok", "rejected"} : Return(p, result)
  BY DEF RingAccepts, Rollback
<1> DEFINE r == [pub[p] EXCEPT !.pc = "idle", !.result = result]
<1>6. r \in Locals /\ r.pc = "idle" /\ r.result = result
  BY <1>0, Zenon DEF Locals, Results
<1> HIDE DEF r
<1>7. /\ pub' \in [Publishers -> Locals] /\ pub'[p].pc = "idle" /\ pub'[p].result = result
      /\ \A q \in Publishers : q # p => pub'[q] = pub[q]
  <2>1. pub' = [pub EXCEPT ![p] = r]
    BY <1>5 DEF r, Return
  <2> QED
    BY <2>1, <1>6, PubUpdate, Zenon
<1>8. TypeOK'
  BY <1>1, <1>4, <1>7 DEF TypeOK, Locals
<1>9. AccountingExact'
  <2>1. Holders' = Holders \ {p}
    BY <1>7 DEF Holders
  <2> QED
    BY <2>1, <1>0, <1>1, <1>2, <1>3, <1>4 DEF AccountingExact
<1>10. BacklogWithinCap'
  <2>1. published - drained <= Cap
    BY DEF BacklogWithinCap
  <2>3. drained' = drained /\ published' <= published
    BY <1>0, <1>1, <1>4
  <2>4. published' - drained <= Cap
    <3>1. \A a, b, c, d \in Int : a <= b /\ b - c <= d => a - c <= d
      OBVIOUS
    <3>2. published' \in Int /\ published \in Int /\ drained \in Int /\ Cap \in Int
      BY <1>0, <1>4
    <3> QED
      BY ONLY <3>1, <3>2, <2>1, <2>3, Zenon
  <2>2. published' - drained' <= Cap
    BY <2>3, <2>4, Zenon
  <2> QED
    BY ONLY <2>2 DEF BacklogWithinCap
<1>11. LocalInv' /\ BackpressureWhenFull'
  BY <1>1, <1>7 DEF LocalInv, BackpressureWhenFull
<1>12. QuietInv' /\ InCall'
  <2>1. ~AllIdle
    BY <1>1 DEF AllIdle
  <2> QED
    BY <2>1, <1>1 DEF QuietInv, InCall
<1> QED
  BY <1>8, <1>9, <1>10, <1>11, <1>12

\* A rejection keeps the reservation until the rollback.
LEMMA RejectIInv ==
  ASSUME IInv, NEW p \in Publishers, RingRejects(p)
  PROVE  IInv'
<1> USE DEF IInv
<1>0. /\ pub \in [Publishers -> Locals] /\ pub[p] \in Locals
  BY DEF TypeOK, Locals
<1>1. /\ UNCHANGED <<counters, calls, snap, quiet, panicked>>
      /\ pub[p].pc = "publish"
  BY DEF RingRejects
<1> DEFINE r == [pub[p] EXCEPT !.pc = "rollback"]
<1>2. r \in Locals /\ r.pc = "rollback"
  BY <1>0 DEF Locals
<1>3. pub' = [pub EXCEPT ![p] = r]
  BY DEF RingRejects
<1> HIDE DEF r
<1>4. /\ pub' \in [Publishers -> Locals] /\ pub'[p].pc = "rollback"
      /\ \A q \in Publishers : q # p => pub'[q] = pub[q]
  BY <1>2, <1>3, PubUpdate, Zenon
<1>5. Holders' = Holders
  BY <1>1, <1>4, SameHolders
<1>6. TypeOK' /\ AccountingExact' /\ BacklogWithinCap'
  BY <1>1, <1>4, <1>5 DEF TypeOK, Locals, AccountingExact, BacklogWithinCap, counters
<1>7. LocalInv' /\ BackpressureWhenFull'
  BY <1>1, <1>4 DEF LocalInv, BackpressureWhenFull, counters
<1>8. QuietInv' /\ InCall'
  <2>1. ~AllIdle
    BY <1>1 DEF AllIdle
  <2> QED
    BY <2>1, <1>1 DEF QuietInv, InCall
<1> QED
  BY <1>6, <1>7, <1>8

\* Reporting drained slots moves them from the ring to drained_count.
LEMMA NoteDrainedIInv ==
  ASSUME IInv, NoteDrained
  PROVE  IInv'
<1> USE DEF IInv
<1>0. /\ published \in Nat /\ drained \in Nat /\ inflight \in Nat
      /\ pub \in [Publishers -> Locals] /\ Cardinality(Holders) \in Nat
  BY HoldersFinite DEF TypeOK, Locals
<1>1. PICK n \in 1 .. inflight : drained' = drained + n /\ inflight' = inflight - n
  BY DEF NoteDrained
<1>2. /\ published' = published /\ revoked' = revoked /\ calls' = calls /\ pub' = pub
      /\ snap' = snap /\ quiet' = quiet /\ panicked' = panicked
  BY DEF NoteDrained
<1>3. /\ drained' \in Nat /\ inflight' \in Nat /\ drained' > drained
      /\ drained' + inflight' = drained + inflight /\ inflight # 0
  BY <1>0, <1>1
<1>4. TypeOK'
  BY <1>2, <1>3 DEF TypeOK
<1>5. AccountingExact'
  <2>1. Holders' = Holders
    BY <1>2 DEF Holders
  <2> QED
    BY <2>1, <1>0, <1>2, <1>3, Zenon DEF AccountingExact
<1>6. BacklogWithinCap'
  <2>1. published - drained' <= Cap
    <3>1. \A a, b, c, d \in Int : b < c /\ a - b <= d => a - c <= d
      OBVIOUS
    <3>2. published \in Int /\ drained \in Int /\ drained' \in Int /\ Cap \in Int
      BY <1>0, <1>3
    <3>3. drained < drained' /\ published - drained <= Cap
      BY <1>0, <1>3 DEF BacklogWithinCap
    <3> QED
      BY ONLY <3>1, <3>2, <3>3, Zenon
  <2> QED
    BY <2>1, <1>2 DEF BacklogWithinCap
<1>7. LocalInv'
  <2> SUFFICES ASSUME NEW p \in Publishers
               PROVE  /\ pub[p].pc = "update" =>
                           pub[p].backlog <= Cap /\ pub[p].seen - pub[p].backlog <= drained'
                      /\ pub[p].pc = "exchange" =>
                           pub[p].seen - pub[p].drained < Cap /\ pub[p].drained <= drained'
    BY <1>2 DEF LocalInv
  <2>1. pub[p].seen \in Nat /\ pub[p].drained \in Nat /\ pub[p].backlog \in Int
    BY <1>0 DEF Locals
  <2> QED
    BY <2>1, <1>0, <1>3 DEF LocalInv
<1>8. BackpressureWhenFull'
  BY <1>2 DEF BackpressureWhenFull
<1>9. QuietInv' /\ InCall'
  BY <1>2, <1>3 DEF QuietInv, AllIdle, InCall
<1> QED
  BY <1>4, <1>5, <1>6, <1>7, <1>8, <1>9

\* Revoking the tenant, and the steps of runtime_counters, touch no counter.
LEMMA BystanderIInv ==
  ASSUME IInv, Unregister \/ SnapshotPublished \/ SnapshotDrained
  PROVE  IInv'
<1> USE DEF IInv
<1>1. /\ published' = published /\ drained' = drained /\ inflight' = inflight
      /\ calls' = calls /\ pub' = pub /\ quiet' = quiet
      /\ (revoked => revoked') /\ revoked' \in BOOLEAN /\ panicked' \in BOOLEAN
  BY Zenon DEF Unregister, SnapshotPublished, SnapshotDrained, counters, TypeOK
<1>2. snap' \in [pc : {"idle", "drained"}, seen : Nat, taken : 0 .. MaxSnapshots]
  <2>1. CASE Unregister
    BY <2>1 DEF Unregister, TypeOK
  <2>2. CASE SnapshotPublished
    BY <2>2, Zenon DEF SnapshotPublished, TypeOK
  <2>3. CASE SnapshotDrained
    <3>1. snap.taken + 1 \in 0 .. MaxSnapshots
      BY <2>3 DEF SnapshotDrained, TypeOK, InCall
    <3> QED
      BY <2>3, <3>1, Zenon DEF SnapshotDrained, TypeOK
  <2> QED
    BY <2>1, <2>2, <2>3
<1>3. TypeOK'
  BY <1>1, <1>2 DEF TypeOK
<1>4. Holders' = Holders
  BY <1>1 DEF Holders
<1>5. AccountingExact' /\ BacklogWithinCap'
  BY <1>1, <1>4 DEF AccountingExact, BacklogWithinCap
<1>6. LocalInv' /\ BackpressureWhenFull'
  BY <1>1 DEF LocalInv, BackpressureWhenFull
<1>7. QuietInv' /\ InCall'
  <2>1. QuietInv'
    BY <1>1 DEF QuietInv, AllIdle
  <2>2. snap'.pc = "drained" => snap'.taken < MaxSnapshots
    BY Zenon DEF Unregister, SnapshotPublished, SnapshotDrained, InCall, TypeOK
  <2> QED
    BY <2>1, <2>2, <1>1 DEF InCall
<1> QED
  BY <1>3, <1>5, <1>6, <1>7

\* The steps of quiesce.
LEMMA QuiesceIInv ==
  ASSUME IInv, BeginQuiesce \/ PollPublished \/ PollDrained
  PROVE  IInv'
<1> USE DEF IInv
<1>0. quiet \in Quiescer /\ published \in Nat /\ drained \in Nat /\ inflight \in Nat
        /\ revoked \in BOOLEAN
  BY DEF TypeOK, Quiescer
<1>1. /\ published' = published /\ drained' = drained /\ inflight' = inflight
      /\ revoked' = revoked /\ calls' = calls /\ pub' = pub /\ snap' = snap
      /\ panicked' = panicked
  BY Zenon DEF BeginQuiesce, PollPublished, PollDrained, counters
<1>2. AllIdle' = AllIdle
  BY <1>1 DEF AllIdle
<1>3. quiet' \in Quiescer /\ QuietInv'
  <2>1. CASE BeginQuiesce
    <3>1. quiet' = [quiet EXCEPT !.pc = "published", !.polls = 0, !.result = "none",
                       !.revokedFirst = revoked, !.stopped = revoked /\ AllIdle,
                       !.late = Cardinality(Entered)]
      BY <2>1 DEF BeginQuiesce
    <3>2. (revoked /\ AllIdle) \in BOOLEAN
      BY DEF AllIdle
    <3> DEFINE b == revoked /\ AllIdle
               n == Cardinality(Entered)
    <3>3. quiet' \in Quiescer
      <4>1. b \in BOOLEAN /\ quiet' = [quiet EXCEPT !.pc = "published", !.polls = 0,
                 !.result = "none", !.revokedFirst = revoked, !.stopped = b, !.late = n]
        BY <3>1, <3>2
      <4>2. 0 \in 0 .. MaxSpins /\ n \in Nat
        BY EnteredFinite
      <4> HIDE DEF b, n
      <4> QED
        BY ONLY <4>1, <4>2, <1>0, Zenon DEF Quiescer
    <3>4. /\ quiet'.stopped = (revoked /\ AllIdle) /\ quiet'.pc = "published"
          /\ quiet'.result = "none"
      BY <3>1, <1>0 DEF Quiescer
    <3> QED
      BY <3>3, <3>4, <1>1, <1>2, Zenon DEF QuietInv
  <2>2. CASE PollPublished
    BY <2>2, <1>0, <1>1, <1>2, Zenon DEF PollPublished, QuietInv, Quiescer
  <2>3. CASE PollDrained
    <3>1. quiet.pc = "drained" /\ quiet.polls \in 0 .. MaxSpins
      BY <2>3, <1>0 DEF PollDrained, Quiescer
    <3>2. CASE quiet.polls < MaxSpins /\ ~(drained >= quiet.seen)
      <4>1. quiet' = [quiet EXCEPT !.pc = "published", !.polls = quiet.polls + 1]
        BY <2>3, <3>2 DEF PollDrained
      <4>2. quiet.polls + 1 \in 0 .. MaxSpins
        BY <3>1, <3>2
      <4> QED
        BY <4>1, <4>2, <1>0, <1>1, <1>2, Zenon DEF QuietInv, Quiescer
    <3>3. CASE ~(quiet.polls < MaxSpins /\ ~(drained >= quiet.seen))
      <4>1. PICK result \in {"ok", "timeout", "accounting"} :
                Quiesced(result) /\ (result = "ok" => drained >= quiet.seen)
        BY <2>3, <3>3 DEF PollDrained
      <4>2. quiet' \in Quiescer /\ quiet'.pc = "idle" /\ quiet'.result = result
              /\ quiet'.stopped = quiet.stopped
        <5> DEFINE t == quiet.timeouts + (IF result = "ok" THEN 0 ELSE 1)
        <5>1. t \in Nat /\ quiet.calls + 1 \in 0 .. MaxQuiesces
          BY <3>1, <1>0 DEF Quiescer, InCall
        <5>2. quiet' = [quiet EXCEPT !.pc = "idle", !.calls = quiet.calls + 1,
                                     !.result = result, !.timeouts = t]
          BY <4>1 DEF Quiesced
        <5> HIDE DEF t
        <5> QED
          BY <5>1, <5>2, <1>0, Zenon DEF Quiescer
      <4>3. quiet.stopped /\ result = "ok" => inflight = 0
        <5> SUFFICES ASSUME quiet.stopped, result = "ok" PROVE inflight = 0
          OBVIOUS
        <5>1. quiet.seen = published /\ AllIdle
          BY <3>1 DEF QuietInv
        <5>2. Holders = {}
          BY <5>1 DEF AllIdle, Holders
        <5>3. published = drained + inflight + 0
          BY <5>2, FS_EmptySet DEF AccountingExact
        <5> QED
          BY <5>1, <5>3, <4>1, <1>0
      <4> QED
        BY <4>2, <4>3, <1>1, <1>2 DEF QuietInv
    <3> QED
      BY <3>2, <3>3
  <2> QED
    BY <2>1, <2>2, <2>3
<1>4. TypeOK'
  BY <1>1, <1>3 DEF TypeOK, Quiescer
<1>5. Holders' = Holders
  BY <1>1 DEF Holders
<1>6. AccountingExact' /\ BacklogWithinCap' /\ LocalInv' /\ BackpressureWhenFull'
  BY <1>1, <1>5 DEF AccountingExact, BacklogWithinCap, LocalInv, BackpressureWhenFull
<1>7. InCall'
  <2>1. quiet'.pc # "idle" => quiet'.calls < MaxQuiesces
    BY <1>0, Zenon DEF BeginQuiesce, PollPublished, PollDrained, Quiesced, InCall, Quiescer
  <2> QED
    BY <2>1, <1>1 DEF InCall
<1> QED
  BY <1>3, <1>4, <1>6, <1>7

\* Every step preserves the inductive invariant.
LEMMA NextIInv ==
  ASSUME IInv, [Next]_vars
  PROVE  IInv'
<1>1. CASE \E p \in Publishers : PublisherStep(p)
  <2> PICK p \in Publishers : PublisherStep(p)
    BY <1>1
  <2>1. CASE CheckRevoked(p) \/ LoadPublished(p) \/ LoadDrained(p)
    BY <2>1, BeforeReservation
  <2>2. CASE Exchange(p)
    BY <2>2, BeforeReservation, ReservationIInv
  <2>3. CASE RingAccepts(p) \/ Rollback(p)
    BY <2>3, ReservationEndsIInv
  <2>4. CASE RingRejects(p)
    BY <2>4, RejectIInv
  <2> QED
    BY <2>1, <2>2, <2>3, <2>4 DEF PublisherStep
<1>2. CASE NoteDrained
  BY <1>2, NoteDrainedIInv
<1>3. CASE Unregister \/ SnapshotPublished \/ SnapshotDrained
  BY <1>3, BystanderIInv
<1>4. CASE BeginQuiesce \/ PollPublished \/ PollDrained
  BY <1>4, QuiesceIInv
<1>5. CASE UNCHANGED vars
  <2>1. Holders' = Holders
    BY <1>5 DEF vars, Holders
  <2> QED
    BY <2>1, <1>5 DEF vars, IInv, TypeOK, AccountingExact, BacklogWithinCap, LocalInv,
                      BackpressureWhenFull, QuietInv, InCall, AllIdle
<1> QED
  BY <1>1, <1>2, <1>3, <1>4, <1>5 DEF Next, WatcherStep

\* The inductive invariant holds in every reachable state.
THEOREM Invariance == Spec => []IInv
BY InitIInv, NextIInv, PTL DEF Spec

\* The counters never go below zero and every thread stays at one of its
\* program points; in particular no rollback of published_count underflows.
THEOREM TypeCorrect == Spec => []TypeOK
<1>1. IInv => TypeOK
  BY DEF IInv
<1> QED
  BY <1>1, Invariance, PTL

\* For any number of publishers, published_count accounts for every slot:
\* drained, in the ring, or under reservation.
THEOREM AccountingCorrect == Spec => []AccountingExact
<1>1. IInv => AccountingExact
  BY DEF IInv
<1> QED
  BY <1>1, Invariance, PTL

\* For any number of publishers the backlog stays within max_outstanding_slots.
THEOREM CapRespected == Spec => []BacklogWithinCap
<1>1. IInv => BacklogWithinCap
  BY DEF IInv
<1> QED
  BY <1>1, Invariance, PTL

\* Backpressure is reported only for a backlog that was full.
THEOREM BackpressureJustified == Spec => []BackpressureWhenFull
<1>1. IInv => BackpressureWhenFull
  BY DEF IInv
<1> QED
  BY <1>1, Invariance, PTL

\* A successful quiesce of a stopped tenant leaves nothing in the ring.
THEOREM QuiesceDrains == Spec => []QuiescedAfterStop
<1>1. IInv => QuiescedAfterStop
  <2> SUFFICES ASSUME IInv, quiet.result = "ok", quiet.stopped
               PROVE  inflight = 0 /\ published = drained
    BY DEF QuiescedAfterStop
  <2>1. inflight = 0 /\ AllIdle
    BY DEF IInv, QuietInv
  <2>2. Holders = {}
    BY <2>1 DEF AllIdle, Holders
  <2>3. published = drained + inflight + 0 /\ drained \in Nat
    BY <2>2, FS_EmptySet DEF IInv, AccountingExact, TypeOK
  <2> QED
    BY <2>1, <2>3
<1> QED
  BY <1>1, Invariance, PTL

\* What a quiesce that began after unregister knows of the publishers that
\* were past the revoked check.
LateInv ==
  quiet.revokedFirst =>
    /\ revoked
    /\ Cardinality(Entered) <= quiet.late
    /\ quiet.pc = "drained" => published - quiet.seen + Cardinality(Entered) <= quiet.late
    /\ quiet.result = "ok" => published - drained + Cardinality(Entered) <= quiet.late

\* What a publisher of a revoked tenant can do: none enters.
LEMMA RevokedMoves ==
  ASSUME IInv, revoked, NEW p \in Publishers, PublisherStep(p)
  PROVE  /\ drained' = drained /\ revoked' = revoked /\ quiet' = quiet
         /\ \/ published' = published /\ Entered' \subseteq Entered
            \/ published' = published + 1 /\ p \in Entered /\ Entered' = Entered \ {p}
            \/ published' = published - 1 /\ Entered' \subseteq Entered
<1>0. pub \in [Publishers -> Locals] /\ pub[p] \in Locals
  BY DEF IInv, TypeOK, Locals
<1>1. drained' = drained /\ revoked' = revoked /\ quiet' = quiet
  BY Zenon DEF PublisherStep, CheckRevoked, LoadPublished, LoadDrained, Exchange, RingAccepts,
         RingRejects, Rollback, counters
<1>2. ASSUME pub[p].pc \in {"load", "update", "exchange"} \/ pub'[p].pc \in {"idle", "publish", "rollback"},
             \A q \in Publishers \ {p} : pub'[q] = pub[q]
      PROVE  Entered' \subseteq Entered
  BY <1>2 DEF Entered
<1>3. CASE CheckRevoked(p)
  <2>1. published' = published /\ Return(p, "revoked")
    BY <1>3 DEF CheckRevoked, counters
  <2>2. pub'[p].pc = "idle" /\ \A q \in Publishers \ {p} : pub'[q] = pub[q]
    BY <1>0, <2>1 DEF Return, Locals
  <2> QED
    BY <1>1, <1>2, <2>1, <2>2
<1>4. CASE LoadPublished(p)
  <2>1. /\ published' = published /\ pub[p].pc = "load"
        /\ \A q \in Publishers \ {p} : pub'[q] = pub[q]
    BY <1>0, <1>4 DEF LoadPublished, counters
  <2> QED
    BY <1>1, <1>2, <2>1
<1>5. CASE LoadDrained(p)
  <2>1. /\ published' = published /\ pub[p].pc = "update"
        /\ \A q \in Publishers \ {p} : pub'[q] = pub[q]
    BY <1>0, <1>5 DEF LoadDrained, Return, counters
  <2> QED
    BY <1>1, <1>2, <2>1
<1>6. CASE Exchange(p)
  <2>1. /\ pub[p].pc = "exchange"
        /\ \A q \in Publishers \ {p} : pub'[q] = pub[q]
        /\ \/ published' = published
           \/ published' = published + 1 /\ pub'[p].pc = "publish"
    BY <1>0, <1>6 DEF Exchange, Locals
  <2>2. CASE published' = published
    BY <1>1, <1>2, <2>1, <2>2
  <2>3. CASE published' = published + 1 /\ pub'[p].pc = "publish"
    <3>1. p \in Entered /\ Entered' = Entered \ {p}
      BY <2>1, <2>3 DEF Entered
    <3> QED
      BY <1>1, <2>3, <3>1, Zenon
  <2> QED
    BY <2>1, <2>2, <2>3, Zenon
<1>7. CASE RingRejects(p)
  <2>1. /\ published' = published /\ pub'[p].pc = "rollback"
        /\ \A q \in Publishers \ {p} : pub'[q] = pub[q]
    BY <1>0, <1>7 DEF RingRejects, Locals, counters
  <2> QED
    BY <1>1, <1>2, <2>1
<1>8. CASE RingAccepts(p) \/ Rollback(p)
  <2>1. /\ published' = published \/ published' = published - 1
        /\ Return(p, "ok") \/ Return(p, "rejected")
    BY <1>8, Zenon DEF RingAccepts, Rollback
  <2>2. pub'[p].pc = "idle" /\ \A q \in Publishers \ {p} : pub'[q] = pub[q]
    <3>1. PICK result : Return(p, result)
      BY <2>1
    <3> QED
      BY <1>0, <3>1 DEF Return, Locals
  <2> QED
    BY <1>1, <1>2, <2>1, <2>2
<1> QED
  BY <1>3, <1>4, <1>5, <1>6, <1>7, <1>8, Zenon DEF PublisherStep

\* Every step keeps what such a quiesce knows.
LEMMA LateStep ==
  ASSUME IInv, LateInv, [Next]_vars
  PROVE  LateInv'
<1> DEFINE e == Cardinality(Entered)
<1>0. /\ published \in Nat /\ drained \in Nat /\ quiet \in Quiescer
      /\ quiet.seen \in Nat /\ quiet.late \in Nat
  BY DEF IInv, TypeOK, Quiescer
<1>1. e \in Nat
  BY EnteredFinite
<1>2. CASE \E p \in Publishers : PublisherStep(p)
  <2> PICK p \in Publishers : PublisherStep(p)
    BY <1>2
  <2>1. quiet' = quiet
    BY Zenon DEF PublisherStep, CheckRevoked, LoadPublished, LoadDrained, Exchange, RingAccepts,
           RingRejects, Rollback
  <2> SUFFICES ASSUME quiet.revokedFirst PROVE LateInv'
    BY <2>1 DEF LateInv
  <2>2. /\ revoked /\ e <= quiet.late
        /\ quiet.pc = "drained" => published - quiet.seen + e <= quiet.late
        /\ quiet.result = "ok" => published - drained + e <= quiet.late
    BY DEF LateInv
  <2>3. /\ drained' = drained /\ revoked' = revoked
        /\ \/ published' = published /\ Entered' \subseteq Entered
           \/ published' = published + 1 /\ p \in Entered /\ Entered' = Entered \ {p}
           \/ published' = published - 1 /\ Entered' \subseteq Entered
    BY <2>2, RevokedMoves, Zenon
  <2>4. /\ e' \in Nat
        /\ \/ (published' = published \/ published' = published - 1) /\ e' <= e
           \/ published' = published + 1 /\ e' = e - 1
    <3>1. CASE Entered' \subseteq Entered /\ (published' = published \/ published' = published - 1)
      BY <3>1, EnteredFinite
    <3>2. CASE published' = published + 1 /\ p \in Entered /\ Entered' = Entered \ {p}
      BY <3>2, EnteredFinite
    <3> QED
      BY <2>3, <3>1, <3>2
  <2> HIDE DEF e
  <2>5. /\ e' <= quiet.late
        /\ quiet.pc = "drained" => published' - quiet.seen + e' <= quiet.late
        /\ quiet.result = "ok" => published' - drained + e' <= quiet.late
    BY <1>0, <1>1, <2>2, <2>4
  <2> QED
    BY <2>1, <2>2, <2>3, <2>5 DEF LateInv, e
<1>3. CASE NoteDrained
  <2>1. /\ published' = published /\ revoked' = revoked /\ quiet' = quiet /\ pub' = pub
        /\ drained' \in Nat /\ drained' >= drained
    BY <1>0, <1>3 DEF NoteDrained, IInv, TypeOK
  <2>2. e' = e
    BY <2>1 DEF Entered
  <2> HIDE DEF e
  <2>3. published - drained + e <= quiet.late => published - drained' + e <= quiet.late
    BY <1>0, <1>1, <2>1
  <2> QED
    BY <2>1, <2>2, <2>3 DEF LateInv, e
<1>4. CASE Unregister \/ SnapshotPublished \/ SnapshotDrained \/ UNCHANGED vars
  <2>1. /\ published' = published /\ drained' = drained /\ quiet' = quiet /\ pub' = pub
        /\ revoked' = revoked \/ revoked' = TRUE
    BY <1>4 DEF Unregister, SnapshotPublished, SnapshotDrained, vars, counters
  <2>2. Entered' = Entered
    BY <2>1 DEF Entered
  <2> QED
    BY <2>1, <2>2, Zenon DEF LateInv
<1>5. CASE BeginQuiesce \/ PollPublished \/ PollDrained
  <2>1. /\ published' = published /\ drained' = drained /\ revoked' = revoked /\ pub' = pub
    BY <1>5, Zenon DEF BeginQuiesce, PollPublished, PollDrained, counters
  <2>2. Entered' = Entered
    BY <2>1 DEF Entered
  <2>3. CASE BeginQuiesce
    <3>1. /\ quiet'.revokedFirst = revoked /\ quiet'.late = e
          /\ quiet'.pc = "published" /\ quiet'.result = "none"
      BY <1>0, <2>3, Zenon DEF BeginQuiesce, Quiescer
    <3> QED
      BY <1>1, <2>1, <2>2, <3>1 DEF LateInv
  <2>4. CASE PollPublished
    <3>1. /\ quiet'.revokedFirst = quiet.revokedFirst /\ quiet'.late = quiet.late
          /\ quiet'.pc = "drained" /\ quiet'.result = quiet.result /\ quiet'.seen = published
      BY <1>0, <2>4, Zenon DEF PollPublished, Quiescer
    <3>2. published - published + e = e
      BY <1>0, <1>1
    <3> QED
      BY <2>1, <2>2, <3>1, <3>2 DEF LateInv
  <2>5. CASE PollDrained
    <3>1. quiet.pc = "drained"
      BY <2>5 DEF PollDrained
    <3>2. /\ quiet'.revokedFirst = quiet.revokedFirst /\ quiet'.late = quiet.late
          /\ quiet'.pc # "drained"
          /\ quiet'.result = "ok" => drained >= quiet.seen \/ quiet.result = "ok"
      <4>1. CASE quiet' = [quiet EXCEPT !.pc = "published", !.polls = quiet.polls + 1]
        <5> DEFINE k == quiet.polls + 1
        <5>1. quiet' = [quiet EXCEPT !.pc = "published", !.polls = k]
          BY <4>1
        <5> HIDE DEF k
        <5> QED
          BY <1>0, <5>1, Zenon DEF Quiescer
      <4>2. ASSUME NEW result, Quiesced(result), result = "ok" => drained >= quiet.seen
            PROVE  /\ quiet'.revokedFirst = quiet.revokedFirst /\ quiet'.late = quiet.late
                   /\ quiet'.pc # "drained"
                   /\ quiet'.result = "ok" => drained >= quiet.seen
        <5> DEFINE k == quiet.calls + 1
                   t == quiet.timeouts + (IF result = "ok" THEN 0 ELSE 1)
        <5>1. quiet' = [quiet EXCEPT !.pc = "idle", !.calls = k, !.result = result,
                                     !.timeouts = t]
          BY <4>2 DEF Quiesced
        <5> HIDE DEF k, t
        <5> QED
          BY <1>0, <4>2, <5>1, Zenon DEF Quiescer
      <4>3. \/ quiet' = [quiet EXCEPT !.pc = "published", !.polls = quiet.polls + 1]
            \/ \E result : Quiesced(result) /\ (result = "ok" => drained >= quiet.seen)
        <5>1. \/ quiet' = [quiet EXCEPT !.pc = "published", !.polls = quiet.polls + 1]
              \/ Quiesced("ok") /\ drained >= quiet.seen
              \/ Quiesced("accounting") \/ Quiesced("timeout")
          BY <2>5 DEF PollDrained
        <5>2. "accounting" # "ok" /\ "timeout" # "ok"
          OBVIOUS
        <5> QED
          BY <5>1, <5>2, Zenon
      <4> QED
        BY <4>1, <4>2, <4>3, Zenon
    <3> HIDE DEF e
    <3>3. published - quiet.seen + e <= quiet.late /\ drained >= quiet.seen
            => published - drained + e <= quiet.late
      BY <1>0, <1>1
    <3> QED
      BY <2>1, <2>2, <3>1, <3>2, <3>3 DEF LateInv, e
  <2> QED
    BY <1>5, <2>3, <2>4, <2>5
<1> QED
  BY <1>2, <1>3, <1>4, <1>5 DEF Next, WatcherStep

\* After unregister and a successful quiesce, what is in the ring or can still
\* come into it is bounded by the publishers that were between the revoked
\* check and the reservation, for any number of publishers.
THEOREM RevocationDrains == Spec => []StragglersBounded
<1>1. Init => LateInv
  BY DEF Init, LateInv
<1>2. IInv /\ LateInv => StragglersBounded
  <2> SUFFICES ASSUME IInv, LateInv, quiet.result = "ok", quiet.revokedFirst
               PROVE  inflight + Cardinality(Holders) + Cardinality(Entered) <= quiet.late
    BY DEF StragglersBounded
  <2>1. published - drained + Cardinality(Entered) <= quiet.late
    BY DEF LateInv
  <2>2. published = drained + inflight + Cardinality(Holders)
    BY DEF IInv, AccountingExact
  <2>3. drained \in Nat /\ inflight \in Nat
    BY DEF IInv, TypeOK
  <2> QED
    BY <2>1, <2>2, <2>3, HoldersFinite, EnteredFinite
<1> QED
  BY <1>1, <1>2, InitIInv, NextIInv, LateStep, PTL DEF Spec
=============================================================================
