---------------------------- MODULE TenantProofs ----------------------------
(***************************************************************************)
(* Proofs about TenantRegistry, for every set of threads and every layout   *)
(* of the opcode space, and about TenantSelection, for any number of        *)
(* tenants and any matrix.                                                  *)
(***************************************************************************)
EXTENDS TenantRegistry, TenantSelection, FiniteSetTheorems, TLAPS

\* A leaf that names no prover is for the SMT solver, tried twice, and for Zenon
\* where the solver finds nothing.
USE SMTT(60), SMTT(70), Zenon

(* The registry *)

\* Ids in use are below next_id, and a thread that has drawn one owns it.
DrawnInv ==
  /\ \A i \in handles : i < nextId /\ WindowFits(i)
  /\ \A t \in Threads : thread[t].pc = "insert" => thread[t].id \in 1 .. nextId - 1
  /\ FreshIds

IInv == TypeOK /\ DrawnInv /\ HandlesAccountedFor

Locals == [pc : {"idle", "exchange", "insert", "revoke"},
           seen : 0 .. IdMax, id : 0 .. IdMax - 1, result : Results, live : Nat]

USE WindowAssumption, OpcodeAssumption, IdAssumption, CallsAssumption

\* The map is finite.
LEMMA TenantsCounted == TypeOK => Cardinality(tenants) \in Nat
<1> SUFFICES ASSUME TypeOK PROVE Cardinality(tenants) \in Nat
  OBVIOUS
<1>1. IsFiniteSet(1 .. IdMax - 1)
  BY FS_Interval
<1>2. IsFiniteSet(tenants)
  BY <1>1, FS_Subset, Zenon DEF TypeOK
<1> QED
  BY <1>2, FS_CardinalityType

\* The window of a smaller id ends before the window of a greater one begins.
LEMMA WindowsOrdered ==
  ASSUME NEW i \in Nat, NEW j \in Nat, i < j
  PROVE  /\ BaseOf(i) \in Nat /\ BaseOf(j) \in Nat
         /\ BaseOf(i) + Window <= BaseOf(j)
<1>1. PICK k \in Nat : j = i + 1 + k
  <2>1. j - i - 1 \in Nat /\ j = i + 1 + (j - i - 1)
    OBVIOUS
  <2> QED
    BY <2>1
<1>2. i * Window \in Nat /\ k * Window \in Nat
  OBVIOUS
<1>3. j * Window = i * Window + Window + k * Window
  BY <1>1
<1> QED
  BY <1>2, <1>3 DEF BaseOf

\* The initial state satisfies the inductive invariant.
LEMMA InitIInv == Init => IInv
<1> SUFFICES ASSUME Init PROVE IInv
  OBVIOUS
<1>1. thread \in [Threads -> Locals]
  BY DEF Init, Locals, Results
<1>2. TypeOK
  BY <1>1 DEF Init, TypeOK, Locals
<1> QED
  BY <1>2 DEF Init, IInv, DrawnInv, HandlesAccountedFor, Revoking, FreshIds

\* A step changes the locals of one thread.
LEMMA ThreadUpdate ==
  ASSUME IInv, NEW t \in Threads, NEW r \in Locals, thread' = [thread EXCEPT ![t] = r]
  PROVE  /\ thread' \in [Threads -> Locals]
         /\ thread'[t] = r
         /\ \A u \in Threads : u # t => thread'[u] = thread[u]
BY DEF IInv, TypeOK, Locals

\* A step of a thread that is not revoking, and moves no handle.
LEMMA SameRevoking ==
  ASSUME HandlesAccountedFor,
         NEW t \in Threads, \A u \in Threads : u # t => thread'[u] = thread[u],
         thread[t].pc # "revoke", thread'[t].pc # "revoke",
         tenants' = tenants, revoked' = revoked, handles' = handles
  PROVE  HandlesAccountedFor'
<1>1. Revoking' = Revoking /\ \A u \in Revoking : thread'[u] = thread[u]
  BY DEF Revoking
<1> QED
  BY <1>1 DEF HandlesAccountedFor

\* The steps before an id is drawn, and the retries of the exchange.
LEMMA ReadIInv ==
  ASSUME IInv, NEW t \in Threads, BeginRegister(t) \/ (DrawId(t) /\ nextId' = nextId)
  PROVE  IInv'
<1> USE DEF IInv
<1>0. thread \in [Threads -> Locals] /\ thread[t] \in Locals /\ nextId \in 0 .. IdMax
  BY DEF TypeOK, Locals
<1>1. /\ nextId' = nextId /\ tenants' = tenants /\ revoked' = revoked
      /\ handles' = handles /\ calls' \in 0 .. MaxCalls
  BY DEF BeginRegister, DrawId, TypeOK
<1> DEFINE new == thread'[t]
<1>2. /\ new \in Locals /\ thread' = [thread EXCEPT ![t] = new]
      /\ new.pc \in {"idle", "exchange"}
  <2>1. CASE BeginRegister(t)
    <3> DEFINE r == [thread[t] EXCEPT !.pc = "exchange", !.seen = nextId,
                                      !.live = Cardinality(tenants)]
    <3>1. r \in Locals /\ r.pc = "exchange"
      BY <1>0, TenantsCounted, Zenon DEF Locals
    <3>2. thread' = [thread EXCEPT ![t] = r] /\ new = r
      BY <2>1, <1>0 DEF BeginRegister
    <3> HIDE DEF r
    <3> QED
      BY <3>1, <3>2, Zenon
  <2>2. CASE DrawId(t) /\ thread' = [thread EXCEPT ![t] = [thread[t] EXCEPT !.pc = "idle", !.result = "full"]]
    <3> DEFINE r == [thread[t] EXCEPT !.pc = "idle", !.result = "full"]
    <3>1. r \in Locals /\ r.pc = "idle"
      BY <1>0, Zenon DEF Locals, Results
    <3>2. thread' = [thread EXCEPT ![t] = r] /\ new = r
      BY <2>2, <1>0
    <3> HIDE DEF r
    <3> QED
      BY <3>1, <3>2, Zenon
  <2>3. CASE DrawId(t) /\ thread' = [thread EXCEPT ![t] = [thread[t] EXCEPT !.seen = nextId]]
    <3> DEFINE r == [thread[t] EXCEPT !.seen = nextId]
    <3>1. r \in Locals /\ r.pc = "exchange"
      BY <2>3, <1>0 DEF Locals, DrawId
    <3>2. thread' = [thread EXCEPT ![t] = r] /\ new = r
      BY <2>3, <1>0
    <3> HIDE DEF r
    <3> QED
      BY <3>1, <3>2, Zenon
  <2>4. BeginRegister(t) \/ DrawId(t)
    OBVIOUS
  <2>5. DrawId(t) /\ nextId' = nextId =>
          \/ thread' = [thread EXCEPT ![t] = [thread[t] EXCEPT !.pc = "idle", !.result = "full"]]
          \/ thread' = [thread EXCEPT ![t] = [thread[t] EXCEPT !.seen = nextId]]
    BY <1>0 DEF DrawId, AtLeastOne
  <2> HIDE DEF new
  <2> QED
    BY <1>1, <2>1, <2>2, <2>3, <2>4, <2>5, Zenon
<1>3. /\ thread' \in [Threads -> Locals]
      /\ \A u \in Threads : u # t => thread'[u] = thread[u]
  BY <1>2, ThreadUpdate
<1>4. TypeOK'
  BY <1>1, <1>3 DEF TypeOK, Locals
<1>5. DrawnInv'
  BY <1>1, <1>2, <1>3 DEF DrawnInv, FreshIds, WindowFits, BaseOf
<1>6. HandlesAccountedFor'
  <2>1. thread[t].pc # "revoke" /\ thread'[t].pc # "revoke"
    BY <1>2 DEF BeginRegister, DrawId
  <2> QED
    BY <1>1, <1>3, <2>1, SameRevoking
<1> QED
  BY <1>4, <1>5, <1>6

\* A successful exchange yields an id above every id drawn before.
LEMMA DrawIInv ==
  ASSUME IInv, NEW t \in Threads, DrawId(t), nextId' # nextId
  PROVE  IInv'
<1> USE DEF IInv
<1> DEFINE id == AtLeastOne(nextId)
<1>0. /\ thread \in [Threads -> Locals] /\ thread[t] \in Locals /\ nextId \in 0 .. IdMax
      /\ id \in 1 .. IdMax /\ id >= nextId /\ handles \subseteq 1 .. IdMax - 1
  BY DEF TypeOK, Locals, AtLeastOne
<1>1. /\ tenants' = tenants /\ revoked' = revoked /\ handles' = handles /\ calls' = calls
      /\ nextId < IdMax /\ nextId' = id + 1
      /\ thread' = [thread EXCEPT ![t] = [thread[t] EXCEPT !.pc = "insert", !.id = id]]
  BY <1>0, Zenon DEF DrawId
<1>2. id \in 1 .. IdMax - 1 /\ id \in 0 .. IdMax - 1 /\ nextId' \in 0 .. IdMax
  BY <1>0, <1>1 DEF AtLeastOne
<1> HIDE DEF id
<1> DEFINE r == [thread[t] EXCEPT !.pc = "insert", !.id = id]
<1>3. r \in Locals /\ r.pc = "insert" /\ r.id = id
  BY <1>0, <1>2, Zenon DEF Locals
<1>4. thread' = [thread EXCEPT ![t] = r]
  BY <1>1
<1> HIDE DEF r
<1>5. /\ thread' \in [Threads -> Locals]
      /\ thread'[t].pc = "insert" /\ thread'[t].id = id
      /\ \A u \in Threads : u # t => thread'[u] = thread[u]
  BY <1>3, <1>4, ThreadUpdate, Zenon
<1>6. TypeOK'
  BY <1>1, <1>2, <1>5 DEF TypeOK, Locals
<1>7. DrawnInv'
  <2>1. \A i \in handles : i < nextId' /\ WindowFits(i) /\ i # id
    BY <1>0, <1>1 DEF DrawnInv
  <2>2. \A u \in Threads : u # t /\ thread[u].pc = "insert" =>
          thread[u].id \in 1 .. nextId' - 1 /\ thread[u].id # id
    BY <1>0, <1>1 DEF DrawnInv
  <2>3. id \in 1 .. nextId' - 1
    BY <1>1, <1>2
  <2>4. \A u \in Threads : thread'[u].pc = "insert" => thread'[u].id \in 1 .. nextId' - 1
    BY <2>2, <2>3, <1>5
  <2>5. FreshIds'
    BY <2>1, <2>2, <1>1, <1>5 DEF DrawnInv, FreshIds
  <2> QED
    BY <2>1, <2>4, <2>5, <1>1 DEF DrawnInv, WindowFits, BaseOf
<1>8. HandlesAccountedFor'
  <2>1. thread[t].pc # "revoke"
    BY DEF DrawId
  <2>2. thread'[t].pc # "revoke"
    BY <1>5
  <2> QED
    BY ONLY <1>1, <1>5, <2>1, <2>2, SameRevoking, HandlesAccountedFor
<1> QED
  BY <1>6, <1>7, <1>8

\* Registration ends: a fresh id enters the map, or is lost.
LEMMA InsertIInv ==
  ASSUME IInv, NEW t \in Threads, Insert(t)
  PROVE  IInv'
<1> USE DEF IInv
<1> DEFINE id == thread[t].id
<1>0. /\ thread \in [Threads -> Locals] /\ thread[t] \in Locals /\ nextId \in 0 .. IdMax
      /\ handles \subseteq 1 .. IdMax - 1 /\ tenants \subseteq 1 .. IdMax - 1
  BY DEF TypeOK, Locals
<1>1. /\ nextId' = nextId /\ revoked' = revoked /\ calls' = calls
      /\ thread[t].pc = "insert"
  BY DEF Insert
<1>2. /\ id \in 1 .. nextId - 1 /\ id \notin handles /\ id \in 1 .. IdMax - 1
      /\ \A u \in Threads \ {t} : thread[u].pc = "insert" => thread[u].id # id
  BY <1>0, <1>1 DEF DrawnInv, FreshIds
<1>3. \/ tenants' = tenants /\ handles' = handles
      \/ /\ WindowFits(id)
         /\ tenants' = tenants \cup {id} /\ handles' = handles \cup {id}
  BY DEF Insert
<1>4. PICK result \in {"ok", "full"} :
        thread' = [thread EXCEPT ![t] = [thread[t] EXCEPT !.pc = "idle", !.result = result]]
  BY DEF Insert
<1> DEFINE r == [thread[t] EXCEPT !.pc = "idle", !.result = result]
<1>5. r \in Locals /\ r.pc = "idle"
  BY <1>0, Zenon DEF Locals, Results
<1>6. thread' = [thread EXCEPT ![t] = r]
  BY <1>4
<1> HIDE DEF r, id
<1>7. /\ thread' \in [Threads -> Locals] /\ thread'[t].pc = "idle"
      /\ \A u \in Threads : u # t => thread'[u] = thread[u]
  BY <1>5, <1>6, ThreadUpdate, Zenon
<1>8. TypeOK'
  <2>1. tenants' \subseteq 1 .. IdMax - 1 /\ handles' \subseteq 1 .. IdMax - 1
    BY <1>0, <1>2, <1>3, Zenon
  <2> QED
    BY <2>1, <1>1, <1>7 DEF TypeOK, Locals
<1>9. DrawnInv'
  <2>1. \A i \in handles' : i < nextId /\ WindowFits(i)
    <3>1. \A i \in handles : i < nextId /\ WindowFits(i)
      BY DEF DrawnInv
    <3>2. id < nextId
      BY <1>0, <1>2
    <3> QED
      BY ONLY <3>1, <3>2, <1>3
  <2>2. FreshIds'
    BY <1>2, <1>3, <1>7 DEF DrawnInv, FreshIds
  <2> QED
    BY <2>1, <2>2, <1>1, <1>7 DEF DrawnInv, WindowFits, BaseOf
<1>10. HandlesAccountedFor'
  BY <1>1, <1>2, <1>3, <1>7 DEF HandlesAccountedFor, Revoking
<1> QED
  BY <1>8, <1>9, <1>10

\* The two steps of unregister.
LEMMA UnregisterIInv ==
  ASSUME IInv, NEW t \in Threads, Remove(t) \/ Revoke(t)
  PROVE  IInv'
<1> USE DEF IInv
<1>0. /\ thread \in [Threads -> Locals] /\ thread[t] \in Locals
      /\ handles \subseteq 1 .. IdMax - 1 /\ tenants \subseteq 1 .. IdMax - 1
  BY DEF TypeOK, Locals
<1>1. nextId' = nextId /\ handles' = handles /\ calls' = calls
  BY Zenon DEF Remove, Revoke
<1>2. PICK r \in Locals :
        /\ thread' = [thread EXCEPT ![t] = r]
        /\ \/ /\ thread[t].pc = "idle" /\ r.pc = "revoke" /\ r.id \in tenants
              /\ tenants' = tenants \ {r.id} /\ revoked' = revoked
           \/ /\ r.pc = "idle" /\ thread[t].pc = "revoke"
              /\ revoked' = revoked \cup {thread[t].id} /\ tenants' = tenants
  <2>1. CASE Remove(t)
    <3>1. PICK id \in tenants :
            /\ tenants' = tenants \ {id}
            /\ thread' = [thread EXCEPT ![t] = [thread[t] EXCEPT !.pc = "revoke", !.id = id]]
      BY <2>1, Zenon DEF Remove
    <3> DEFINE new == [thread[t] EXCEPT !.pc = "revoke", !.id = id]
    <3>2. new \in Locals /\ new.pc = "revoke" /\ new.id = id
      <4>1. id \in 0 .. IdMax - 1
        BY <1>0
      <4> QED
        BY <1>0, <4>1, Zenon DEF Locals
    <3>3. thread' = [thread EXCEPT ![t] = new] /\ revoked' = revoked
      BY <2>1, <3>1, Zenon DEF Remove
    <3> HIDE DEF new
    <3> QED
      BY <2>1, <3>1, <3>2, <3>3, Zenon DEF Remove
  <2>2. CASE Revoke(t)
    <3> DEFINE new == [thread[t] EXCEPT !.pc = "idle"]
    <3>1. new \in Locals /\ new.pc = "idle"
      BY <1>0 DEF Locals
    <3>2. /\ thread' = [thread EXCEPT ![t] = new] /\ thread[t].pc = "revoke"
          /\ revoked' = revoked \cup {thread[t].id} /\ tenants' = tenants
      BY <2>2 DEF Revoke
    <3> HIDE DEF new
    <3> QED
      BY <3>1, <3>2, Zenon
  <2> QED
    BY <2>1, <2>2
<1>3. /\ thread' \in [Threads -> Locals] /\ thread'[t] = r
      /\ \A u \in Threads : u # t => thread'[u] = thread[u]
  BY <1>2, ThreadUpdate, Zenon
<1>4. HandlesAccountedFor'
  <2>1. CASE /\ thread[t].pc = "idle" /\ r.pc = "revoke" /\ r.id \in tenants
             /\ tenants' = tenants \ {r.id} /\ revoked' = revoked
    <3>1. t \notin Revoking /\ Revoking' = Revoking \cup {t}
      BY <1>3, <2>1 DEF Revoking
    <3>2. \A u \in Revoking : thread'[u] = thread[u] /\ thread[u].id # r.id
      BY <1>3, <2>1, <3>1 DEF HandlesAccountedFor, Revoking
    <3>3. /\ tenants' \cup revoked' \subseteq handles' /\ tenants' \cap revoked' = {}
          /\ r.id \in handles' \ (tenants' \cup revoked')
      BY <1>1, <2>1 DEF HandlesAccountedFor
    <3>4. \A u \in Revoking' : thread'[u].id \in handles' \ (tenants' \cup revoked')
      BY <1>1, <1>3, <2>1, <3>1, <3>2, <3>3 DEF HandlesAccountedFor
    <3>5. \A u, v \in Revoking' : thread'[u].id = thread'[v].id => u = v
      BY <1>3, <3>1, <3>2 DEF HandlesAccountedFor
    <3>6. \A id \in handles' \ (tenants' \cup revoked') : \E u \in Revoking' : thread'[u].id = id
      BY <1>1, <1>3, <2>1, <3>1, <3>2 DEF HandlesAccountedFor
    <3> QED
      BY <3>3, <3>4, <3>5, <3>6 DEF HandlesAccountedFor
  <2>2. CASE /\ r.pc = "idle" /\ thread[t].pc = "revoke"
             /\ revoked' = revoked \cup {thread[t].id} /\ tenants' = tenants
    <3>1. t \in Revoking /\ Revoking' = Revoking \ {t}
      BY <1>3, <2>2 DEF Revoking
    <3>2. \A u \in Revoking' : thread'[u] = thread[u] /\ thread[u].id # thread[t].id
      BY <1>3, <3>1 DEF HandlesAccountedFor, Revoking
    <3>3. tenants' \cup revoked' \subseteq handles' /\ tenants' \cap revoked' = {}
      BY <1>1, <2>2, <3>1 DEF HandlesAccountedFor
    <3>4. \A u \in Revoking' : thread'[u].id \in handles' \ (tenants' \cup revoked')
      BY <1>1, <2>2, <3>1, <3>2 DEF HandlesAccountedFor
    <3>5. \A u, v \in Revoking' : thread'[u].id = thread'[v].id => u = v
      BY <3>1, <3>2 DEF HandlesAccountedFor
    <3>6. \A id \in handles' \ (tenants' \cup revoked') : \E u \in Revoking' : thread'[u].id = id
      BY <1>1, <2>2, <3>1, <3>2 DEF HandlesAccountedFor
    <3> QED
      BY <3>3, <3>4, <3>5, <3>6 DEF HandlesAccountedFor
  <2> QED
    BY <1>2, <2>1, <2>2
<1>5. TypeOK'
  <2>1. tenants' \subseteq 1 .. IdMax - 1 /\ revoked' \subseteq 1 .. IdMax - 1
    BY <1>0, <1>1, <1>2, <1>4, Zenon DEF HandlesAccountedFor, Revoking
  <2> QED
    BY <2>1, <1>1, <1>3 DEF TypeOK, Locals
<1>6. DrawnInv'
  BY <1>1, <1>2, <1>3 DEF DrawnInv, FreshIds, WindowFits, BaseOf
<1> QED
  BY <1>4, <1>5, <1>6

\* Every step preserves the inductive invariant.
LEMMA NextIInv ==
  ASSUME IInv, [Next]_vars
  PROVE  IInv'
<1>1. CASE Next
  <2> PICK t \in Threads : ThreadStep(t)
    BY <1>1 DEF Next
  <2>1. CASE BeginRegister(t)
    BY <2>1, ReadIInv
  <2>2. CASE DrawId(t)
    BY <2>2, ReadIInv, DrawIInv
  <2>3. CASE Insert(t)
    BY <2>3, InsertIInv
  <2>4. CASE Remove(t) \/ Revoke(t)
    BY <2>4, UnregisterIInv
  <2> QED
    BY <2>1, <2>2, <2>3, <2>4 DEF ThreadStep
<1>2. CASE UNCHANGED vars
  BY <1>2 DEF vars, IInv, TypeOK, DrawnInv, HandlesAccountedFor, Revoking, FreshIds,
              WindowFits, BaseOf
<1> QED
  BY <1>1, <1>2

\* The inductive invariant holds in every reachable state.
THEOREM Invariance == Spec => []IInv
BY InitIInv, NextIInv, PTL DEF Spec

\* No tenant is ever given id 0 or the reserved TENANT_ID_MAX.
THEOREM TypeCorrect == Spec => []TypeOK
<1>1. IInv => TypeOK
  BY DEF IInv
<1> QED
  BY <1>1, Invariance, PTL

\* However many threads register at once, an id is drawn by one of them.
THEOREM IdsUnique == Spec => []FreshIds
<1>1. IInv => FreshIds
  BY DEF IInv, DrawnInv
<1> QED
  BY <1>1, Invariance, PTL

\* For every size of the opcode space, window and base, the windows of all
\* handles ever returned are disjoint and below SHUTDOWN.
THEOREM WindowsNeverOverlap == Spec => []WindowsDisjoint
<1>1. IInv => WindowsDisjoint
  <2> SUFFICES ASSUME IInv PROVE WindowsDisjoint
    OBVIOUS
  <2>0. \A i \in handles : i \in Nat /\ i >= 1 /\ WindowFits(i)
    BY DEF IInv, TypeOK, DrawnInv
  <2>1. ASSUME NEW i \in handles, NEW j \in handles, i < j
        PROVE  WindowOf(i) \cap WindowOf(j) = {}
    <3>1. /\ BaseOf(i) \in Nat /\ BaseOf(j) \in Nat
          /\ BaseOf(i) + Window <= BaseOf(j)
      BY <2>0, <2>1, WindowsOrdered
    <3> QED
      BY <3>1 DEF WindowOf
  <2>2. ASSUME NEW i \in handles, NEW j \in handles, i # j
        PROVE  WindowOf(i) \cap WindowOf(j) = {}
    <3>1. i < j \/ j < i
      BY <2>0, <2>2
    <3> QED
      BY <3>1, <2>1
  <2>3. ASSUME NEW i \in handles
        PROVE  WindowOf(i) \subseteq OpcodeBase + 1 .. OpcodeSpace - 2
    <3>1. BaseOf(0) + Window <= BaseOf(i) /\ BaseOf(i) \in Nat
      BY <2>0, WindowsOrdered
    <3>2. BaseOf(0) = OpcodeBase
      BY DEF BaseOf
    <3>3. OpcodeBase + 1 <= BaseOf(i)
      BY <3>1, <3>2
    <3>4. BaseOf(i) + Window < OpcodeSpace - 1
      BY <2>0 DEF WindowFits
    <3> QED
      BY <3>1, <3>3, <3>4 DEF WindowOf
  <2> QED
    BY <2>2, <2>3 DEF WindowsDisjoint
<1> QED
  BY <1>1, Invariance, PTL

\* For any number of threads, every handle is listed, revoked, or with the one
\* thread that is revoking it.
THEOREM HandlesAccounted == Spec => []HandlesAccountedFor
<1>1. IInv => HandlesAccountedFor
  BY DEF IInv
<1> QED
  BY <1>1, Invariance, PTL

\* Unregistering is final.
THEOREM RemovalFinal == Spec => RemovedForGood
<1>1. ASSUME IInv, [Next]_vars
      PROVE  /\ (handles \ tenants) \cap tenants' = {}
             /\ revoked \subseteq revoked' /\ handles \subseteq handles'
  <2>1. CASE UNCHANGED vars
    BY <2>1 DEF vars
  <2>2. CASE Next
    <3> PICK t \in Threads : ThreadStep(t)
      BY <2>2 DEF Next
    <3>1. CASE BeginRegister(t) \/ DrawId(t) \/ Remove(t) \/ Revoke(t)
      BY <3>1, Zenon DEF BeginRegister, DrawId, Remove, Revoke
    <3>2. CASE Insert(t)
      BY <3>2, <1>1 DEF Insert, IInv, DrawnInv, FreshIds
    <3> QED
      BY <3>1, <3>2 DEF ThreadStep
  <2> QED
    BY <2>1, <2>2, <1>1
<1>2. IInv /\ [Next]_vars =>
        [/\ (handles \ tenants) \cap tenants' = {}
         /\ revoked \subseteq revoked' /\ handles \subseteq handles']_vars
  BY <1>1
<1> QED
  BY <1>2, Invariance, PTL DEF Spec, RemovedForGood
-----------------------------------------------------------------------------
(* The selection *)

\* What the outer loop maintains: the tenants selected so far are pairwise
\* compatible, and every candidate passed over conflicts with one of them.
LoopInv ==
  /\ pc = "check" => candidate = 0 /\ selected = {}
  /\ pc = "select" =>
       /\ \A i, j \in selected : i # j => ~Conflicts(i, j)
       /\ \A i \in 0 .. candidate - 1 : i \notin selected =>
            \E j \in selected : Conflicts(i, j)

SelectIInv == SelectTypeOK /\ LoopInv /\ SelectionIndependent /\ SelectionMaximal

USE ActiveAssumption, IdsAssumption, LengthsAssumption

\* Row-major indexing stays inside the matrix.
LEMMA CellInMatrix ==
  ASSUME NEW m \in Nat, NEW i \in 0 .. m - 1, NEW j \in 0 .. m - 1
  PROVE  i * m + j \in 0 .. m * m - 1
<1>1. PICK k \in Nat : m = i + 1 + k
  <2>1. m - i - 1 \in Nat /\ m = i + 1 + (m - i - 1)
    OBVIOUS
  <2> QED
    BY <2>1
<1>2. i * m \in Nat /\ k * m \in Nat /\ m * m \in Nat
  OBVIOUS
<1>3. m * m = i * m + m + k * m
  BY <1>1
<1> QED
  BY <1>2, <1>3

\* Different indices have different ids.
LEMMA ActiveInjective ==
  ASSUME SelectTypeOK, NEW i \in 0 .. n - 1, NEW j \in 0 .. n - 1, active[i] = active[j]
  PROVE  i = j
<1>1. active[i] \in Nat
  BY Zenon DEF SelectTypeOK
<1>2. i < j => active[i] < active[j]
  BY DEF SelectTypeOK, Increasing
<1>3. j < i => active[j] < active[i]
  BY DEF SelectTypeOK, Increasing
<1> QED
  BY <1>1, <1>2, <1>3 DEF SelectTypeOK

\* The initial state satisfies the inductive invariant.
LEMMA SelectInitIInv == SelectInit => SelectIInv
<1> SUFFICES ASSUME SelectInit PROVE SelectIInv
  OBVIOUS
<1>1. SelectTypeOK
  BY DEF SelectInit, SelectTypeOK
<1> QED
  BY <1>1 DEF SelectInit, SelectIInv, LoopInv, SelectionIndependent, SelectionMaximal

\* The early returns.
LEMMA CheckIInv == SelectIInv /\ CheckMatrix => SelectIInv'
<1> SUFFICES ASSUME SelectIInv, CheckMatrix PROVE SelectIInv'
  OBVIOUS
<1>0. /\ n' = n /\ active' = active /\ len' = len /\ adj' = adj
      /\ candidate' = candidate /\ selected' = selected /\ pc = "check"
  BY DEF CheckMatrix
<1>1. CASE n = 0 \/ n * n # len \/ \A k \in 0 .. len - 1 : adj[k] = 0
  <2>1. pc' = "done" /\ out' = {active[i] : i \in 0 .. n - 1}
    BY <1>1 DEF CheckMatrix
  <2>2. SelectTypeOK'
    BY <1>0, <2>1 DEF SelectTypeOK, SelectIInv
  <2>3. ASSUME n * n = len, NEW i \in 0 .. n - 1, NEW j \in 0 .. n - 1
        PROVE  ~Incompatible(i, j)
    <3>1. n \in Nat
      BY DEF SelectIInv, SelectTypeOK
    <3>2. i * n + j \in 0 .. len - 1 /\ j * n + i \in 0 .. len - 1
      BY <2>3, <3>1, CellInMatrix
    <3>3. \A k \in 0 .. len - 1 : adj[k] = 0
      BY <1>1, <2>3
    <3> QED
      BY <3>2, <3>3 DEF Incompatible
  <2>4. SelectionIndependent'
    BY <2>3, <1>0 DEF SelectionIndependent, MatrixFits, Incompatible
  <2>5. SelectionMaximal'
    BY <1>0, <2>1 DEF SelectionMaximal
  <2>6. LoopInv'
    BY <2>1 DEF LoopInv
  <2> QED
    BY <2>2, <2>4, <2>5, <2>6 DEF SelectIInv
<1>2. CASE ~(n = 0 \/ n * n # len \/ \A k \in 0 .. len - 1 : adj[k] = 0)
  <2>1. pc' = "select" /\ out' = out /\ n * n = len
    BY <1>2 DEF CheckMatrix
  <2>2. SelectTypeOK'
    BY <1>0, <2>1 DEF SelectTypeOK, SelectIInv
  <2>3. candidate = 0 /\ selected = {}
    BY <1>0 DEF SelectIInv, LoopInv
  <2> QED
    BY <1>0, <2>1, <2>2, <2>3 DEF SelectIInv, LoopInv, SelectionIndependent, SelectionMaximal
<1> QED
  BY <1>1, <1>2

\* One pass of the outer loop.
LEMMA ConsiderIInv == SelectIInv /\ Consider => SelectIInv'
<1> SUFFICES ASSUME SelectIInv, Consider PROVE SelectIInv'
  OBVIOUS
<1>0. /\ n' = n /\ active' = active /\ len' = len /\ adj' = adj /\ out' = out
      /\ pc = "select" /\ pc' = pc /\ candidate < n /\ candidate' = candidate + 1
  BY DEF Consider
<1>1. n \in Nat /\ candidate \in 0 .. n /\ selected \subseteq 0 .. candidate - 1
  BY DEF SelectIInv, SelectTypeOK
<1>2. \/ selected' = selected /\ \E s \in selected : Conflicts(candidate, s)
      \/ selected' = selected \cup {candidate} /\ \A s \in selected : ~Conflicts(candidate, s)
  BY DEF Consider
<1>3. SelectTypeOK'
  <2>1. candidate' \in 0 .. n /\ selected' \subseteq 0 .. candidate' - 1
    <3>1. candidate' \in 0 .. n
      BY <1>0, <1>1
    <3>2. candidate \in 0 .. candidate' - 1 /\ 0 .. candidate - 1 \subseteq 0 .. candidate' - 1
      BY <1>0, <1>1
    <3> QED
      BY ONLY <3>1, <3>2, <1>1, <1>2, Zenon
  <2> QED
    BY <2>1, <1>0 DEF SelectIInv, SelectTypeOK
<1>4. \A i, j : Conflicts(i, j)' <=> Conflicts(i, j)
  BY <1>0 DEF Conflicts
<1>5. \A i, j \in selected' : i # j => ~Conflicts(i, j)
  <2>1. \A i, j : Conflicts(i, j) <=> Conflicts(j, i)
    BY DEF Conflicts
  <2>2. \A i, j \in selected : i # j => ~Conflicts(i, j)
    BY <1>0 DEF SelectIInv, LoopInv
  <2> QED
    BY ONLY <2>1, <2>2, <1>2
<1>6. \A i \in 0 .. candidate' - 1 : i \notin selected' => \E j \in selected' : Conflicts(i, j)
  <2>1. \A i \in 0 .. candidate - 1 : i \notin selected => \E j \in selected : Conflicts(i, j)
    BY <1>0 DEF SelectIInv, LoopInv
  <2>2. \A i \in 0 .. candidate' - 1 : i \in 0 .. candidate - 1 \/ i = candidate
    BY <1>0, <1>1
  <2> QED
    BY ONLY <2>1, <2>2, <1>2
<1>7. LoopInv'
  BY <1>0, <1>4, <1>5, <1>6 DEF LoopInv
<1>8. SelectionIndependent' /\ SelectionMaximal'
  BY <1>0 DEF SelectionIndependent, SelectionMaximal
<1> QED
  BY <1>3, <1>7, <1>8 DEF SelectIInv

\* The result.
LEMMA EmitIInv == SelectIInv /\ Emit => SelectIInv'
<1> SUFFICES ASSUME SelectIInv, Emit PROVE SelectIInv'
  OBVIOUS
<1>0. /\ n' = n /\ active' = active /\ len' = len /\ adj' = adj
      /\ candidate' = candidate /\ selected' = selected
      /\ pc = "select" /\ pc' = "done" /\ candidate = n
      /\ out' = {active[i] : i \in selected}
  BY DEF Emit
<1>1. n \in Nat /\ selected \subseteq 0 .. n - 1
  BY <1>0 DEF SelectIInv, SelectTypeOK
<1>2. SelectTypeOK'
  BY <1>0, <1>1 DEF SelectIInv, SelectTypeOK
<1>3. \A i \in 0 .. n - 1 : active[i] \in out' <=> i \in selected
  BY <1>0, <1>1, ActiveInjective DEF SelectIInv
<1>4. /\ \A i, j \in selected : i # j => ~Conflicts(i, j)
      /\ \A i \in 0 .. n - 1 : i \notin selected => \E j \in selected : Conflicts(i, j)
  BY <1>0 DEF SelectIInv, LoopInv
<1>5. SelectionIndependent'
  BY <1>0, <1>3, <1>4 DEF SelectionIndependent, Incompatible, Conflicts
<1>6. SelectionMaximal'
  BY <1>0, <1>1, <1>3, <1>4 DEF SelectionMaximal, Incompatible, Conflicts
<1>7. LoopInv'
  BY <1>0 DEF LoopInv
<1> QED
  BY <1>2, <1>5, <1>6, <1>7 DEF SelectIInv

\* The inductive invariant holds in every reachable state.
THEOREM SelectInvariance == SelectSpec => []SelectIInv
<1>1. SelectIInv /\ [SelectNext]_selectVars => SelectIInv'
  <2> SUFFICES ASSUME SelectIInv, [SelectNext]_selectVars PROVE SelectIInv'
    OBVIOUS
  <2>1. CASE UNCHANGED selectVars
    BY <2>1 DEF selectVars, SelectIInv, SelectTypeOK, Increasing, LoopInv, Conflicts, SelectionIndependent,
                SelectionMaximal, MatrixFits, Incompatible
  <2> QED
    BY <2>1, CheckIInv, ConsiderIInv, EmitIInv DEF SelectNext
<1> QED
  BY <1>1, SelectInitIInv, PTL DEF SelectSpec

\* The loop reads no cell outside the conflict slice.
THEOREM CellsRead == SelectSpec => []SelectTypeOK
<1>1. SelectIInv => SelectTypeOK
  BY DEF SelectIInv
<1> QED
  BY <1>1, SelectInvariance, PTL

\* For any number of tenants and any matrix that fits them, the tenants
\* selected are pairwise compatible.
THEOREM Independent == SelectSpec => []SelectionIndependent
<1>1. SelectIInv => SelectionIndependent
  BY DEF SelectIInv
<1> QED
  BY <1>1, SelectInvariance, PTL

\* For any number of tenants and any matrix that fits them, no other tenant
\* could be added to the selection.
THEOREM Maximal == SelectSpec => []SelectionMaximal
<1>1. SelectIInv => SelectionMaximal
  BY DEF SelectIInv
<1> QED
  BY <1>1, SelectInvariance, PTL
=============================================================================
