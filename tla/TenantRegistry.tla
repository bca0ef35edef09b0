--------------------------- MODULE TenantRegistry ---------------------------
(***************************************************************************)
(* TenantRegistry: threads that register and unregister tenants of one      *)
(* megakernel.  A registration draws an id from the atomic next_id, derives *)
(* the opcode window of the id, and inserts the handle into the concurrent  *)
(* map; unregistering removes the handle and then raises its revoked flag.  *)
(* The steps of different threads interleave.                               *)
(*                                                                          *)
(* Opcodes are u32 in the code.  The model keeps the shape of that space    *)
(* with smaller numbers: OpcodeSpace for 2^32, SystemBit for 2^31.          *)
(***************************************************************************)
EXTENDS Integers, FiniteSets

CONSTANTS
  Threads,      \* threads that use the registry
  OpcodeSpace,  \* number of u32 values
  SystemBit,    \* SYSTEM_MASK, the lowest opcode with the high bit set
  OpcodeBase,   \* TENANT_OPCODE_BASE
  Window,       \* OPCODE_RANGE_PER_TENANT
  IdMax,        \* TENANT_ID_MAX
  MaxCalls      \* bound: registrations begun in a behaviour

ASSUME WindowAssumption == Window \in Nat \ {0}
ASSUME OpcodeAssumption ==
  OpcodeSpace \in Nat /\ SystemBit \in Nat /\ OpcodeBase \in Nat
ASSUME IdAssumption == IdMax \in Nat /\ IdMax >= 2
ASSUME CallsAssumption == MaxCalls \in Nat

VARIABLES
  nextId,     \* next_id
  tenants,    \* ids in the map
  revoked,    \* ids whose handle has the revoked flag
  handles,    \* ids of every handle that register has returned
  calls,      \* registrations begun
  thread      \* each thread: program counter, the next_id it read, its id, its
              \* result, and the number of tenants when it began to register

vars == <<nextId, tenants, revoked, handles, calls, thread>>

Results == {"none", "ok", "full"}

Init ==
  /\ nextId = 0 /\ tenants = {} /\ revoked = {} /\ handles = {} /\ calls = 0
  /\ thread = [t \in Threads |-> [pc |-> "idle", seen |-> 0, id |-> 0, result |-> "none",
                                live |-> 0]]
-----------------------------------------------------------------------------
(* Opcode windows *)

AtLeastOne(n) == IF n = 0 THEN 1 ELSE n

BaseOf(id) == OpcodeBase + id * Window
WindowOf(id) == BaseOf(id) .. BaseOf(id) + Window - 1

\* Slip: the first opcode of the window is checked, not the end.
WindowFitsAtBase(id) == BaseOf(id) < OpcodeSpace

\* The checked arithmetic of register_with_backpressure: the end of the window
\* is a u32 other than SHUTDOWN, the greatest u32.
WindowFits(id) == BaseOf(id) + Window < OpcodeSpace - 1

\* is_system, for opcodes at or above OpcodeBase.
IsSystem(opcode) == opcode >= SystemBit
-----------------------------------------------------------------------------
(* register_with_backpressure *)

\* The load of next_id that begins the update.
BeginRegister(t) ==
  /\ thread[t].pc = "idle" /\ calls < MaxCalls
  /\ calls' = calls + 1
  /\ thread' = [thread EXCEPT ![t] = [@ EXCEPT !.pc = "exchange", !.seen = nextId,
                                               !.live = Cardinality(tenants)]]
  /\ UNCHANGED <<nextId, tenants, revoked, handles>>

\* Slip: the id is stored without comparing.
DrawIdByStore(t) ==
  /\ thread[t].pc = "exchange"
  /\ thread[t].seen < IdMax
  /\ nextId' = AtLeastOne(thread[t].seen) + 1
  /\ thread' = [thread EXCEPT ![t] = [@ EXCEPT !.pc = "insert",
                                               !.id = AtLeastOne(thread[t].seen)]]
  /\ UNCHANGED <<tenants, revoked, handles, calls>>

\* The closure and compare_exchange_weak, which may fail although the value
\* matches; a failure repeats the closure on the value it returned.
DrawId(t) ==
  /\ thread[t].pc = "exchange"
  /\ \/ /\ thread[t].seen >= IdMax
        /\ thread' = [thread EXCEPT ![t] = [@ EXCEPT !.pc = "idle", !.result = "full"]]
        /\ UNCHANGED nextId
     \/ /\ thread[t].seen < IdMax /\ nextId = thread[t].seen
        /\ nextId' = AtLeastOne(nextId) + 1
        /\ thread' = [thread EXCEPT ![t] = [@ EXCEPT !.pc = "insert",
                                               !.id = AtLeastOne(thread[t].seen)]]
     \/ /\ thread[t].seen < IdMax
        /\ thread' = [thread EXCEPT ![t] = [@ EXCEPT !.seen = nextId]]
        /\ UNCHANGED nextId
  /\ UNCHANGED <<tenants, revoked, handles, calls>>

\* The window of the id, and the insertion into the map.  An id without a
\* window is lost.
Insert(t) ==
  /\ thread[t].pc = "insert"
  /\ IF WindowFits(thread[t].id)
       THEN /\ tenants' = tenants \cup {thread[t].id}
            /\ handles' = handles \cup {thread[t].id}
            /\ thread' = [thread EXCEPT ![t] = [@ EXCEPT !.pc = "idle", !.result = "ok"]]
       ELSE /\ thread' = [thread EXCEPT ![t] = [@ EXCEPT !.pc = "idle", !.result = "full"]]
            /\ UNCHANGED <<tenants, handles>>
  /\ UNCHANGED <<nextId, revoked, calls>>
-----------------------------------------------------------------------------
(* unregister *)

\* Slip: the flag is raised before the entry is removed.
RemoveAfterRevoke(t) ==
  /\ thread[t].pc = "idle"
  /\ \E id \in tenants :
       /\ thread' = [thread EXCEPT ![t] = [@ EXCEPT !.pc = "revoke", !.id = id]]
       /\ revoked' = revoked \cup {id}
  /\ UNCHANGED <<nextId, tenants, handles, calls>>

\* The removal from the map.  Of two threads that unregister one tenant, one
\* finds no entry and returns None, which changes nothing.
Remove(t) ==
  /\ thread[t].pc = "idle"
  /\ \E id \in tenants :
       /\ tenants' = tenants \ {id}
       /\ thread' = [thread EXCEPT ![t] = [@ EXCEPT !.pc = "revoke", !.id = id]]
  /\ UNCHANGED <<nextId, revoked, handles, calls>>

\* The store to the revoked flag of the removed handle.
Revoke(t) ==
  /\ thread[t].pc = "revoke"
  /\ revoked' = revoked \cup {thread[t].id}
  /\ thread' = [thread EXCEPT ![t].pc = "idle"]
  /\ UNCHANGED <<nextId, tenants, handles, calls>>

ThreadStep(t) ==
  BeginRegister(t) \/ DrawId(t) \/ Insert(t) \/ Remove(t) \/ Revoke(t)

Next == \E t \in Threads : ThreadStep(t)

Spec == Init /\ [][Next]_vars
-----------------------------------------------------------------------------
(* Properties *)

\* No id is 0 or the reserved TENANT_ID_MAX, and threads are at one of their
\* program points.
TypeOK ==
  /\ nextId \in 0 .. IdMax /\ calls \in 0 .. MaxCalls
  /\ tenants \subseteq 1 .. IdMax - 1 /\ revoked \subseteq 1 .. IdMax - 1
  /\ handles \subseteq 1 .. IdMax - 1
  /\ thread \in [Threads -> [pc : {"idle", "exchange", "insert", "revoke"},
                             seen : 0 .. IdMax, id : 0 .. IdMax - 1, result : Results, live : Nat]]

\* An id under registration is nobody else's: no other registration holds it
\* and no handle, past or present, has it.
FreshIds ==
  \A t \in Threads : thread[t].pc = "insert" =>
    /\ thread[t].id \notin handles
    /\ \A u \in Threads \ {t} : thread[u].pc = "insert" => thread[u].id # thread[t].id

\* The opcode windows of all handles ever returned, revoked ones included, are
\* disjoint, hold no opcode twice and stay below SHUTDOWN.
WindowsDisjoint ==
  /\ \A i, j \in handles : i # j => WindowOf(i) \cap WindowOf(j) = {}
  /\ \A i \in handles : WindowOf(i) \subseteq OpcodeBase + 1 .. OpcodeSpace - 2

\* Threads between the removal of a tenant and its flag.
Revoking == {t \in Threads : thread[t].pc = "revoke"}

\* Every handle ever returned is in one place: in the map and not revoked, or
\* revoked and out of the map, or with the one thread that has removed it and
\* is about to raise its flag.  So no handle is left out of the map with its
\* flag down, and of several threads that unregister one tenant one gets it.
HandlesAccountedFor ==
  /\ tenants \cup revoked \subseteq handles /\ tenants \cap revoked = {}
  /\ \A t \in Revoking : thread[t].id \in handles \ (tenants \cup revoked)
  /\ \A t, u \in Revoking : thread[t].id = thread[u].id => t = u
  /\ \A id \in handles \ (tenants \cup revoked) : \E t \in Revoking : thread[t].id = id

\* A removed tenant never comes back, and its flag is never lowered, whatever
\* other threads register meanwhile.
RemovedForGood ==
  [][/\ (handles \ tenants) \cap tenants' = {}
     /\ revoked \subseteq revoked' /\ handles \subseteq handles']_vars

\* What the module documentation says of a tenant's opcode range: the whole
\* range is in the space that validate_user_opcode accepts.
WindowsInUserSpace == \A i \in handles : \A op \in WindowOf(i) : ~IsSystem(op)

\* What the documentation of RegistryFull asks the caller to do helps: a
\* registration that begins when every tenant has been unregistered succeeds.
FullMeansOccupied == \A t \in Threads : thread[t].result = "full" => thread[t].live > 0
=============================================================================
