----------------------------- MODULE ReplayLog ------------------------------
(***************************************************************************)
(* RingLog, the circular log of published slots: a header with the capacity *)
(* and the write cursor, and one record per slot.  The log is created in    *)
(* several writes, an append is a write of the record and then a write of   *)
(* the cursor, and the process may crash, or a write may fail, in between.  *)
(* What has been written survives a crash of the process.                   *)
(*                                                                          *)
(* A record is the number of the record write that made it.                 *)
(***************************************************************************)
EXTENDS Integers, Sequences

CONSTANTS
  MaxCapacity,  \* MAX_REPLAY_RECORDS
  MaxWrites     \* bound: record writes in a behaviour

ASSUME MaxCapacityAssumption == MaxCapacity \in Nat \ {0}
ASSUME MaxWritesAssumption == MaxWrites \in Nat

\* The creation of the file, in the order of open().
CREATED == 1
SIZED == 2
MAGIC == 3
VERSION == 4
FLAGS == 5
CAPACITY == 6
CURSOR == 7

\* What else a record may be: never written, with a magic word and the rest
\* of two records, or with half a magic word.
EMPTY == 0
MIXED == -1
BROKEN == -2

Capacities == 1 .. MaxCapacity
Indices == 0 .. MaxCapacity - 1

VARIABLES
  file,    \* steps of the creation done, and capacity, cursor and records
  handle,  \* the open RingLog: program counter, capacity and next_slot
  writes,  \* record writes begun so far
  acked,   \* history: the appends that have returned Ok
  ahead,   \* history: the records written since the cursor was last persisted
  stray    \* history: the records a crash has left past the persisted cursor

ghosts == <<acked, ahead, stray>>
vars == <<file, handle, writes, ghosts>>

Closed == [pc |-> "closed", cap |-> 0, next |-> 0]

Init ==
  /\ file = [steps |-> 0, cap |-> 0, cursor |-> 0, rec |-> [i \in Indices |-> EMPTY]]
  /\ handle = Closed
  /\ writes = 0
  /\ acked = {} /\ ahead = {} /\ stray = {}
-----------------------------------------------------------------------------
(* open *)

\* No file: it is created, for a capacity that is valid.
OpenFresh(c) ==
  /\ handle.pc = "closed" /\ file.steps = 0
  /\ file' = [file EXCEPT !.steps = CREATED]
  /\ handle' = [pc |-> "create", cap |-> c, next |-> 0]
  /\ UNCHANGED <<writes, ghosts>>

\* The next write of the creation.
CreateStep ==
  /\ handle.pc = "create" /\ file.steps < CURSOR
  /\ file' = [file EXCEPT !.steps = @ + 1,
                          !.cap = IF file.steps + 1 = CAPACITY THEN handle.cap ELSE @]
  /\ UNCHANGED <<handle, writes, ghosts>>

Created ==
  /\ handle.pc = "create" /\ file.steps = CURSOR
  /\ handle' = [handle EXCEPT !.pc = "open"]
  /\ UNCHANGED <<file, writes, ghosts>>

\* Slip: the cursor in the header is not read back.
OpenExistingAtStart ==
  /\ handle.pc = "closed" /\ file.steps >= CAPACITY
  /\ handle' = [pc |-> "open", cap |-> file.cap, next |-> 0]
  /\ UNCHANGED <<file, writes, ghosts>>

\* A file: its header decides, whatever capacity the caller asks for.  Up to
\* the write of the capacity the file is too short, has no magic word or no
\* version, or has capacity 0, and open fails.
OpenExisting ==
  /\ handle.pc = "closed" /\ file.steps >= CAPACITY
  /\ handle' = [pc |-> "open", cap |-> file.cap, next |-> file.cursor % file.cap]
  /\ UNCHANGED <<file, writes, ghosts>>
-----------------------------------------------------------------------------
(* append *)

\* The write of the record, and the advance of next_slot in memory.
WriteRecord ==
  /\ handle.pc = "open" /\ writes < MaxWrites
  /\ writes' = writes + 1
  /\ file' = [file EXCEPT !.rec = [@ EXCEPT ![handle.next] = writes + 1]]
  /\ handle' = [handle EXCEPT !.pc = "cursor", !.next = (handle.next + 1) % handle.cap]
  /\ ahead' = ahead \cup {writes + 1}
  /\ UNCHANGED <<acked, stray>>

\* The write fails and append returns; part of the record may have been
\* written.  (Nothing changes when nothing was.)
WriteRecordFails ==
  /\ handle.pc = "open" /\ writes < MaxWrites
  /\ writes' = writes + 1
  /\ \E torn \in IF file.rec[handle.next] \in {EMPTY, BROKEN} THEN {MIXED, BROKEN} ELSE {MIXED} :
       file' = [file EXCEPT !.rec = [@ EXCEPT ![handle.next] = torn]]
  /\ UNCHANGED <<handle, ghosts>>

\* The write of the cursor; append returns Ok.
PersistCursor ==
  /\ handle.pc = "cursor"
  /\ file' = [file EXCEPT !.cursor = handle.next]
  /\ handle' = [handle EXCEPT !.pc = "open"]
  /\ acked' = acked \cup {writes}
  /\ ahead' = {}
  /\ UNCHANGED <<writes, stray>>

\* Slip: next_slot is set back to what the file says.
PersistCursorFailsRollsBack ==
  /\ handle.pc = "cursor"
  /\ handle' = [handle EXCEPT !.pc = "open", !.next = file.cursor]
  /\ UNCHANGED <<file, writes, ghosts>>

\* The write fails and append returns; next_slot stays advanced.
PersistCursorFails ==
  /\ handle.pc = "cursor"
  /\ handle' = [handle EXCEPT !.pc = "open"]
  /\ UNCHANGED <<file, writes, ghosts>>
-----------------------------------------------------------------------------
\* The process ends at any point, or a creation fails, or the log is dropped.
Crash ==
  /\ handle.pc # "closed"
  /\ handle' = Closed
  /\ stray' = stray \cup ahead
  /\ ahead' = {}
  /\ UNCHANGED <<file, writes, acked>>

Next ==
  \/ \E c \in Capacities : OpenFresh(c)
  \/ CreateStep \/ Created \/ OpenExisting
  \/ WriteRecord \/ WriteRecordFails \/ PersistCursor \/ PersistCursorFails
  \/ Crash

Spec == Init /\ [][Next]_vars
-----------------------------------------------------------------------------
(* replay_all *)

\* Slip: the replay starts after the cursor.
ReplaySlotAfterCursor(start, k) == (start + k + 1) % file.cap

\* The slot that is read k-th by a replay that starts at slot start.
ReplaySlot(start, k) == (start + k) % file.cap

\* What a replay from slot start finds in the slots, of the records in S: the
\* loop reads every slot once and passes over the others.
Gather(start, S) ==
  LET Out[k \in 0 .. file.cap] ==
        IF k = 0 THEN <<>>
        ELSE LET r == file.rec[ReplaySlot(start, k - 1)]
             IN  IF r \in S THEN Append(Out[k - 1], r) ELSE Out[k - 1]
  IN  Out[file.cap]

\* What it returns: untouched slots are skipped; a BROKEN entry stands for the
\* error with which the replay ends there.
Replay(start) == Gather(start, (BROKEN .. MaxWrites) \ {EMPTY})

\* The records that count: whole, and not left behind by a crash.
Live(r) == r > 0 /\ r \notin stray
LiveRecords == (1 .. writes) \ stray
-----------------------------------------------------------------------------
(* Properties *)

TypeOK ==
  /\ file \in [steps : 0 .. CURSOR, cap : 0 .. MaxCapacity, cursor : Indices,
               rec : [Indices -> BROKEN .. MaxWrites]]
  /\ handle \in [pc : {"closed", "create", "open", "cursor"}, cap : 0 .. MaxCapacity,
                 next : Indices]
  /\ writes \in 0 .. MaxWrites
  /\ acked \subseteq 1 .. writes /\ ahead \subseteq 1 .. writes /\ stray \subseteq 1 .. writes

\* Where an open log, or the next open, goes on.
Start == IF handle.pc \in {"open", "cursor"} THEN handle.next ELSE file.cursor

\* An append that has returned Ok stays in the log until as many records have
\* been written after it as the log has slots, whatever fails and however
\* often the process crashes and opens the log again (append, open).
AcknowledgedKept ==
  \A n \in acked : writes - n < file.cap => \E i \in 0 .. file.cap - 1 : file.rec[i] = n

\* A replay gives the records in the order they were appended, except for
\* records whose cursor a crash has lost and records that are torn
\* (replay_all from next_slot, which a failed cursor write leaves ahead of
\* the file and a crash sets back).
ReplayOrdered ==
  file.cap > 0 =>
    \A j, k \in 0 .. file.cap - 1 :
      LET r == file.rec[ReplaySlot(Start, j)]
          s == file.rec[ReplaySlot(Start, k)]
      IN  (j < k /\ Live(r) /\ Live(s)) => r < s

\* "a crash mid-session does not desynchronise the replay": a replay of an
\* open log gives the records that are whole in the order of their appends.
ReplayInSync ==
  handle.pc = "open" =>
    LET Whole(r) == r > 0
        out == SelectSeq(Replay(handle.next), Whole)
    IN  \A j, k \in 1 .. Len(out) : j < k => out[j] < out[k]

\* The log is a circular log that loses only what nobody was promised.
CL == INSTANCE CircularLog WITH
        size <- file.cap, acked <- acked, log <- Gather(Start, LiveRecords)

ImplementsCircularLog == CL!Spec
=============================================================================
