---------------------------- MODULE UndoJournal ----------------------------
(***************************************************************************)
(* The undo journal.  TaskService and EventService read an object, write   *)
(* its change to the CalDAV server and then let UndoManager store what     *)
(* would take it back.  undo_last reads the latest entry, carries out the  *)
(* inverse mutation through the same services while the journal is         *)
(* suspended, and only then discards the entry.  API requests run in       *)
(* threads of their own and share the journal, a table of SQLite, and the  *)
(* flag that suspends it, an attribute of the one UndoManager.             *)
(*                                                                         *)
(* Tasks and Events differ here in nothing but their names.  The fields of *)
(* an object are one value; an update changes all of it.                   *)
(***************************************************************************)
EXTENDS Naturals, FiniteSets, Sequences

CONSTANTS
    Object,         \* Tasks and Events, by UID
    Value,          \* what an object can say
    Absent,         \* no such object on the server
    Request,        \* threads that serve API requests
    MaxEntries,     \* bound on the ids the journal hands out
    MaxForeign,     \* bound on edits by other CalDAV clients
    MaxSetbacks     \* bound on failed steps and restarts

ASSUME BoundsAreNatural == {MaxEntries, MaxForeign, MaxSetbacks} \subseteq Nat
ASSUME AbsentIsNoValue == Absent \notin Value
ASSUME SomeObject == Object # {}

VARIABLES
    server,     \* the state of each object on the server
    unused,     \* UIDs no object has had
    journal,    \* stored: the rows of the table
    lastId,     \* stored: the last id handed out
    applying,   \* UndoManager._applying
    req,        \* what each request is doing
    applied,    \* history: how often the inverse of an entry was carried out
    nested,     \* history: two undos have been suspending at the same time
    crowded,    \* history: two undos have run at the same time
    disturbed,  \* history: something has interfered with a lone client
    foreign, setbacks

serverVars == <<server, unused>>
storeVars  == <<journal, lastId>>
history    == <<applied, nested, crowded, disturbed>>
counts     == <<foreign, setbacks>>
vars       == <<serverVars, storeVars, applying, req, history, counts>>

State == Value \cup {Absent}
Mutation == {"create", "update", "delete"}
Ids == 1 .. MaxEntries

\* An entry: the mutation it can take back and the state before it
Entry == [id : Ids, action : Mutation, object : Object, before : State,
          byUndo : BOOLEAN]

\* A request: the mutation it makes, whether it read the object from the snapshot
\* of the sync, or else whether the version it read is still the one on the
\* server, and for an undo the entry it takes back and the flag it found
Places == {"idle", "suspend", "read", "write", "remember", "leave", "failed",
           "discard"}
Job == [at : Places,
        does : Mutation, object : Object, value : State, before : State,
        stale : BOOLEAN, current : BOOLEAN, entry : Ids \cup {0}, flag : BOOLEAN]

Undoing(r) == req[r].entry # 0
Suspending(r) == Undoing(r) /\ req[r].at \notin {"idle", "suspend", "discard"}
Busy(r) == req[r].at # "idle"

\* A request is new: it has no entry to take back
Fresh(does, o, v, at) ==
    [at |-> at, does |-> does, object |-> o, value |-> v, before |-> Absent,
     stale |-> FALSE, current |-> FALSE, entry |-> 0, flag |-> FALSE]
Idle == Fresh("update", CHOOSE o \in Object : TRUE, Absent, "idle")

Gone(r, at) ==
    [req EXCEPT ![r] = IF at = "idle" THEN Idle ELSE [@ EXCEPT !.at = at]]
GoTo(r, at) == req' = Gone(r, at)
Disturb(r) == disturbed' = (disturbed \/ \E q \in Request \ {r} : Busy(q))
-----------------------------------------------------------------------------
(* A change made through the API.                                          *)

Create(r, o, v) ==
    /\ ~Busy(r) /\ o \in unused /\ lastId < MaxEntries
    /\ unused' = unused \ {o}
    /\ req' = [req EXCEPT ![r] = Fresh("create", o, v, "write")]
    /\ Disturb(r)
    /\ UNCHANGED <<server, storeVars, applying, applied, nested, crowded, counts>>

Update(r, o, v) ==
    /\ ~Busy(r) /\ o \notin unused /\ lastId < MaxEntries
    /\ req' = [req EXCEPT ![r] = Fresh("update", o, v, "read")]
    /\ Disturb(r)
    /\ UNCHANGED <<serverVars, storeVars, applying, applied, nested, crowded, counts>>

Delete(r, o) ==
    /\ ~Busy(r) /\ o \notin unused /\ lastId < MaxEntries
    /\ req' = [req EXCEPT ![r] = Fresh("delete", o, Absent, "read")]
    /\ Disturb(r)
    /\ UNCHANGED <<serverVars, storeVars, applying, applied, nested, crowded, counts>>
-----------------------------------------------------------------------------
(* undo_last.                                                              *)

Opposite(does) ==
    CASE does = "create" -> "delete" [] does = "delete" -> "create"
      [] OTHER -> "update"

\* UndoManager.undo_last: the latest entry; without one the call is refused
Latest(r) ==
    /\ ~Busy(r)
    /\ \E e \in journal :
           /\ \A f \in journal : f.id <= e.id
           /\ req' = [req EXCEPT ![r] =
                         [Fresh(Opposite(e.action), e.object, e.before, "suspend")
                              EXCEPT !.entry = e.id]]
    /\ crowded' = (crowded \/ \E q \in Request \ {r} : Busy(q) /\ Undoing(q))
    /\ Disturb(r)
    /\ UNCHANGED <<serverVars, storeVars, applying, applied, nested, counts>>

\* The first step of a mutation: a create has nothing to read
First(r) == IF req[r].does = "create" THEN "write" ELSE "read"

\* The services do not remember what they are asked to do from here on
Suspend(r) ==
    /\ req[r].at = "suspend"
    /\ req' = [req EXCEPT ![r] = [@ EXCEPT !.at = First(r), !.flag = applying]]
    /\ applying' = TRUE
    /\ nested' = (nested \/ \E q \in Request \ {r} : Suspending(q))
    /\ UNCHANGED <<serverVars, storeVars, applied, crowded, disturbed, counts>>

\* Mutant of Leave: no finally
LeaveAfterSuccess(r) ==
    /\ req[r].at \in {"leave", "failed"}
    /\ applying' = IF req[r].at = "leave" THEN req[r].flag ELSE applying
    /\ GoTo(r, IF req[r].at = "leave" THEN "discard" ELSE "idle")
    /\ UNCHANGED <<serverVars, storeVars, history, counts>>

\* The flag gets the value the undo found, also when the mutation failed
Leave(r) ==
    /\ req[r].at \in {"leave", "failed"}
    /\ applying' = req[r].flag
    /\ GoTo(r, IF req[r].at = "leave" THEN "discard" ELSE "idle")
    /\ UNCHANGED <<serverVars, storeVars, history, counts>>

\* Mutant of Discard: the entry stays
DiscardNothing(r) ==
    /\ req[r].at = "discard"
    /\ GoTo(r, "idle")
    /\ UNCHANGED <<serverVars, storeVars, applying, history, counts>>

Discard(r) ==
    /\ req[r].at = "discard"
    /\ journal' = {e \in journal : e.id # req[r].entry}
    /\ GoTo(r, "idle")
    /\ UNCHANGED <<serverVars, lastId, applying, history, counts>>
-----------------------------------------------------------------------------
(* The mutation, for either kind of request.                               *)

\* NotFound, a conflict or an unreachable server: nothing is remembered, and an
\* undo keeps its entry
Refused(r) == GoTo(r, IF Undoing(r) THEN "failed" ELSE "idle")

\* TaskService.get, EventService.get
Read(r) ==
    /\ req[r].at = "read"
    /\ LET o == req[r].object IN
           IF server[o] = Absent THEN Refused(r)
           ELSE req' = [req EXCEPT ![r] =
                           [@ EXCEPT !.at = "write", !.before = server[o],
                                     !.current = TRUE]]
    /\ UNCHANGED <<serverVars, storeVars, applying, history, counts>>

\* An update is conditional on the version that was read (If-Match), a delete and
\* an update of what came from the snapshot look their object up again, and a
\* create stores an object under its UID
Accepted(r) ==
    LET q == req[r] IN
    CASE q.does = "update" /\ ~q.stale -> q.current
      [] q.does = "create" -> TRUE
      [] OTHER -> server[q.object] # Absent

\* What a change of o does to the versions that were read
Outdated(jobs, o) ==
    [q \in Request |-> [jobs[q] EXCEPT !.current = @ /\ jobs[q].object # o]]

Take(r, at) ==
    /\ server' = [server EXCEPT ![req[r].object] = req[r].value]
    /\ req' = Outdated(Gone(r, at), req[r].object)
    /\ applied' = IF Undoing(r) THEN [applied EXCEPT ![req[r].entry] = @ + 1]
                  ELSE applied

Write(r) ==
    /\ req[r].at = "write"
    /\ IF Accepted(r) THEN Take(r, "remember")
       ELSE Refused(r) /\ UNCHANGED <<server, applied>>
    /\ UNCHANGED <<unused, storeVars, applying, nested, crowded, disturbed, counts>>

\* Mutant of NewId: the highest id in the table, plus one
NewIdOfTable ==
    IF journal = {} THEN 1
    ELSE 1 + CHOOSE i \in Ids : /\ \E e \in journal : e.id = i
                               /\ \A e \in journal : e.id <= i

\* The id an entry gets: no id is given out twice (AUTOINCREMENT)
NewId == lastId + 1

\* UndoManager.remember: nothing while the journal is suspended
Store(r, before) ==
    /\ lastId < MaxEntries
    /\ lastId' = lastId + 1
    /\ journal' = journal \cup
           {[id |-> NewId, action |-> req[r].does, object |-> req[r].object,
             before |-> before, byUndo |-> Undoing(r)]}
    /\ applied' = [applied EXCEPT ![NewId] = 0]

\* Mutant of Remember: the state after the change is stored
RememberAfter(r) ==
    /\ req[r].at = "remember"
    /\ IF applying THEN UNCHANGED <<storeVars, applied>> ELSE Store(r, req[r].value)
    /\ GoTo(r, IF Undoing(r) THEN "leave" ELSE "idle")
    /\ UNCHANGED <<serverVars, applying, nested, crowded, disturbed, counts>>

Remember(r) ==
    /\ req[r].at = "remember"
    /\ IF applying THEN UNCHANGED <<storeVars, applied>> ELSE Store(r, req[r].before)
    /\ GoTo(r, IF Undoing(r) THEN "leave" ELSE "idle")
    /\ UNCHANGED <<serverVars, applying, nested, crowded, disturbed, counts>>
-----------------------------------------------------------------------------
(* What goes wrong.                                                        *)

Setback == setbacks < MaxSetbacks /\ setbacks' = setbacks + 1 /\ disturbed' = TRUE

\* The server is not reached, or SQLite fails
Fail(r) ==
    /\ Setback
    /\ \/ req[r].at \in {"read", "write", "remember"} /\ Refused(r)
       \/ req[r].at \in {"suspend", "discard"} /\ GoTo(r, "idle")
    /\ UNCHANGED <<serverVars, storeVars, applying, applied, nested, crowded, foreign>>

\* OfflineFallbackCalDAVAdapter.get_task, get_event: the server is not reached,
\* and the snapshot of the sync answers with what the object has said at some time
ReadSnapshot(r) ==
    /\ Setback
    /\ req[r].at = "read"
    /\ \E v \in Value :
           req' = [req EXCEPT ![r] = [@ EXCEPT !.at = "write", !.before = v, !.stale = TRUE]]
    /\ UNCHANGED <<serverVars, storeVars, applying, applied, nested, crowded, foreign>>

\* The server has done it, and its answer is lost
LoseReply(r) ==
    /\ Setback
    /\ req[r].at = "write" /\ Accepted(r)
    /\ Take(r, IF Undoing(r) THEN "failed" ELSE "idle")
    /\ UNCHANGED <<unused, storeVars, applying, nested, crowded, foreign>>

\* The daemon is killed and started again
Crash ==
    /\ Setback
    /\ \E r \in Request : Busy(r)
    /\ req' = [r \in Request |-> Idle]
    /\ applying' = FALSE
    /\ UNCHANGED <<serverVars, storeVars, applied, nested, crowded, foreign>>

\* Another CalDAV client
ForeignEdit(o) ==
    /\ foreign < MaxForeign /\ o \notin unused /\ server[o] # Absent
    /\ \E s \in State \ {server[o]} : server' = [server EXCEPT ![o] = s]
    /\ req' = Outdated(req, o)
    /\ foreign' = foreign + 1 /\ disturbed' = TRUE
    /\ UNCHANGED <<unused, storeVars, applying, applied, nested, crowded, setbacks>>
-----------------------------------------------------------------------------
Init ==
    /\ server \in [Object -> State]
    /\ unused = {o \in Object : server[o] = Absent}
    /\ journal = {} /\ lastId = 0
    /\ applying = FALSE
    /\ req = [r \in Request |-> Idle]
    /\ applied = [i \in Ids |-> 0]
    /\ nested = FALSE /\ crowded = FALSE /\ disturbed = FALSE
    /\ foreign = 0 /\ setbacks = 0

Call(r) ==
    \/ Latest(r)
    \/ \E o \in Object : Delete(r, o) \/ \E v \in Value : Create(r, o, v) \/ Update(r, o, v)

Step(r) ==
    \/ Suspend(r) \/ Read(r) \/ Write(r) \/ Remember(r) \/ Leave(r) \/ Discard(r)

Next ==
    \/ \E r \in Request : Call(r) \/ Step(r) \/ Fail(r) \/ ReadSnapshot(r) \/ LoseReply(r)
    \/ Crash
    \/ \E o \in Object : ForeignEdit(o)

Spec == Init /\ [][Next]_vars
-----------------------------------------------------------------------------
(* Properties.                                                             *)

\* The types; an id names one entry and only a running undo holds one (SQLiteUndoRepository, UndoManager).
TypeOK ==
    /\ server \in [Object -> State]
    /\ unused \subseteq Object
    /\ journal \subseteq Entry
    /\ lastId \in 0 .. MaxEntries
    /\ applying \in BOOLEAN
    /\ req \in [Request -> Job]
    /\ \A r \in Request :
           req[r].at \in {"suspend", "leave", "failed", "discard"} => Undoing(r)
    /\ \A e, f \in journal : e.id = f.id => e = f
    /\ applied \in [Ids -> Nat]
    /\ {nested, crowded, disturbed} \subseteq BOOLEAN
    /\ foreign \in 0 .. MaxForeign
    /\ setbacks \in 0 .. MaxSetbacks

\* r's change has been made on the server, and r is about to remember it
Written(r) == req[r].at = "write" /\ req'[r].at = "remember"
\* remember has returned to r, without an error
Answered(r) ==
    /\ req[r].at = "remember" /\ req'[r].at \in {"idle", "leave"}
    /\ setbacks' = setbacks
\* The journal gets the entry that takes r's change back
Stored(r) ==
    \E e \in journal' \ journal :
        /\ e.action = req[r].does /\ e.object = req[r].object
        /\ e.before = req[r].before /\ ~e.byUndo

\* What is remembered is what the update has replaced, whoever else writes in
\* between, unless the read was answered by the snapshot.  And while no undo of
\* another request has suspended the journal, a change is in it when remember
\* returns: no undo that failed or died leaves the journal suspended.  (A change
\* made while another request's undo runs is lost to the journal, and its answer
\* says undo_available all the same: undo/service.py:30, tasks/service.py:216.)
\* What an undo does is not stored, or the next undo would do it again.  Two
\* undos that were nested restore the flag in the wrong order; from then on
\* the second half is not claimed (undo/service.py:38-45).
JournalHoldsChanges ==
    [][\A r \in Request :
           /\ Written(r) /\ req[r].does = "update" /\ ~req[r].stale
              => req[r].before = server[req[r].object]
           /\ Answered(r) /\ ~nested
              => IF Undoing(r) THEN UNCHANGED journal
                 ELSE Stored(r) \/ \E q \in Request \ {r} : Suspending(q)]_vars

\* An entry is carried out twice only when two undos ran at the same time or
\* the first one failed after its mutation.
UndoneOnce ==
    \A i \in Ids : applied[i] > 1 => crowded \/ setbacks > 0

\* An entry leaves the journal only after its inverse has been carried out:
\* whatever fails in between, the change can still be taken back.
EntriesLeaveApplied ==
    [][\A e \in journal : e \notin journal' => applied[e.id] > 0]_vars

\* A lone client gets what UndoPromise says.  A change counts when it is
\* remembered, an undo when its entry is discarded.
Pending(r) == req[r].at \in {"remember", "leave", "discard"}
Seen ==
    [o \in Object |->
        IF \E r \in Request : Pending(r) /\ req[r].object = o
        THEN req[CHOOSE r \in Request : Pending(r) /\ req[r].object = o].before
        ELSE server[o]]
\* The i-th entry in the order of their ids, and the changes that can be taken back
Older(entries, e) == {f \in entries : f.id <= e.id}
Nth(entries, i) ==
    CHOOSE e \in {f \in entries : Cardinality(Older(entries, f)) = i} : TRUE
Changes(entries) ==
    [i \in 1 .. Cardinality(entries) |->
        LET e == Nth(entries, i) IN [object |-> e.object, was |-> e.before]]
Promise == INSTANCE UndoPromise WITH value <- Seen, stack <- Changes(journal)
PromiseSpec == Promise!Spec
=============================================================================
