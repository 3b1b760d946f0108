---------------------------- MODULE WorkLifecycle ----------------------------
(***************************************************************************)
(* The Task lifecycle with a Work collection configured: the class chain   *)
(* WorkPeriodAwareTaskService < CompletionLoggingTaskService <             *)
(* CalDAVWorkTaskService < TaskService, the WorkLogService it writes       *)
(* through, and the cached current-work fact of CalDAVSessionService.      *)
(*                                                                         *)
(* The server holds the Tasks (VTODOs) and the work intervals (Work        *)
(* VEVENTs).  A request is one lifecycle call served on a thread of its    *)
(* own, here or on another device: it reads, decides, writes a VEVENT,     *)
(* writes the VTODO under If-Match, compensates or publishes, and each of  *)
(* those is one atomic call to the server or to SQLite, so a step below is *)
(* one such call and requests interleave between steps.                    *)
(***************************************************************************)
EXTENDS Naturals, FiniteSets

CONSTANTS
    Task,           \* Task ids on the server
    Segment,        \* ids a Work VEVENT can get; bounds how many are ever opened
    Request,        \* concurrent lifecycle calls
    Remote,         \* the requests that another device's daemon serves
    Operations,     \* the lifecycle calls that are made
    Faults,         \* which faults happen: a subset of FaultKinds
    ExternalEdits,  \* TRUE: other CalDAV clients edit and delete VTODOs
    ReadyLane,      \* TRUE: the scheduler refreshes the cached current work
    None,           \* no Task, no interval
    Ambiguous,      \* more than one open interval (AmbiguousError)
    Unverified      \* no current-work fact of this daemon generation

AllOperations == {"start", "pause", "switch_away", "resume", "complete",
                  "cancel", "delete", "remove", "update", "create"}

\* refuse: a server call fails and has no effect; lost: it takes effect and its
\* reply is lost; stale: a Task read fails and the snapshot of the last
\* synchronization answers it; crash: the daemon dies and is started again
FaultKinds == {"refuse", "lost", "stale", "crash"}

ASSUME ConstantsAssumption ==
    /\ Remote \subseteq Request
    /\ Operations \subseteq AllOperations
    /\ Faults \subseteq FaultKinds
    /\ {ExternalEdits, ReadyLane} \subseteq BOOLEAN
    /\ None \notin Task /\ None \notin Segment
    /\ Ambiguous \notin Task /\ Ambiguous # None
    /\ Unverified \notin Task /\ Unverified # None

VARIABLES
    status,     \* status[t]: STATUS of the VTODO, or "ABSENT" after its deletion
    phase,      \* phase[s]: what the Work collection holds for interval s
    owner,      \* owner[s]: the Task-UID line of interval s
    req,        \* req[r]: where request r is and what it has read
    fresh,      \* requests whose ETag is still the one of the VTODO they read
    cache,      \* the verified current-work fact a foreground client is shown
    refresh,    \* what the ready-state refresh has read and not yet published
    granted,    \* history: intervals whose start or resume was answered "ok"
    severed     \* history: intervals whose start or resume a fault cut short

history == <<granted, severed>>
vars == <<status, phase, owner, req, fresh, cache, refresh, history>>

Status == {"NEEDS-ACTION", "IN-PROCESS", "COMPLETED", "CANCELLED"}
Terminal == {"COMPLETED", "CANCELLED"}
Phase == {"unused", "open", "closed", "deleted"}

PC == {"idle", "checking", "confirming", "reading", "history", "opening",
       "closing", "putting", "creating", "deleting", "forgetting",
       "publishing", "compensating"}

RequestState ==
    [pc : PC,
     op : AllOperations \cup {"none"},
     task : Task \cup {None},
     goal : Status,                      \* the STATUS the request writes
     saw : Status \cup {"ABSENT"},       \* the STATUS it read
     via : {"live", "snapshot", "reread"},  \* the version it would overwrite
     reads : SUBSET {"task", "open"},    \* which preflight reads have returned
     open : SUBSET Segment,              \* the open intervals it read
     seg : Segment \cup {None}]          \* the interval it opened or closes

IdleRequest == [pc |-> "idle", op |-> "none", task |-> None,
                goal |-> "NEEDS-ACTION", saw |-> "ABSENT", via |-> "live",
                reads |-> {}, open |-> {}, seg |-> None]

TypeOK ==
    /\ status \in [Task -> Status \cup {"ABSENT"}]
    /\ phase \in [Segment -> Phase]
    /\ owner \in [Segment -> Task \cup {None}]
    /\ req \in [Request -> RequestState]
    /\ fresh \subseteq Request
    /\ cache \in Task \cup {None, Unverified}
    /\ refresh \in Task \cup {None, Unverified}
    /\ granted \subseteq Segment /\ severed \subseteq Segment

(***************************************************************************)
(* What the operations are made of.                                        *)
(***************************************************************************)
OpenSegments == {s \in Segment : phase[s] = "open"}

\* current_task_id over a snapshot of open intervals
CurrentTask(S) ==
    IF S = {} THEN None
    ELSE IF \E s \in S : S = {s} THEN owner[CHOOSE s \in S : TRUE]
    ELSE Ambiguous

\* segments_for(t) is not empty
HasHistory(t) == \E s \in Segment : owner[s] = t /\ phase[s] \in {"open", "closed"}

\* The STATUS an operation writes; tasks.update and tasks.create (an edit, an
\* undo) take any
Goals(o) ==
    CASE o = "start"       -> {"IN-PROCESS"}
      [] o = "complete"    -> {"COMPLETED"}
      [] o = "cancel"      -> {"CANCELLED"}
      [] o \in {"update", "create"} -> Status
      [] OTHER             -> {"NEEDS-ACTION"}

\* The reads an operation makes before it decides
Needs(o) == IF o = "update" THEN {"task"} ELSE {"task", "open"}

\* These make the two reads one after the other, the others in parallel
Sequential == {"switch_away", "delete"}

\* The business precondition, on what the request has read.  Only start asks
\* whether the Task came from the server
Allowed(q, cur) ==
    CASE q.op = "start"  -> /\ q.via = "live"
                            /\ q.saw \notin Terminal /\ cur = None
      [] q.op = "resume" -> q.saw = "IN-PROCESS" /\ cur = None
      [] q.op \in {"pause", "switch_away"} ->
            q.saw = "IN-PROCESS" /\ cur = q.task
      [] q.op \in {"complete", "cancel", "delete"} -> cur # Ambiguous
      [] OTHER -> TRUE

\* Mutant of FirstCall: cancel writes the Task and leaves the interval open
FirstCallCancelKeepsWorking(o, isCurrent) ==
    CASE o = "start"  -> "opening"
      [] o = "resume" -> "history"
      [] o = "delete" -> "deleting"
      [] o \in {"pause", "switch_away"} -> "closing"
      [] o = "complete" /\ isCurrent -> "closing"
      [] OTHER -> "putting"

\* The first call an allowed operation makes
FirstCall(o, isCurrent) ==
    CASE o = "start"  -> "opening"
      [] o = "resume" -> "history"
      [] o = "delete" -> "deleting"
      [] o \in {"pause", "switch_away"} -> "closing"
      [] o \in {"complete", "cancel"} /\ isCurrent -> "closing"
      [] OTHER -> "putting"

\* BOUND: an interval id is left for every request that may still open one
SegmentsLeft ==
    LET opening == {r \in Request : req[r].op \in {"start", "resume"}
                                        /\ req[r].seg = None}
        unused == {s \in Segment : phase[s] = "unused"}
    IN  Cardinality(opening) < Cardinality(unused)

\* A write to the VTODO of t changes its ETag
ChangedETag(t) == {r \in fresh : req[r].task # t}

Return(r) ==
    /\ req' = [req EXCEPT ![r] = IdleRequest]
    /\ fresh' = fresh \ {r}

\* Mutant of AfterFailedPut: a failed Task write is just reported
AfterFailedPutUncompensated(q) == IdleRequest

\* The Task write failed: start, switch_away and complete undo their VEVENT
\* write, cancel does not
AfterFailedPut(q) ==
    IF q.seg # None /\ q.op \in {"start", "switch_away", "complete"}
    THEN [q EXCEPT !.pc = "compensating"]
    ELSE IdleRequest

(***************************************************************************)
(* Receiving a request and reading.                                        *)
(***************************************************************************)
FirstStep(o) ==
    CASE o = "remove" -> "checking"
      [] o = "create" -> "creating"
      [] OTHER        -> "reading"

Begin(r, o, t, g) ==
    /\ req[r].pc = "idle"
    /\ o \in Operations
    /\ g \in Goals(o)
    /\ o \in {"start", "resume"} => SegmentsLeft
    /\ req' = [req EXCEPT ![r] =
                [IdleRequest EXCEPT !.pc = FirstStep(o), !.op = o,
                                    !.task = t, !.goal = g]]
    /\ UNCHANGED <<status, phase, owner, fresh, cache, refresh, history>>

\* Mutant of CheckNotCurrent: the current Task is not refused
CheckNothing(r) ==
    /\ req[r].pc = "checking"
    /\ req' = [req EXCEPT ![r].pc = "confirming"]
    /\ UNCHANGED <<status, phase, owner, fresh, cache, refresh, history>>

\* `remove` in the CLI: the current Task is refused before the confirmation
CheckNotCurrent(r) ==
    /\ req[r].pc = "checking"
    /\ LET cur == CurrentTask(OpenSegments) IN
       IF cur \in {Ambiguous, req[r].task}
       THEN Return(r)
       ELSE /\ req' = [req EXCEPT ![r].pc = "confirming"]
            /\ UNCHANGED fresh
    /\ UNCHANGED <<status, phase, owner, cache, refresh, history>>

\* The user answers: tasks.delete is called, or nothing
Confirm(r) ==
    /\ req[r].pc = "confirming"
    /\ \/ Return(r)
       \/ /\ req' = [req EXCEPT ![r].pc = "reading", ![r].op = "delete"]
          /\ UNCHANGED fresh
    /\ UNCHANGED <<status, phase, owner, cache, refresh, history>>

ReadTask(r) ==
    LET t == req[r].task IN
    /\ req[r].pc = "reading"
    /\ "task" \notin req[r].reads
    /\ IF status[t] = "ABSENT"
       THEN Return(r)
       ELSE /\ req' = [req EXCEPT ![r].saw = status[t],
                                  ![r].reads = @ \cup {"task"}]
            /\ fresh' = fresh \cup {r}
    /\ UNCHANGED <<status, phase, owner, cache, refresh, history>>

\* OfflineFallbackCalDAVAdapter.get_task: the server is not reached and the last
\* snapshot has the Task.  The copy is of any age, so it has any STATUS, and
\* carries no raw data, URL or ETag
ReadSnapshot(r) ==
    LET q == req[r] IN
    /\ "stale" \in Faults
    /\ q.pc = "reading"
    /\ "task" \notin q.reads
    /\ \E st \in Status :
            req' = [req EXCEPT ![r] =
                        [q EXCEPT !.saw = st, !.via = "snapshot",
                                  !.reads = q.reads \cup {"task"}]]
    /\ UNCHANGED <<status, phase, owner, fresh, cache, refresh, history>>

ReadOpen(r) ==
    /\ req[r].pc = "reading"
    /\ "open" \in Needs(req[r].op) \ req[r].reads
    /\ req[r].op \in Sequential => "task" \in req[r].reads
    /\ req' = [req EXCEPT ![r].open = OpenSegments,
                          ![r].reads = @ \cup {"open"}]
    /\ UNCHANGED <<status, phase, owner, fresh, cache, refresh, history>>

\* Both reads are in: check the precondition, choose the first write
Decide(r) ==
    LET q == req[r]
        cur == CurrentTask(q.open)
    IN
    /\ q.pc = "reading"
    /\ q.reads = Needs(q.op)
    /\ IF ~Allowed(q, cur)
       THEN Return(r)
       ELSE /\ req' = [req EXCEPT ![r] =
                        [q EXCEPT !.pc = FirstCall(q.op, cur = q.task),
                                  !.seg = IF cur = q.task /\ q.op # "delete"
                                          THEN CHOOSE s \in q.open : TRUE
                                          ELSE None,
                                  !.open = {}]]
            /\ UNCHANGED fresh
    /\ UNCHANGED <<status, phase, owner, cache, refresh, history>>

\* Mutant of ReadHistory: a Task without history is asked about again
ReadHistoryUntilFound(r) ==
    /\ req[r].pc = "history"
    /\ HasHistory(req[r].task)
    /\ req' = [req EXCEPT ![r].pc = "opening"]
    /\ UNCHANGED <<status, phase, owner, fresh, cache, refresh, history>>

\* resume: only a Task that has worked before
ReadHistory(r) ==
    /\ req[r].pc = "history"
    /\ IF HasHistory(req[r].task)
       THEN /\ req' = [req EXCEPT ![r].pc = "opening"]
            /\ UNCHANGED fresh
       ELSE Return(r)
    /\ UNCHANGED <<status, phase, owner, cache, refresh, history>>

(***************************************************************************)
(* Writing.                                                                *)
(***************************************************************************)
OpenSegment(r) ==
    /\ req[r].pc = "opening"
    /\ \E s \in Segment :
        /\ phase[s] = "unused"
        /\ phase' = [phase EXCEPT ![s] = "open"]
        /\ owner' = [owner EXCEPT ![s] = req[r].task]
        /\ req' = [req EXCEPT ![r].seg = s,
                              ![r].pc = IF req[r].op = "start"
                                        THEN "putting" ELSE "publishing"]
    /\ UNCHANGED <<status, fresh, cache, refresh, history>>

\* close_segment writes DTEND by event id, whatever the VEVENT has become
\* since the snapshot; a deleted VEVENT is NotFound
CloseSegment(r) ==
    LET s == req[r].seg IN
    /\ req[r].pc = "closing"
    /\ IF phase[s] = "deleted"
       THEN Return(r) /\ UNCHANGED phase
       ELSE /\ phase' = [phase EXCEPT ![s] = "closed"]
            /\ req' = [req EXCEPT ![r].pc = IF req[r].op = "pause"
                                            THEN "publishing" ELSE "putting"]
            /\ UNCHANGED fresh
    /\ UNCHANGED <<status, owner, cache, refresh, history>>

\* Where a request goes once its Task write is confirmed
AfterPut(q) ==
    CASE q.op = "start"  -> [q EXCEPT !.pc = "publishing"]
      [] q.op = "update" -> IdleRequest
      [] OTHER           -> [q EXCEPT !.pc = "forgetting"]

\* Mutant of PutTask: the PUT goes without If-Match
PutTaskUnconditionally(r) ==
    LET q == req[r] IN
    /\ q.pc = "putting"
    /\ status' = [status EXCEPT ![q.task] = q.goal]
    /\ req' = [req EXCEPT ![r] = AfterPut(q)]
    /\ fresh' = ChangedETag(q.task)
    /\ UNCHANGED <<phase, owner, cache, refresh, history>>

\* update_task_from_snapshot, or update_task after its own reading: one PUT with
\* If-Match, no retry
PutTask(r) ==
    LET q == req[r] IN
    /\ q.pc = "putting"
    /\ r \in fresh
    /\ status' = [status EXCEPT ![q.task] = q.goal]
    /\ req' = [req EXCEPT ![r] = AfterPut(q)]
    /\ fresh' = ChangedETag(q.task)
    /\ UNCHANGED <<phase, owner, cache, refresh, history>>

\* adapter.update_task: without an ETag the VTODO is read again, by its id and
\* for its version only; a deleted one is NotFound
RereadTask(r) ==
    LET q == req[r] IN
    /\ q.pc = "putting"
    /\ q.via = "snapshot"
    /\ IF status[q.task] = "ABSENT"
       THEN req' = [req EXCEPT ![r] = AfterFailedPut(q)] /\ UNCHANGED fresh
       ELSE /\ req' = [req EXCEPT ![r].via = "reread"]
            /\ fresh' = fresh \cup {r}
    /\ UNCHANGED <<status, phase, owner, cache, refresh, history>>

\* 412: the VTODO has changed since it was read
Conflict(r) ==
    /\ req[r].pc = "putting"
    /\ req[r].via # "snapshot"
    /\ r \notin fresh
    /\ req' = [req EXCEPT ![r] = AfterFailedPut(req[r])]
    /\ UNCHANGED <<status, phase, owner, fresh, cache, refresh, history>>

\* Mutant of Compensate: whatever failed, the interval is discarded
CompensateByDiscard(r) ==
    /\ req[r].pc = "compensating"
    /\ phase' = [phase EXCEPT ![req[r].seg] = "deleted"]
    /\ Return(r)
    /\ UNCHANGED <<status, owner, cache, refresh, history>>

\* discard_segment after a failed start, reopen_segment after a failed
\* switch_away or complete; NotFound is swallowed
Compensate(r) ==
    LET q == req[r] IN
    /\ q.pc = "compensating"
    /\ phase' = IF phase[q.seg] = "deleted" THEN phase
                ELSE [phase EXCEPT ![q.seg] = IF q.op = "start" THEN "deleted"
                                                                ELSE "open"]
    /\ Return(r)
    /\ UNCHANGED <<status, owner, cache, refresh, history>>

\* create_task: a new VTODO, or the deleted one an undo restores by its id
CreateTask(r) ==
    LET t == req[r].task IN
    /\ req[r].pc = "creating"
    /\ status' = IF status[t] = "ABSENT"
                 THEN [status EXCEPT ![t] = req[r].goal] ELSE status
    /\ Return(r)
    /\ UNCHANGED <<phase, owner, cache, refresh, history>>

\* adapter.delete_task by id, without an ETag; the open interval is not closed
DeleteTask(r) ==
    LET t == req[r].task IN
    /\ req[r].pc = "deleting"
    /\ IF status[t] = "ABSENT"
       THEN Return(r) /\ UNCHANGED status
       ELSE /\ status' = [status EXCEPT ![t] = "ABSENT"]
            /\ req' = [req EXCEPT ![r].pc = "forgetting"]
            /\ fresh' = ChangedETag(t)
    /\ UNCHANGED <<phase, owner, cache, refresh, history>>

(***************************************************************************)
(* Publishing the cached current-work fact.                                *)
(***************************************************************************)

\* clear_current reads the cached fact first; only a fact about this Task is
\* replaced.  Another device has a cache of its own.
Forget(r) ==
    /\ req[r].pc = "forgetting"
    /\ IF r \notin Remote /\ cache = req[r].task
       THEN req' = [req EXCEPT ![r].pc = "publishing"] /\ UNCHANGED fresh
       ELSE Return(r)
    /\ UNCHANGED <<status, phase, owner, cache, refresh, history>>

\* set_current writes the Task, mark_paused and clear_current write none
Publish(r) ==
    LET opened == req[r].op \in {"start", "resume"} IN
    /\ req[r].pc = "publishing"
    /\ cache' = IF r \in Remote THEN cache
                ELSE IF opened THEN req[r].task ELSE None
    /\ granted' = IF opened THEN granted \cup {req[r].seg} ELSE granted
    /\ Return(r)
    /\ UNCHANGED <<status, phase, owner, refresh, severed>>

\* Mutant of RefreshRead: a fact that is verified is not read again
RefreshReadOnce ==
    /\ ReadyLane
    /\ refresh = Unverified /\ cache = Unverified
    /\ CurrentTask(OpenSegments) # Ambiguous
    /\ refresh' = CurrentTask(OpenSegments)
    /\ UNCHANGED <<status, phase, owner, req, fresh, cache, history>>

\* refresh_cached_current_work under _ready_lock: read the open intervals...
RefreshRead ==
    /\ ReadyLane
    /\ refresh = Unverified
    /\ CurrentTask(OpenSegments) # Ambiguous
    /\ refresh' = CurrentTask(OpenSegments)
    /\ UNCHANGED <<status, phase, owner, req, fresh, cache, history>>

\* ...then write what was read
RefreshWrite ==
    /\ refresh # Unverified
    /\ cache' = refresh
    /\ refresh' = Unverified
    /\ UNCHANGED <<status, phase, owner, req, fresh, history>>

(***************************************************************************)
(* The environment.                                                        *)
(***************************************************************************)

\* Another CalDAV client edits or deletes a VTODO
ExternalEdit(t) ==
    /\ ExternalEdits
    /\ \E st \in (Status \cup {"ABSENT"}) \ {status[t]} :
            status' = [status EXCEPT ![t] = st]
    /\ fresh' = ChangedETag(t)
    /\ UNCHANGED <<phase, owner, req, cache, refresh, history>>

\* The interval a call has opened and not yet answered for
Opened(q) == IF q.op \in {"start", "resume"} THEN {q.seg} \ {None} ELSE {}

\* A server call of r fails without effect; a failed compensation is swallowed
Refuse(r) ==
    /\ "refuse" \in Faults
    /\ \/ /\ req[r].pc \in {"checking", "reading", "history", "opening",
                            "closing", "creating", "deleting", "compensating"}
          /\ Return(r)
          /\ severed' = severed \cup Opened(req[r])
       \/ /\ req[r].pc = "putting"
          /\ req' = [req EXCEPT ![r] = AfterFailedPut(req[r])]
          /\ fresh' = fresh \ {r}
          /\ UNCHANGED severed
    /\ UNCHANGED <<status, phase, owner, cache, refresh, granted>>

\* A server write of r takes effect and r sees a failure: a VEVENT write has
\* no compensation of its own, a Task write has
LoseReply(r) ==
    LET q == req[r] IN
    /\ "lost" \in Faults
    /\ \/ /\ q.pc = "opening"
          /\ \E s \in Segment :
                /\ phase[s] = "unused"
                /\ phase' = [phase EXCEPT ![s] = "open"]
                /\ owner' = [owner EXCEPT ![s] = q.task]
                /\ severed' = severed \cup {s}
          /\ Return(r)
          /\ UNCHANGED status
       \/ /\ q.pc = "closing" /\ phase[q.seg] # "deleted"
          /\ phase' = [phase EXCEPT ![q.seg] = "closed"]
          /\ Return(r)
          /\ UNCHANGED <<status, owner, severed>>
       \/ /\ q.pc = "putting" /\ r \in fresh
          /\ status' = [status EXCEPT ![q.task] = q.goal]
          /\ req' = [req EXCEPT ![r] = AfterFailedPut(q)]
          /\ fresh' = ChangedETag(q.task)
          /\ UNCHANGED <<phase, owner, severed>>
       \/ /\ q.pc = "deleting" /\ status[q.task] # "ABSENT"
          /\ status' = [status EXCEPT ![q.task] = "ABSENT"]
          /\ req' = [req EXCEPT ![r] = IdleRequest]
          /\ fresh' = ChangedETag(q.task) \ {r}
          /\ UNCHANGED <<phase, owner, severed>>
    /\ UNCHANGED <<cache, refresh, granted>>

\* The daemon dies with its requests and starts a new generation, for which
\* the fact cached in SQLite is not verified
Crash ==
    /\ "crash" \in Faults
    /\ req' = [r \in Request |-> IF r \in Remote THEN req[r] ELSE IdleRequest]
    /\ fresh' = fresh \cap Remote
    /\ cache' = Unverified
    /\ refresh' = Unverified
    /\ severed' = severed \cup UNION {Opened(req[r]) : r \in Request \ Remote}
    /\ UNCHANGED <<status, phase, owner, granted>>

(***************************************************************************)
(* The specification.                                                      *)
(***************************************************************************)
Init ==
    /\ status \in [Task -> {"ABSENT", "NEEDS-ACTION", "IN-PROCESS"}]
    /\ phase = [s \in Segment |-> "unused"]
    /\ owner = [s \in Segment |-> None]
    /\ req = [r \in Request |-> IdleRequest]
    /\ fresh = {}
    /\ cache = Unverified
    /\ refresh = Unverified
    /\ granted = {} /\ severed = {}

\* The steps of a request that nobody but the daemon and the server takes
Serve(r) ==
    \/ CheckNotCurrent(r) \/ ReadTask(r) \/ ReadOpen(r) \/ Decide(r)
    \/ ReadHistory(r) \/ OpenSegment(r) \/ CloseSegment(r) \/ PutTask(r)
    \/ RereadTask(r) \/ Conflict(r) \/ Compensate(r)
    \/ CreateTask(r) \/ DeleteTask(r) \/ Forget(r) \/ Publish(r)

Next ==
    \/ \E r \in Request, o \in AllOperations, t \in Task, g \in Status :
            Begin(r, o, t, g)
    \/ \E r \in Request : Serve(r) \/ ReadSnapshot(r) \/ Confirm(r) \/ Refuse(r)
                          \/ LoseReply(r)
    \/ RefreshRead \/ RefreshWrite
    \/ \E t \in Task : ExternalEdit(t)
    \/ Crash

Spec == Init /\ [][Next]_vars

\* A thread that serves a request is not abandoned, a server call returns or
\* fails in bounded time, and the maintenance loop keeps running the ready lane
Fairness ==
    /\ \A r \in Request : WF_vars(Serve(r))
    /\ WF_vars(RefreshRead) /\ WF_vars(RefreshWrite)

FairSpec == Spec /\ Fairness

(***************************************************************************)
(* Properties.                                                             *)
(***************************************************************************)
Quiet == \A r \in Request : req[r].pc = "idle"

\* A Task write overwrites exactly the VTODO version its precondition was checked
\* on: nothing another client did in between is lost, a completed or cancelled
\* Task is never made IN-PROCESS again by a late start, and switch_away releases
\* only a Task that is still IN-PROCESS (conditional_write: a stale snapshot is
\* never upgraded into write authorization).  The exception is a Task that was
\* read from the snapshot while the server did not answer: the write overwrites
\* the version the adapter reads then, and start never takes this way
\* (tasks/service.py:317-323, tasks/work_service.py:162-168).
TaskWrite(r) == req[r].pc = "putting" /\ req'[r] # req[r] /\ status' # status

WritesAreAuthorized ==
    [][\A r \in Request :
        LET q == req[r] IN
        TaskWrite(r)
            => \/ q.via = "reread" /\ q.op # "start"
               \/ /\ status[q.task] = q.saw
                  /\ q.op = "start" => status[q.task] \notin Terminal
                  /\ q.op = "switch_away" => status[q.task] = "IN-PROCESS"]_vars

\* What the comment of conditional_write.py says, "concurrent changes cannot
\* bypass Task/Event lifecycle validation" (lines 19-20): whatever another client
\* has made of the Task meanwhile, switch_away takes back only work in process
\* and leaves a Task that is finished as it is.
ValidationIsNotBypassed ==
    [][\A r \in Request :
        TaskWrite(r) /\ req[r].op = "switch_away"
            => status[req[r].task] = "IN-PROCESS"]_vars

\* Every interval in the Work collection was opened by a start or resume that
\* was answered "ok", is still being served, or was cut short: its reply was
\* lost, its daemon died, or its compensation failed.  No conflict, however
\* requests and other clients interleave, leaves behind work that nobody began.
OpenerInFlight(s) ==
    \E r \in Request :
        /\ req[r].op \in {"start", "resume"} /\ req[r].seg = s
        /\ req[r].pc \in {"putting", "compensating", "publishing"}

IntervalsAreAccounted ==
    \A s \in Segment :
        phase[s] \in {"open", "closed"}
            => s \in granted \cup severed \/ OpenerInFlight(s)

\* Work that was answered "ok" is never thrown away: the compensation of a
\* failed start discards only the interval that this start itself opened,
\* whatever was lost, refused or restarted in between.
GrantedWorkIsKept == \A s \in granted : phase[s] \in {"open", "closed"}

\* At most one interval is open: current_task_id never has to give up with
\* AmbiguousError.  Promised for one client that makes one call at a time.
AtMostOneOpen ==
    \A s1, s2 \in OpenSegments : s1 = s2

\* Between calls the open interval belongs to a Task that is IN-PROCESS: the two
\* halves of a start, a switch or a completion agree once the call is over.
WorkIsInProcess ==
    Quiet => \A s \in OpenSegments : status[owner[s]] = "IN-PROCESS"

\* When the calls stop, the fact shown to the foreground becomes the actual
\* current work and stays it, whatever stale fact a refresh that overlapped a
\* call had published.
CacheHeals ==
    <>[]Quiet => <>[](AtMostOneOpen => cache = CurrentTask(OpenSegments))

\* Every call is answered, except while the user is asked for a confirmation.
RequestsReturn ==
    \A r \in Request :
        req[r].pc \notin {"idle", "confirming"}
            ~> req[r].pc \in {"idle", "confirming"}

(***************************************************************************)
(* What one client relies on (module WorkPromise): the Task worked on is   *)
(* the owner of the open interval; a finished Task is terminal or deleted. *)
(***************************************************************************)
Promise == INSTANCE WorkPromise WITH
    active <- CurrentTask(OpenSegments),
    finished <- {t \in Task : status[t] \in Terminal \cup {"ABSENT"}}

PromiseSpec == Promise!Spec
=============================================================================
