----------------------------- MODULE Reminders -----------------------------
(***************************************************************************)
(* Reminders and their delivery.  ReminderService keeps the explicit       *)
(* reminders and the keys of the delivered ones in two rows of SQLite and  *)
(* locks nothing: a request of an IPC thread loads a row, changes its copy *)
(* and saves it in another transaction, while the reminder lane of the     *)
(* background service sends what is due and saves its own copy of the      *)
(* delivered keys.  A work period is a reminder that carries a task:       *)
(* WorkPeriodService allocates it to the task being worked on, and the     *)
(* task service removes it after it has stopped the task.                  *)
(*                                                                         *)
(* Left out: dates without a time (never sent), titles and bodies,         *)
(* reminders with a key of their own, and requests that SQLite fails: a    *)
(* request fails only when its reminder is gone.                           *)
(***************************************************************************)
EXTENDS Integers

CONSTANTS
    Ids,            \* ids an explicit reminder can get
    FactKeys,       \* notifications the Tasks and Events of the snapshot may ask for
    Tasks,          \* tasks one can work on
    Requests,       \* threads that serve an API request
    None,           \* no task, no time
    MaxTime,        \* the clock stops here
    MaxLateness,    \* a due reminder older than this is not sent any more
    MaxSnoozes,     \* bound on snoozes
    MaxSetbacks     \* bound on failed cycles and restarts of the service

ASSUME BoundsAreNatural ==
    {MaxTime, MaxLateness, MaxSnoozes, MaxSetbacks} \subseteq Nat

ASSUME NamesAreApart ==
    /\ \A k \in FactKeys : k.id \notin Ids /\ k.when \in 0 .. MaxTime
    /\ None \notin Ids \cup Tasks

VARIABLES
    items,      \* stored: the explicit reminders
    delivered,  \* stored: the keys not to send again
    clock,
    working,    \* the task being worked on, or None
    unused,     \* ids no reminder has had
    lane,       \* where the reminder lane is in process_due
    marks,      \* the lane's own copy of the delivered keys
    moment,     \* the lane's reading of the clock
    todo,       \* the requests the lane has still to deliver
    sending,    \* the request that was sent and is not yet marked
    pc,         \* where each API request is
    op,         \* and what it does
    task,       \* the task whose work periods it removes
    arg,        \* the reminder it will save
    target,     \* the id it resolves
    queue,      \* ids of the work periods it has still to remove
    copy,       \* its copy of the reminders
    keys,       \* its copy of the delivered keys
    settled,    \* history: how often each key was sent, or dropped as too old
    snoozes, faults, crashes

stored  == <<items, delivered>>
laneVars == <<lane, marks, moment, todo, sending>>
reqVars == <<pc, op, task, arg, target, queue, copy, keys>>
counts  == <<snoozes, faults, crashes>>
vars    == <<stored, clock, working, unused, laneVars, reqVars, settled, counts>>

Times == 0 .. MaxTime
Item  == [id : Ids, when : Times, task : Tasks \cup {None}]

\* A notification is known by its source and its time: a reminder that is
\* snoozed, or a task whose due time moves, has another key.
Key == [id : Ids, when : Times] \cup FactKeys

KeyOf(x) == [id |-> x.id, when |-> x.when]

Due(now, facts) ==
    {k \in {KeyOf(x) : x \in items} \cup facts : k.when <= now}

Stale(k, now) == now - k.when > MaxLateness

-----------------------------------------------------------------------------
(* The reminder lane: one cycle is process_due().                          *)

BeginCycle ==
    /\ lane = "idle"
    /\ lane' = "evaluate"
    /\ marks' = delivered
    /\ UNCHANGED <<stored, clock, working, unused, moment, todo, sending, reqVars, settled, counts>>

\* A sync may have changed the snapshot at any time: its Tasks and Events
\* ask for any of their notifications.
Evaluate(facts) ==
    /\ lane = "evaluate"
    /\ lane' = "filter"
    /\ moment' = clock
    /\ todo' = Due(clock, facts)
    /\ UNCHANGED <<stored, clock, working, unused, marks, sending, reqVars, settled, counts>>

\* The mutant of the lane that saves every key before it sends anything.
FilterAndMark ==
    /\ lane = "filter"
    /\ lane' = "deliver"
    /\ todo' = todo \ delivered
    /\ delivered' = delivered \cup todo
    /\ UNCHANGED <<items, clock, working, unused, marks, moment, sending, reqVars, settled, counts>>

\* The delivered keys are read again: what was read before the evaluation
\* is used only to write.
Filter ==
    /\ lane = "filter"
    /\ lane' = "deliver"
    /\ todo' = todo \ delivered
    /\ UNCHANGED <<stored, clock, working, unused, marks, moment, sending, reqVars, settled, counts>>

First(k) ==
    /\ lane = "deliver"
    /\ k \in todo
    /\ \A other \in todo : k.when <= other.when

ConsumeStale(k) ==
    /\ First(k)
    /\ Stale(k, moment)
    /\ todo' = todo \ {k}
    /\ marks' = marks \cup {k}
    /\ delivered' = marks \cup {k}
    /\ settled' = [settled EXCEPT ![k] = @ + 1]
    /\ UNCHANGED <<items, clock, working, unused, lane, moment, sending, reqVars, counts>>

\* With notifications off, send() returns without the adapter and the lane
\* goes on as if the notification had been shown.
Send(k) ==
    /\ First(k)
    /\ ~Stale(k, moment)
    /\ lane' = "mark"
    /\ todo' = todo \ {k}
    /\ sending' = k
    /\ settled' = [settled EXCEPT ![k] = @ + 1]
    /\ UNCHANGED <<stored, clock, working, unused, marks, moment, reqVars, counts>>

\* The mutant that keeps the mark to itself.
MarkInMemory ==
    /\ lane = "mark"
    /\ lane' = "deliver"
    /\ marks' = marks \cup {sending}
    /\ UNCHANGED <<stored, clock, working, unused, moment, todo, sending, reqVars, settled, counts>>

Mark ==
    /\ lane = "mark"
    /\ lane' = "deliver"
    /\ marks' = marks \cup {sending}
    /\ delivered' = marks \cup {sending}
    /\ UNCHANGED <<items, clock, working, unused, moment, todo, sending, reqVars, settled, counts>>

LaneIsIdle ==
    /\ lane' = "idle"
    /\ marks' = {}
    /\ moment' = 0
    /\ todo' = {}
    /\ sending' = None

EndCycle ==
    /\ lane = "deliver"
    /\ todo = {}
    /\ LaneIsIdle
    /\ UNCHANGED <<stored, clock, working, unused, reqVars, settled, counts>>

\* The mutant whose lane does not survive an exception.
CycleFailsForGood ==
    /\ faults + crashes < MaxSetbacks
    /\ lane # "idle"
    /\ faults' = faults + 1
    /\ lane' = "dead"
    /\ UNCHANGED <<stored, clock, working, unused, marks, moment, todo, sending, reqVars, settled, snoozes, crashes>>

\* A read, the adapter or a save raises: the service records the error and
\* the rest of the cycle is dropped.
CycleFails ==
    /\ faults + crashes < MaxSetbacks
    /\ lane # "idle"
    /\ faults' = faults + 1
    /\ LaneIsIdle
    /\ UNCHANGED <<stored, clock, working, unused, reqVars, settled, snoozes, crashes>>

LaneStep ==
    \/ BeginCycle
    \/ \E facts \in SUBSET FactKeys : Evaluate(facts)
    \/ Filter
    \/ \E k \in Key : ConsumeStale(k) \/ Send(k)
    \/ Mark
    \/ EndCycle

-----------------------------------------------------------------------------
(* The requests.                                                           *)

\* Request r becomes an operation o on reminder i and the work periods of t.
Begin(r, o, i, t, x, first) ==
    /\ pc[r] = "idle"
    /\ pc' = [pc EXCEPT ![r] = first]
    /\ op' = [op EXCEPT ![r] = o]
    /\ target' = [target EXCEPT ![r] = i]
    /\ task' = [task EXCEPT ![r] = t]
    /\ arg' = [arg EXCEPT ![r] = x]
    /\ UNCHANGED <<stored, clock, laneVars, queue, copy, keys, settled, faults, crashes>>

Finish(r) ==
    /\ pc' = [pc EXCEPT ![r] = "idle"]
    /\ op' = [op EXCEPT ![r] = "none"]
    /\ target' = [target EXCEPT ![r] = None]
    /\ task' = [task EXCEPT ![r] = None]
    /\ arg' = [arg EXCEPT ![r] = None]
    /\ queue' = [queue EXCEPT ![r] = {}]
    /\ copy' = [copy EXCEPT ![r] = {}]
    /\ keys' = [keys EXCEPT ![r] = {}]

Create(r, i, w) ==
    /\ i \in unused
    /\ unused' = unused \ {i}
    /\ Begin(r, "create", None, None, [id |-> i, when |-> w, task |-> None], "load")
    /\ UNCHANGED <<working, snoozes>>

Snooze(r, i, w) ==
    /\ snoozes < MaxSnoozes
    /\ snoozes' = snoozes + 1
    /\ i \notin unused
    /\ Begin(r, "snooze", i, None, [id |-> i, when |-> w, task |-> None], "resolve")
    /\ UNCHANGED <<working, unused>>

Cancel(r, i) ==
    /\ i \notin unused
    /\ Begin(r, "cancel", i, None, None, "resolve")
    /\ UNCHANGED <<working, unused, snoozes>>

\* A work period can only be given to the task being worked on; the answer
\* to that question is not asked for again.
Allocate(r, i, t, w) ==
    /\ working = t
    /\ i \in unused
    /\ unused' = unused \ {i}
    /\ Begin(r, "allocate", None, t, [id |-> i, when |-> w, task |-> t], "list")
    /\ UNCHANGED <<working, snoozes>>

\* Pause, switch, complete, cancel and delete: the task stops first, then
\* its work periods are removed.
Stop(r, t) ==
    /\ working = t
    /\ working' = None
    /\ Begin(r, "stop", None, t, None, "list")
    /\ UNCHANGED <<unused, snoozes>>

\* Steps of a request leave these alone.
Private == <<clock, working, unused, laneVars, settled, counts>>

\* The mutant that lists only the work periods still to come.
ListScheduled(r) ==
    /\ pc[r] = "list"
    /\ pc' = [pc EXCEPT ![r] = "next"]
    /\ queue' = [queue EXCEPT ![r] = {x.id : x \in {y \in items : y.task = task[r] /\ y.when > clock}}]
    /\ UNCHANGED <<stored, Private, op, task, arg, target, copy, keys>>

List(r) ==
    /\ pc[r] = "list"
    /\ pc' = [pc EXCEPT ![r] = "next"]
    /\ queue' = [queue EXCEPT ![r] = {x.id : x \in {y \in items : y.task = task[r]}}]
    /\ UNCHANGED <<stored, Private, op, task, arg, target, copy, keys>>

NextPeriod(r, i) ==
    /\ pc[r] = "next"
    /\ i \in queue[r]
    /\ pc' = [pc EXCEPT ![r] = "resolve"]
    /\ queue' = [queue EXCEPT ![r] = @ \ {i}]
    /\ target' = [target EXCEPT ![r] = i]
    /\ UNCHANGED <<stored, Private, op, task, arg, copy, keys>>

PeriodsRemoved(r) ==
    /\ pc[r] = "next"
    /\ queue[r] = {}
    /\ UNCHANGED <<stored, Private>>
    /\ \/ /\ op[r] = "stop"
          /\ Finish(r)
       \/ /\ op[r] = "allocate"
          /\ pc' = [pc EXCEPT ![r] = "load"]
          /\ UNCHANGED <<op, task, arg, target, queue, copy, keys>>

\* The reminder as it is now, with the new time, is what a snooze will save.
Resolve(r) ==
    /\ pc[r] = "resolve"
    /\ \E x \in items :
          /\ x.id = target[r]
          /\ arg' = IF op[r] = "snooze"
                       THEN [arg EXCEPT ![r] = [x EXCEPT !.when = arg[r].when]]
                       ELSE arg
    /\ pc' = [pc EXCEPT ![r] = "load"]
    /\ UNCHANGED <<stored, Private, op, task, target, queue, copy, keys>>

\* NotFoundError: the request ends, also one that had more to remove.
NotFound(r) ==
    /\ pc[r] = "resolve"
    /\ \A x \in items : x.id # target[r]
    /\ Finish(r)
    /\ UNCHANGED <<stored, Private>>

Load(r) ==
    /\ pc[r] = "load"
    /\ pc' = [pc EXCEPT ![r] = "save"]
    /\ copy' = [copy EXCEPT ![r] = items]
    /\ UNCHANGED <<stored, Private, op, task, arg, target, queue, keys>>

SaveNew(r) ==
    /\ pc[r] = "save"
    /\ target[r] = None
    /\ items' = copy[r] \cup {arg[r]}
    /\ Finish(r)
    /\ UNCHANGED <<delivered, Private>>

SaveSnoozed(r) ==
    /\ pc[r] = "save"
    /\ op[r] = "snooze"
    /\ items' = {IF x.id = target[r] THEN arg[r] ELSE x : x \in copy[r]}
    /\ pc' = [pc EXCEPT ![r] = "keys"]
    /\ copy' = [copy EXCEPT ![r] = {}]
    /\ UNCHANGED <<delivered, Private, op, task, arg, target, queue, keys>>

SaveRemoved(r) ==
    /\ pc[r] = "save"
    /\ target[r] # None
    /\ op[r] # "snooze"
    /\ items' = {x \in copy[r] : x.id # target[r]}
    /\ UNCHANGED <<delivered, Private>>
    /\ \/ /\ op[r] = "cancel"
          /\ Finish(r)
       \/ /\ op[r] \in {"stop", "allocate"}
          /\ pc' = [pc EXCEPT ![r] = "next"]
          /\ target' = [target EXCEPT ![r] = None]
          /\ copy' = [copy EXCEPT ![r] = {}]
          /\ UNCHANGED <<op, task, arg, queue, keys>>

\* A snoozed reminder is to be sent again: its keys are taken out.
ReadKeys(r) ==
    /\ pc[r] = "keys"
    /\ UNCHANGED <<stored, Private>>
    /\ \/ /\ \E k \in delivered : k.id = target[r]
          /\ pc' = [pc EXCEPT ![r] = "retain"]
          /\ keys' = [keys EXCEPT ![r] = delivered]
          /\ UNCHANGED <<op, task, arg, target, queue, copy>>
       \/ /\ \A k \in delivered : k.id # target[r]
          /\ Finish(r)

SaveKeys(r) ==
    /\ pc[r] = "retain"
    /\ delivered' = {k \in keys[r] : k.id # target[r]}
    /\ Finish(r)
    /\ UNCHANGED <<items, Private>>

RequestStep(r) ==
    \/ List(r)
    \/ \E i \in Ids : NextPeriod(r, i)
    \/ PeriodsRemoved(r)
    \/ Resolve(r)
    \/ NotFound(r)
    \/ Load(r)
    \/ SaveNew(r)
    \/ SaveSnoozed(r)
    \/ SaveRemoved(r)
    \/ ReadKeys(r)
    \/ SaveKeys(r)

NewRequest(r) ==
    \/ \E i \in Ids, w \in Times : Create(r, i, w)
    \/ \E i \in Ids, w \in Times : Snooze(r, i, w)
    \/ \E i \in Ids : Cancel(r, i)
    \/ \E i \in Ids, t \in Tasks, w \in Times : Allocate(r, i, t, w)
    \/ \E t \in Tasks : Stop(r, t)

-----------------------------------------------------------------------------
(* What happens around the service.                                        *)

Tick ==
    /\ clock < MaxTime
    /\ clock' = clock + 1
    /\ UNCHANGED <<stored, working, unused, laneVars, reqVars, settled, counts>>

StartWork(t) ==
    /\ working = None
    /\ working' = t
    /\ UNCHANGED <<stored, clock, unused, laneVars, reqVars, settled, counts>>

\* What is stored, here or on the server, survives.
Crash ==
    /\ faults + crashes < MaxSetbacks
    /\ crashes' = crashes + 1
    /\ LaneIsIdle
    /\ pc' = [r \in Requests |-> "idle"]
    /\ op' = [r \in Requests |-> "none"]
    /\ target' = [r \in Requests |-> None]
    /\ task' = [r \in Requests |-> None]
    /\ arg' = [r \in Requests |-> None]
    /\ queue' = [r \in Requests |-> {}]
    /\ copy' = [r \in Requests |-> {}]
    /\ keys' = [r \in Requests |-> {}]
    /\ UNCHANGED <<stored, clock, working, unused, settled, snoozes, faults>>

Init ==
    /\ items = {} /\ delivered = {}
    /\ clock = 0
    /\ working = None
    /\ unused = Ids
    /\ lane = "idle" /\ marks = {} /\ moment = 0 /\ todo = {} /\ sending = None
    /\ pc = [r \in Requests |-> "idle"]
    /\ op = [r \in Requests |-> "none"]
    /\ task = [r \in Requests |-> None]
    /\ arg = [r \in Requests |-> None]
    /\ target = [r \in Requests |-> None]
    /\ queue = [r \in Requests |-> {}]
    /\ copy = [r \in Requests |-> {}]
    /\ keys = [r \in Requests |-> {}]
    /\ settled = [k \in Key |-> 0]
    /\ snoozes = 0 /\ faults = 0 /\ crashes = 0

Next ==
    \/ LaneStep
    \/ CycleFails
    \/ \E r \in Requests : NewRequest(r) \/ RequestStep(r)
    \/ Tick
    \/ \E t \in Tasks : StartWork(t)
    \/ Crash

Spec == Init /\ [][Next]_vars

\* The maintenance loop starts the lane again and again, and a started cycle
\* goes on.
FairSpec == Spec /\ WF_vars(LaneStep)

-----------------------------------------------------------------------------
(* Properties.                                                             *)

TypeOK ==
    /\ items \subseteq Item
    /\ delivered \subseteq Key
    /\ clock \in Times
    /\ working \in Tasks \cup {None}
    /\ unused \subseteq Ids
    /\ lane \in {"idle", "evaluate", "filter", "deliver", "mark"}
    /\ marks \subseteq Key /\ todo \subseteq Key
    /\ moment \in Times
    /\ sending \in Key \cup {None}
    /\ lane = "mark" => sending \in Key
    /\ pc \in [Requests -> {"idle", "list", "next", "resolve", "load", "save", "keys", "retain"}]
    /\ op \in [Requests -> {"none", "create", "snooze", "cancel", "allocate", "stop"}]
    /\ task \in [Requests -> Tasks \cup {None}]
    /\ arg \in [Requests -> Item \cup {None}]
    /\ target \in [Requests -> Ids \cup {None}]
    /\ queue \in [Requests -> SUBSET Ids]
    /\ copy \in [Requests -> SUBSET Item]
    /\ keys \in [Requests -> SUBSET Key]
    /\ settled \in [Key -> Nat]
    /\ snoozes \in 0 .. MaxSnoozes
    /\ faults \in 0 .. MaxSetbacks
    /\ crashes \in 0 .. MaxSetbacks

\* No reminder is swallowed: a key is stored as delivered only when the
\* notification was handed over, muted by the setting or too old to show,
\* whatever crashed, failed or wrote back an older copy of the keys
\* (ReminderService.process_due marks after send).
MarkedIsSettled == \A k \in delivered : settled[k] > 0

\* A notification is shown again only for a reason: every repetition is paid
\* for by a crash or a failure between send and save, or by a snooze, which
\* takes keys out and may write back a copy the lane has since added to.
RepeatsAreExcused ==
    \A k \in Key : settled[k] <= 1 + crashes + faults + snoozes

\* A work period belongs to the task being worked on: when a task stops, the
\* request that stopped it removes its timers (WorkPeriodAwareTaskService).
\* A crash in between leaves them, for good.
TimersAreForCurrentWork ==
    crashes = 0 =>
        \A x \in items : x.task # None =>
            \/ working = x.task
            \/ \E r \in Requests : op[r] = "stop" /\ task[r] = x.task

\* Key k stands for a reminder that is due and not marked.
Waiting(k) ==
    /\ k.when <= clock
    /\ k \notin delivered
    /\ \E x \in items : KeyOf(x) = k

\* Whatever reminder is due is dealt with, or cancelled or moved: a failing cycle, a
\* failing notification or a restart delays it and does not lose it.
DueIsSettled == \A k \in Key : Waiting(k) ~> ~Waiting(k)
=============================================================================
