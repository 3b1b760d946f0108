# Verification of the CalDAV assistant

TLA+ models of the assistant's core, their TLC runs, and TLAPS proofs. The
program is a Python daemon that keeps Tasks, Events and work intervals on a
CalDAV server, a verified snapshot of them in SQLite, and clients (command line,
web) that call it over a local socket. Beside it stands an add-on for the mail
program Thunderbird with its own Task actions and its own WordPress diary, which
shares only the servers with the daemon.

Paths below are relative to `src/caldav_assistant/internal/` unless they begin
with `src/`; `add-on/` stands for
`src/caldav_assistant_thunderbird/addon/`.

## 1. The system

### 1.1 Components

| component | state it keeps | operations | what is hard | what makes it correct |
|---|---|---|---|---|
| Task lifecycle: `tasks/service.py`, `tasks/work_service.py`, `tasks/work_period_task_service.py` | none of its own: VTODOs and work VEVENTs on the server | create, update, delete, start, pause, switch away, resume, complete, cancel | each call reads twice, writes a VEVENT, then a VTODO under If-Match, and compensates when the second write fails; nothing orders two calls | one Task is worked on at a time; no foreign change is overwritten; no answered work is thrown away; the VEVENT and the VTODO agree afterwards |
| Work log: `worklog/service.py` | one VEVENT per interval | open, close, reopen, discard, read | writes go by event id and not by version | every interval was begun by somebody |
| Session: `session/caldav.py`, `session/ready_caldav.py` | the verified current-work fact of a daemon generation (SQLite) | refresh, publish, clear | the refresh reads, then writes what it read; a restart invalidates it | what the foreground shows becomes right once calls stop |
| Conditional write: `caldav/conditional_write.py` | none | one PUT under the ETag that was read, or `update_task`, which reads the object again for its version | an object read from the snapshot has no ETag | a write overwrites the version its precondition was checked on |
| Fallback reads: `caldav/offline_fallback.py` | a count | `get_task`, `get_event` and queries answered by the snapshot while the server does not answer | a Task of any age, marked stale, in the hands of callers that decide on it | only a call that asks whether the Task is live is protected |
| Synchronization: `caldav/sync.py`, `caldav/sync_token.py`, `caldav/ready_sync.py` | snapshot, tokens and status: three SQLite rows; a lock | full refresh, incremental sync | tokens, scan and delta are read at different times; three transactions; servers without tokens; roles that change | no change falls between snapshot and tokens; the snapshot ends up right |
| Write-through: `caldav/optimized_cache.py`, `caldav/experimental_cache.py` | the same snapshot | patch after every mutation | the patch waits for a sync that read the old object | an answered write stays visible |
| Collection routing: `caldav/routing.py` | a cache of collections | which collection a call goes to | roles change between two reads | nothing from an unconfigured collection |
| Reminders: `reminders/service.py`, `reminders/engine.py` | explicit reminders and delivered keys: two SQLite rows, no lock | create, snooze, cancel, process_due | the lane and the requests each load, change and save whole rows | nothing swallowed; a repetition has a cause; what is due is dealt with |
| Work periods: `work_period.py`, `tasks/work_period_task_service.py` | reminders that carry a Task | allocate, cancel, clean-up when the Task stops | the check of the current Task and the save are far apart | no timer for stopped work |
| WordPress Outbox: `wordpress/service.py`, `storage/outbox.py` | a table of undelivered items | log, queue_log, create_post, update_post, attach_file, flush | a request and the flush deliver at the same time; lost answers | nothing dropped; retries do not repeat a line |
| WordPress transports: `wordpress/transports.py`, `wordpress/rest_transport.py` | none | find or create the day's post, append, upload | read and write-back without a precondition | what was written stays written |
| Background service: `runtime/service.py`, `runtime/observable_service.py` | errors, deadlines, event feed | four maintenance lanes, the request dispatch | a failing lane must not stop the others; a slow one must not run twice | every lane runs again |
| IPC and client: `runtime/client.py`, `runtime/ipc.py`, `runtime/ipc_platform.py`, `runtime/dispatcher.py` | endpoint, singleton lock, stop event | call, launch, probe, start, stop, restart, serve, close | a request repeated after a lost connection; bounded waits; processes that compete for the lock and the path; code replaced under a running daemon | one daemon serves and can be reached; a repeat has a lost connection behind it; old code is not served twice; every call returns |
| Undo: `undo/service.py`, `storage/sqlite.py`, `tasks/service.py`, `events/service.py` | the journal (SQLite), a flag of the process | create, update, delete, remember, undo_last | the flag belongs to the process and not to a thread; latest, apply and discard are three steps; a failure after the inverse mutation | an undo takes back one change, and is no change itself; an entry leaves only when it was applied |
| Extensions and commands: `extensions/manager.py`, `commands/registry.py` | records, enabled map (a setting), command table, hooks | discover, load, enable, disable, reload, unload, add, start | ownership by comparing the table before and after; scripts that fail half-way; a map that is read, changed and written whole | a word means one command; an unloaded extension leaves nothing; a preference is what was asked for |
| Add-on, work: `add-on/core/executor.js`, `add-on/core/action-plan.js`, `add-on/background.js`, `add-on/content/native-start.js` | a pointer to the current Task; the session in the text of the Task | Start, Stop, Complete, Cancel, reconciliation | two writes one after the other, each read back; events that arrive between two awaits; a selection that moves | pointer and session agree; a write is based on what was read; the Task that is started is the one clicked |
| Add-on, diary: `add-on/core/wordpress.js`, `add-on/core/daily-log.js`, `add-on/core/storage.js` | Outbox rows in local storage | submit, queue a session, flush | pages and background flush at once; a post is read and written back whole; files uploaded before the post is written | an entry is on one post, once; what left the Outbox is on a post |
| Agenda and next action: `agenda/engine.py`, `agenda/next_engine.py` | none | rank, choose | - | a total order, no Task missed |

`PROJECT.json` lists these and every other part of the repository (settings,
fallback reads and scoped lookups, follow-up rules, prompts, localization,
presentation, discovery, the web client, the public API, the mail program's
native host, scripts), each with the reason when it is not modelled: text and
layout, interactive input, operating-system calls, relays without state.

### 1.2 How they interact

* A client's call arrives on a thread of the daemon and runs the task service,
  which calls the CalDAV adapter (server), the work log (server), the session
  facade (SQLite) and, on the way out, the work-period clean-up (SQLite). Calls
  of two clients share no lock.
* The adapter the services see answers a read from the snapshot when the server
  does not (`bootstrap.py:294`), on top of the write-through: after the server has
  accepted a mutation, the thread takes the synchronization lock and patches the
  snapshot. The work log reads the server only.
* The maintenance loop (`runtime/service.py:176-253`) starts each of four lanes
  on a thread of its own when it is due and never two of the same lane
  (`runtime/service.py:106-109`): the ready state (reads the open intervals and
  publishes the current work), the incremental sync, the reminder cycle, the
  Outbox flush. An exception is recorded and the lane is started again.
* Reminders are computed from the snapshot the sync stores. Work periods are
  reminders; the task service removes them after it has stopped a Task.
* A mutation of a Task or Event ends with an entry of the undo journal; an undo
  runs the same services with the journal suspended.
* The client of the command line starts the daemon when none answers, compares
  the daemon's code with its own, and repeats a call once.
* Extensions live in the process of the client that loads them. The map of the
  enabled ones is a setting that all processes share.
* The add-on writes Tasks through the mail program's calendar, which talks to the
  CalDAV server, and its diary through WordPress. To the daemon it is another
  CalDAV client and another author.
* Other devices run a daemon of their own on the same server, and other CalDAV
  clients edit the same objects. They share nothing but the server.

## 2. The modules

| module | models | extended by |
|---|---|---|
| `WorkLifecycle` | task lifecycle, work log, session fact, conditional write, `remove` of the command line | `MCWorkLifecycle`, `WorkLifecycleProofs` |
| `WorkPromise` | what one client may rely on, stated on the Task worked on and the finished Tasks alone | instantiated by `WorkLifecycle` |
| `SyncCache` | synchronization, write-through, collection roles | `MCSyncCache`, `SyncCacheProofs` |
| `Reminders` | reminder lane, reminder requests, work periods | `MCReminders`, `RemindersProofs` |
| `Outbox` | Outbox rows, immediate delivery, flush lane, the day's post on WordPress | `MCOutbox`, `OutboxProofs` |
| `UndoJournal` | changes of Tasks and Events, the undo journal and its suspension | `MCUndoJournal`, `UndoJournalProofs` |
| `UndoPromise` | what a lone client may rely on: a stack of changes | instantiated by `UndoJournal` |
| `Runtime` | daemon processes, lock and socket path; clients that launch, stop, check and call | `MCRuntime`, `RuntimeProofs` |
| `AddonWork` | the mail program's Task actions | `MCAddonWork`, `AddonProofs` |
| `AddonLog` | the mail program's diary on WordPress | `MCAddonLog`, `AddonProofs` |
| `Extensions` | command table, extension manager, enabled map | `MCExtensions`, `ExtensionsProofs` |
| `WorkLifecycleProofs`, `SyncCacheProofs`, `RemindersProofs`, `OutboxProofs`, `UndoJournalProofs`, `RuntimeProofs`, `ExtensionsProofs`, `AddonProofs` | theorems | |

A step is one call to a server, one SQLite transaction, or one read that a later
step depends on; threads interleave between steps. The `map` of `PROJECT.json`
names the lines of every definition. Operators whose comment begins with "Mutant
of" or "The mutant" are not part of a specification: they are variants of the
definition below them with a plausible mistake, used to see that a property
notices it.

### 2.1 WorkLifecycle

`status[t]` is the STATUS of a VTODO, `phase[s]` and `owner[s]` are the work
VEVENT `s`, `req[r]` is the thread that serves call `r` with everything it has
read, `fresh` the threads whose ETag is still the server's, `cache` the verified
fact, `refresh` what the ready lane has read and not written yet. `granted` and
`severed`, the intervals answered "ok" and those a fault cut short, are history.

A call begins (`Begin`), reads the Task and the open intervals (`ReadTask`,
`ReadOpen`: in parallel, except where the code reads one after the other; a Task
read that gets no answer fails or is answered by the snapshot, `ReadSnapshot`),
decides (`Decide` with the precondition table `Allowed` and the first write
`FirstCall`), reads the history for a resume (`ReadHistory`), writes the VEVENT
(`OpenSegment`, `CloseSegment`), writes the VTODO (`PutTask`, or `Conflict` on
412), compensates (`Compensate`) and publishes (`Forget`, `Publish`). `remove` is
its own three steps (`CheckNotCurrent`, `Confirm`, then a delete). Faults are a
refused call, a write whose reply is lost, a Task read answered by the snapshot,
and a daemon that dies.

What a call read and what its write is tied to are two things, and `via` says how
they are related. A Task from the server (`live`) carries its ETag, and
`update_task_from_snapshot` writes under it. A Task from the snapshot
(`snapshot`) has any STATUS a copy may have, and no raw data, URL or ETag: only
`start` refuses it (`tasks/work_service.py:162-168`), every other call decides on
it, and its write goes through `adapter.update_task`, which reads the VTODO again
for its version (`RereadTask`, `reread`) and writes under that one: another
client is noticed from there on, and not since the decision.

Abstractions: a Task read from a server that answers has its raw data, URL and
ETag (section 5); the copy in the snapshot has any STATUS; a validation error of `at=` is covered by
`Refuse`; the second read that `complete` makes of its own interval is part of
the reading step; times and texts are left out.

### 2.2 SyncCache

An object is known by the server revision of its last change; a token of a
collection is the revision at which it was issued. `snapshot`, `token` (with
`retryDue`) and `status` are the three SQLite rows; `pc` is the step of the sync
that holds the lock, and `todo`, `due`, `seen`, `marks`, `marked` are its locals;
`pending[w]` is a write the server has accepted and the thread has not patched
in. `answered` is history.

`StartSeed`, `Seed`, `SeedUnavailable`, `Scan` are the full sync,
`StartChanges`, `Report`, `Load`, `TokenRefused` the incremental one,
`StoreSnapshot`, `StoreTokens`, `Finish` the three transactions; `Fail` is any
call that raises, `Crash` the end of the process; `WriteServer` and `Patch` are
the two halves of a mutation.

Abstractions: a collection is seeded or reported in any order; the two readings
of the roles around the seeding are one; `Load` reads one object, and a multiget
is the case in which nothing happens between the loads; duplicate
UIDs are left out; reads of the snapshot change nothing and are no actions.

### 2.3 Reminders

`items` and `delivered` are the two rows. The lane's place and its copy of the
keys are `lane`, `marks`, `moment`, `todo`, `sending`; a request's are `pc`, `op`
and its arguments, `copy`, `keys`. `working` is the current Task. `settled`
counts, as history, how often a key was shown or dropped as too old.

One lane cycle is `BeginCycle`, `Evaluate`, `Filter`, then per request
`ConsumeStale` or `Send` and `Mark`, then `EndCycle`; `CycleFails` is any
exception in it. Requests are create, snooze, cancel, allocate and stop, each
with its loads and saves as steps of their own. What Tasks and Events ask for is
any subset of `FactKeys` at any evaluation, since a sync may have changed the
snapshot.

Abstractions: a muted notification counts as handed over, as in the code;
requests fail only with NotFound; dates without a time, titles and reminders
with a key of their own are left out.

### 2.4 Outbox

`outbox`, `accepted`, `kind` are the rows; `page` the posts that stand for the
day on WordPress, each with how often a line is in it; `pc`, `item`, `at`, `copy`
where a deliverer is, a request or the flush lane; `todo` what the flush has left.
`reached`, `raced`, `stale`, `edited` are history.

A diary line goes `Find`, `Read`, `WritePage` (or `CreatePage`), an attachment
has `Upload` in between, a post is one `Send`; then `Ack`. `Fail` is a call that
did not get through, an answer that was lost after its effect, or an
acknowledgement that was not stored: in each the item stays. `Edit` is the author
writing into the post.

Abstractions: one day; create_post and update_post are one kind of write; the
update of a medium's parent is part of its upload; both transports take the same
steps.

### 2.5 UndoJournal and UndoPromise

`server` is the state of each object, `journal` and `lastId` the table of entries
and its AUTOINCREMENT, `applying` the flag of the one `UndoManager`, `req[r]` the
thread of a request with what it has read. `applied`, `nested`, `crowded` and
`disturbed` are history.

A change is `Create`, `Update` or `Delete`, then `Read`, `Write` (an update is
conditional on the version read), `Remember`. `ReadSnapshot` is a read that the
snapshot answered: the entry will hold the fields of that copy, and the write is
not tied to them. An undo is `Latest`, `Suspend`, the same mutation
steps, `Leave` (the `finally`) and `Discard`. `Fail`, `LoseReply` and `Crash` may
come at any step, and `ForeignEdit` is another client.

The flag belongs to the process: while one request carries out an undo, a change
of another request reaches `Remember` and nothing is stored, in the model as in
`undo/service.py:30`. `JournalHoldsChanges` says when an answered change is in the
journal and names this exception; the answer says `undo_available` even then
(section 6).

`UndoPromise` is a stack: a change pushes the state it replaced, an undo pops it
and puts it back. The mapping shows an object as it was before the mutation that
is under way, until the mutation is remembered or its entry discarded; a run in
which two calls overlap, a foreign edit or a failure came is `disturbed` and
promises nothing.

Abstractions: the fields of an object are one value; Tasks and Events are one
kind; the UID of a new object has not been used before.

### 2.6 Runtime

Per process `at`, `build`, `listener`, `timer`; shared `lock`, `path`, `disk`;
per client `task` (its step and what it wants the daemon for), `own` (the code it
has loaded), `mine` (the process it launched), `conn`. `jobs` are the calls that
a daemon has accepted, `effects` counts as history how often each was carried out.

A daemon goes `Prepare` (lock, stale socket), `Bind`, serves, `TimerStep` (the
thread that acknowledged a shutdown), `Leave`, `Cleanup`, `Exit`. A client goes
`Check` (is a daemon there, with my code), `Ask` (stop it), `Vanish`, `AwaitExit`,
`Launch`, `AwaitReady`, `Identify`, `Send`, `Reply` or `Disconnect`, which may
repeat the call once; `GiveUp` is a deadline. `Signal`, `Crash`, `TimeOut` and
`Upgrade` (the source tree is replaced) are the environment.

Abstractions: the Unix socket only; the deadlines are longer than anything a
daemon does without waiting for others, and a slower one is a setback; a slot of
a process that is gone stands for a new process.

### 2.7 AddonWork

`tasks` is each Task on the server with the log of sessions in its text, `stale`
the Tasks the mail program has not refreshed, `pointer` the current Task in the
add-on's storage, `queue` and `job` the executor that runs one request at a time,
`pending` the flag that merges reconciliations.

`Take`, `Resolve`, `Read`, `Plan`, then `ReleaseTask`, or `Write`, `Verify`,
`Commit` and `HandOver`: a step ends where the code awaits. The person selects, clicks
and edits (`Select`, `Render`, `ClickStart`, `AskOnPage`, `EditNatively`), other
devices edit (`EditElsewhere`), the mail program refreshes. `Converted` is what
the calendar item does with a status and a progress that are assigned one after
the other.

Abstractions: the event of a change is handled at the moment of the change; a
Task that is missing is a read that fails; the text of the log is not edited.

### 2.8 AddonLog

`rows` is the Outbox, `posts` the posts with the day's title, `chosen` the one
selected, `media` the uploaded files, `lock` the write lock of the storage, `ctx`
what the background or a page is doing.

A submission or a row of a flush goes `Enter` (the lock), `TakeRow`, `ListPosts`,
`CreatePost`, `ReadPost`, `Upload`, `SaveUpload`, `WritePost`, `VerifyPost`,
`RemoveRow`. `CallFails`, `AnswerIsLost` and `Restart` may come at every step;
`CreateIsRepeated` and `UploadIsRepeated` are a creation and an upload whose answer
was lost and which the same request sends again by the second transport
(`add-on/core/wordpress.js:498-515`). `WriteElsewhere` is another program or the
author. WordPress numbers the files, whether their answers arrive or not.

Abstractions: one day; others only append lines or make posts; the background
runs one flush at a time.

### 2.9 Extensions

`entries` and `alias` are the command registry, `hooks` the hook registry,
`records` and `gen` the manager's, `prefs` the setting with the enabled map,
`disk` and `script` the sources; `job` is the operation that runs, with the map
it has read and the table it compares with.

`enable`, `disable` and `add` read the map (`ReadMap`) and write it whole
(`WriteMap`, `WriteFails`); then an enabled extension is loaded and a disabled one
torn down (`TearDown`). `load` looks for the source, clears what an earlier
attempt left and runs the script one registration at a time (`Load`, `Execute`,
`Loaded`, `LoadFails`); `reload` is a tear-down and a load.
`Teardown` is `_remove_owned_commands`: it takes away the words of the record and
puts back what they had replaced. `Start` and `Boot` are a new process.
`RegisterLater` is a loaded extension that registers a command while it runs,
`ChangeDisk` the person at the sources, `PreferElsewhere` another process.

Abstractions: two places, the user's and the one that is shipped, stand for the
list of source paths, and what is shipped is enabled by default; sources change
only between operations; a late registration overrides nothing; the delivery of
hooks to their handlers is left out.

## 3. What TLC checks

| run | instance | shows |
|---|---|---|
| `work_concurrent` | 1 Task, 2 intervals, 2 concurrent calls of two devices, lost replies, Tasks read from the snapshot, restarts, other clients edit and delete | `WritesAreAuthorized`: a lifecycle write overwrites exactly the version its precondition was checked on, unless the call read the snapshot, which a start never does. `IntervalsAreAccounted`: every interval was answered, is being served or was cut short by a fault. `GrantedWorkIsKept`: a compensation never deletes work that was answered ok |
| `work_offline` | 1 Task, 1 call, one read from the snapshot, other clients edit | a violation: `ValidationIsNotBypassed`, what the comment of `caldav/conditional_write.py` says, is false for a call that read the Task from the snapshot (section 6) |
| `work_promise` | 2 Tasks, 3 intervals, one call at a time, refusals and restarts | `PromiseSpec`: the lifecycle implements `WorkPromise` under a refinement mapping |
| `work_quiet` | 2 Tasks, 2 intervals, one call at a time, fairness | `WorkIsInProcess`: between calls the two halves agree; `CacheHeals`, `RequestsReturn` |
| `sync_cache` | 2 Tasks, an Event, 3 collections, a writer, other clients, 1 role change, 1 fault | `NoChangeIsLost`, `AnsweredWriteIsShown`, `Converges`, `TokensComeBack` |
| `reminders` | 1 reminder id, 1 Task that asks for a reminder, 1 request at a time, 1 snooze, 1 fault or restart | `MarkedIsSettled`, `RepeatsAreExcused`, `TimersAreForCurrentWork`, `DueIsSettled` |
| `outbox` | 1 request beside the flush lane, 2 items of any kind, 3 posts, 1 failure or restart, the author | `NothingIsDropped`, `LinesAreKept`, `DiaryLinesAreSingle`, `AllIsDelivered` |
| `undo` | 2 requests, 1 object, 2 entries, 1 foreign edit, 1 failure, lost answer, read from the snapshot or restart | `JournalHoldsChanges`: an update that read the server remembers exactly what it replaced; an answered change is in the journal unless the undo of another request was running; an undo stores nothing. `UndoneOnce`; `EntriesLeaveApplied`; `PromiseSpec`: a lone client gets the stack of `UndoPromise` |
| `runtime` | 2 clients, 2 calls or commands in all, 4 processes, 1 crash, signal, timeout, failed launch or new code | `OneDaemonIsReached`, `RepeatsFollowALoss`, `StaleCodeIsRefused`, `FailuresAreExcused`, `CallsReturn` |
| `addon_work` | 2 Tasks, 2 requests, 1 edit, 1 failure or restart | `PointerFollowsSession`, `WritesAreInformed`, `StartIsForTheClicked`, `FinishedWorkIsReleased` |
| `addon_log` | a session and an attachment, background and a page, 2 posts, 1 flush, 1 failure or restart, 1 foreign change | `OutboxIsTrue`, `EntriesAreSingle`, `EntriesAreKept`, `UploadsAreRemembered`, `SessionsAreDelivered` |
| `extensions` | a shipped and a user's extension with any of 4 scripts, 3 words, 3 operations or starts, 1 each of: a failed call, an edit on disk, a late registration, a change elsewhere | `WordsAreUnambiguous`, `TeardownIsComplete`, `PreferencesAreKept` |

The names above are the invariants and properties of the `.cfg` files. Where a
theorem states the types (section 4) no run repeats them.

### 3.1 Bounds, and why they are enough

* `work_concurrent`: one call of each kind (it opens an interval, closes one, or
  writes none), 2,280,423 states; with `resume` or `complete` as well it does not
  end in time, and they take the same steps. The theorems are for all of them.
* `Segment` with `SegmentsLeft`: an interval id is set aside for every call that
  may open one, so no call is blocked by the bound. Two concurrent calls open at
  most two; every property of intervals is about one interval and at most two
  calls. The promise needs one Task after another and back, hence three.
* `MaxRevision` = 2: a change before and one after any step of a sync is what the
  order of token, scan and store is about. An object with two authors is
  outside the run: see section 6.
* `MaxFaults`, `MaxSetbacks` = 1: a failure, a crash or a loss of the token
  support at any step; `outbox` was also explored with two. The theorems are for
  any number.
* `MaxRoleChanges` = 1: the Task collection is switched to another one or unset,
  at any step of a sync. With two changes a stored token can be for roles that
  were left and set again: see the hazards list.
* `MaxTime` = 1, `MaxLateness` = 0: a reminder may be not yet due, due, or too
  late to show. `MaxSnoozes` = 1: once is enough for a snooze to write back a copy
  of the keys the lane has since added to.
* `MaxPages` = 3: two deliverers that both find no post, and the author's.
* Symmetry is used only in runs without liveness properties, on Tasks, intervals
  or requests that no definition tells apart.
* `undo`: two entries are one to take back and one that comes in between; the
  promise needs a change and its undo twice. `runtime`: four processes are a
  daemon that leaves, one that takes its place and one that each client launches.
* `addon_work`: the states in which `Converted` matters are the beginning, which
  is progress without a status, and an edit, which is a status without progress;
  another edit leaves full progress on a Task that is not finished.
* `addon_log`: a second post is the least that makes the choice of a post matter;
  227,797 states.
* `extensions`: three operations are a load, a load over it and the tear-down of
  either. The four scripts hook and register, replace a protected command under
  its name, replace it under its other word and then fail, and take an alias.
  It was also explored with four and with five operations and fewer faults.
* `CHECK_DEADLOCK` is off in `Undo.cfg`, `Runtime.cfg`, `AddonWork.cfg`,
  `AddonLog.cfg` and `Extensions.cfg`, where the person's requests are bounded and
  nothing is left to do once they are used up. Everywhere else it is on.

### 3.2 Fairness

* `WF Serve(r)`: a thread that serves a call is not abandoned, and every server
  call returns or raises within the transport's timeout. The confirmation of
  `remove` is a person and has no fairness; neither has any fault or new call.
* `WF RefreshRead`, `WF RefreshWrite`, `WF BeginIncremental`, `WF SyncStep`, the
  `WF LaneStep` of `Reminders` and of `Outbox`: the maintenance loop catches
  every exception and starts each lane again when it is due.
* `SF Patch(w)`: a writer waits for the synchronization lock, which is free
  again and again while the lane sleeps for `sync_interval`. Weak fairness would
  not do, since the lock is taken in between; a writer that waits in a blocking
  acquire gets it while the lane sleeps.
* `WF RetryTimePasses`: the clock reaches `retry_at`.
* `WF DaemonStep(p)`, `WF Execute`, `WF Serve(c)` in `Runtime`: the operating
  system runs every process, and every wait of a client has a deadline.
* `WF Executor` in `AddonWork`: the executor is one chain of promises, and each
  await returns or throws.
* `WF Step(c)`, `SF Enter(c)` in `AddonLog`: the same, and the Web Lock is granted
  in the order in which it was requested, so that no context waits for ever.
  `WF BeginFlush` of the background only while a queued session or a start has
  asked for it (`flushDue`).
* Other clients, edits, settings and snoozes are never fair: the liveness
  properties hold when they stop, which the bounds or a premise (`<>[]Quiet`) say.

## 4. What is proved

TLC looks at one small instance; the theorems below hold for every value of the
constants that satisfies the named assumptions of the modules
(`ConstantsAssumption`, `SyncAssumption`, `BoundsAreNatural`, `NamesAreApart`,
`OutboxBounds`, `OutboxNames`, `NoneIsNoContent`, `AbsentIsNoValue`, `SomeObject`,
`ProcessesAreNumbered`, `LimitsAreNatural`, `NoneIsNoFailure`,
`ExtensionsAssumption`, `LogAssumption`, `ValuesAreApart`), which TLC
evaluates in the runs. Each follows the same scheme: an invariant that is stronger than the
property, true initially, kept by every action (one lemma per group of actions,
one case per action), and the property as its consequence.

| theorem | says | the invariant and why it is needed |
|---|---|---|
| `TypeCorrect` (`WorkLifecycleProofs`) | types | `Assigned`: a busy call names a Task, and a call past its VEVENT write names an interval. `TypeOK` alone does not say that what a step indexes with exists |
| `WritesAuthorized` | `WritesAreAuthorized`, for any requests, devices, faults and foreign edits: a call that read the Task from the server overwrites the version it read; one that read the snapshot overwrites what it reads then, and is no start | `Authorized`: a call in `fresh` that read the server has read the status that still stands, and what it decided on that status still follows; a start past its decision read the server. Any write to the VTODO takes every other reader out of `fresh` |
| `GrantedWorkKept` | `GrantedWorkIsKept`, whatever fails | `Seen`: what was read exists or existed; `OwnInterval`: an interval that was opened and not answered belongs to one call and is not yet granted. So the call that discards it discards nobody else's |
| `EveryIntervalAccounted` | `IntervalsAreAccounted`, whatever fails | the same, and that a call leaves an interval only by answering, by deleting it, or by a fault that `severed` notes: a lost reply, a dead daemon or a compensation that failed |
| `WorkKeepsPromise` | `PromiseSpec`: every step of the lifecycle is a step of `WorkPromise` or leaves its two variables alone | one request at a time, without lost replies, reads from the snapshot, edits of others, deletions and status updates (`LoneClient`); writes may be refused and the process may die between any two of them. Between the two writes of a call the intervals are ahead of the Tasks, and the abstract state is read off the call's place; the invariant says that what the call has read still stands, and that at rest an open interval, the Task in process and the last answer are one fact |
| `OneOpenForOneClient` | `AtMostOneOpen` for a lone client | the same |
| `WorkAgreesWithTask` | `WorkIsInProcess` for a lone client none of whose calls fails (`Faults = {}`) | the same. With a failure it is false until the next call, which is what the compensation is for |
| `SyncTypeCorrect` (`SyncCacheProofs`) | types | `Progress`: a sync that stores a snapshot has one to merge into or has read everything |
| `NothingIsLost` | `NoChangeIsLost` | `Covered`: for every served object, what the snapshot, the reading of this sync and a waiting patch say is right unless the object changed after the token it will be stored with. It assumes `OneAuthor` (an object is written by the daemon or by others), `KindsApart` (no collection serves the objects of two kinds), and at most one change of the roles. Without the first it is false (the late patch of section 6) |
| `AnsweredWritesShown` | `AnsweredWriteIsShown`, with at most one change of the roles | `Visible`: an answered write is in the snapshot, or in the reading of the sync that is going to replace it: a sync that began its reading before the answer holds the lock, and the patch had to wait for it |
| `RemindersTypeCorrect` (`RemindersProofs`) | types | a request that stores a reminder has one, and one that removes knows which |
| `NothingIsSwallowed` | `MarkedIsSettled`, for any number of requests | every key that is stored, or in a copy that may be stored, was settled |
| `RepeatsHaveCauses` | `RepeatsAreExcused`, one request at a time (`OneRequest`) | a key that the lane may still send has been settled fewer times than there are causes; a snooze still on its way keeps its cause to itself |
| `TimersStopWithWork` | `TimersAreForCurrentWork`, one request at a time | a timer of other work is one the stopping request is still going to remove: it is to be listed, queued, or the one at hand. With two requests it is false (section 6) |
| `OutboxTypeCorrect` (`OutboxProofs`) | types | where a deliverer is says what it holds |
| `NothingAcceptedIsDropped` | `NothingIsDropped` | `WritesAreReal`: a line on a page or in a copy, and an item about to be acknowledged, was written |
| `LinesStay`, `RetriesLeaveOneLine` | `LinesAreKept`, `DiaryLinesAreSingle` | `LinesInv`: as long as no page was written over and none was made beside another, there is one page, a copy that will be written is a part of it, and no line of a diary is in it twice |
| `WritesHaveCauses` | `RepeatsAreExcused` of `Outbox`, which no run checks on its own | `CountInv`: the writes of an item and the parties that may still write it (its request, this flush, a flush to come) are together at most its causes |
| `TypeCorrect` (`UndoJournalProofs`) | types; an id names one entry | `EntryInv`: `IdsOK`, the ids of entries were handed out; `JobsOK`, so was the one an undo holds, and an undo past its mutation has applied its entry |
| `AppliedBeforeTheyLeave` | `EntriesLeaveApplied`, whatever runs at the same time | the same. It needs that no id is given out twice: with ids reused, an undo would discard a newer change |
| `ChangesGetIn` | `JournalHoldsChanges` | `SuspendInv`: without nesting at most one undo is suspending, the flag is up exactly while it does, and the flag it found was down; `LiveInv`: a request whose version is current, and which read the server, has read what still stands there |
| `CarriedOutOnce` | `UndoneOnce` | `OnceInv`: a lone undo before its mutation holds an entry nobody has applied, and an applied entry is in the journal only until that undo discards it |
| `UndoKeepsPromise` | `PromiseSpec` of `UndoJournal`: every step is a step of `UndoPromise` or leaves its variables alone, for any objects, values and number of entries | `QuietInv`: until something interferes one request runs; what it read still stands on the server, the undo at work holds the newest entry, and `StaysDeleted`: an object whose deletion is in the journal is there again only through a later entry. Without the last part the undo of a deletion could write over a newer object and the stack would not say so. That the changes in the order of their ids grow and shrink at the end (`ChangesGrow`) needs no induction: the place of an entry is the number of entries up to it |
| `TypeCorrect` (`RuntimeProofs`) | types | inductive as it stands |
| `DaemonIsReached` | `OneDaemonIsReached`, for any number of processes and any crashes | `LockFollows`: a process holds the lock exactly from its preparation to its clean-up, and a thread that closes a listener belongs to a process that stops |
| `RepeatsNeedALoss` | `RepeatsFollowALoss` | `SentOnce`: effects and unfinished jobs of a call are together at most one until its connection is lost |
| `FailuresExcused` | `FailuresAreExcused`: a call finds no daemon only if its client was disturbed by a death or a wait that ended, is refused only if its code is no longer that on disk, and a stop fails only if another client has begun a call | `CalmInv`: while nothing dies and no wait ends, a daemon is asked to stop by one client only and while that client waits for it, so whoever answers a probe goes on answering, and the race for the lock is lost only to a daemon that will answer |
| `StaleCodeRefused` | `StaleCodeIsRefused`: a client that is not disturbed and stops or restarts no daemon sends at most one operation to other code | the same: the version a client compared is that of the daemon it then calls |
| `ExtensionsTypeCorrect` | types | `JobInv`: an operation that changes a record finds one, through any discovery in between |
| `WordsMeanOneCommand` | `WordsAreUnambiguous`, for any extensions and scripts | `WordInv`: the commands that an extension displaced share no word, since they stood in one table, nor do those of the table a load compares with. Without it, putting them back could make a word mean two commands |
| `PreferencesStay` | `PreferencesAreKept` | `PrefInv`: a map that was read enables nothing that was not asked for, nor do the records of a start, even when the read failed and gave an empty map |
| `TeardownComplete` | `TeardownIsComplete`, for any extensions, also after scripts that fail half-way | `BookInv`: as long as no extension has taken over the command of another, an owner is loaded, a record names what its script registered and nothing else, and what the core lost to an extension is in that extension's record. Extensions are not called `core` or `plain` |
| `OutboxInvariant` (`AddonProofs`) | types | and the parts below. `LockInv`: who has an entry's row at hand holds the lock; `HoldInv`: that row is still the one in the Outbox, but for a file just uploaded |
| `OutboxTellsTheTruth` | `OutboxIsTrue`, for any number of pages, flushes, failures and other writers | `SmoothInv`: when nothing went wrong there is one post, it has every entry that was written, and a written entry has a row only while its sender is about to remove it or is about to find it on the post |
| `EntriesAreWrittenOnce` | `EntriesAreSingle` | `PostInv`: no entry is on a post twice, and what is going to be written back holds every line of the add-on but not yet the entry; `OneInv`: without a choice they are all on the post at hand |
| `EntriesStayOnTheirPost` | `EntriesAreKept` | the same. The lines that came after the reading are lines of others, since the lock was held: without the lock an entry could be written over |
| `UploadsAreNotRepeated` | `UploadsAreRemembered` | `UploadInv`: an entry whose row remembers no file has been uploaded at most as often as an upload failed, was sent twice, or its note was lost |
| `WorkOfAddonInvariant`, `TypesOfAddonWork` (`AddonProofs`) | types of `AddonWork` | and the parts below. `TaskInv`: an open session is the last of its Task's log. `KnowsTask`: from its read to its write the executor's copy has the log of the Task, since no edit changes it, and is the Task itself unless an edit was noted |
| `AddonWritesAreInformed` | `WritesAreInformed`, for any Tasks, states and edits | `KnowsTask`, and that only an unfinished Task is planned on |
| `AddonStartsTheClicked` | `StartIsForTheClicked` | `KnowsTask`: the Task a start resolved is the one clicked |
| `PointerAndSessionAgree` | `PointerFollowsSession`, for any number of Tasks, edits, failures and restarts | `KnowsPlan` and `KnowsPointer`: after its write the executor's Task has the log it planned, and the pointer is still what the plan was made for. `TaskInv` has two parts for the states that cannot be stored: no session begins with full progress, and full progress on a Task that is worked on comes from an edit |

Only model-checked:

* liveness, which the prover does not do under fairness: `CacheHeals`,
  `RequestsReturn`, `Converges`, `TokensComeBack`, `DueIsSettled`,
  `AllIsDelivered`, `CallsReturn`, `FinishedWorkIsReleased`,
  `SessionsAreDelivered`.

No module uses a RECURSIVE operator, and no theorem needs an induction over data.

## 5. What is not modelled

Every component of `PROJECT.json` with the status `not_modelled` has its reason
there. Of the modelled ones:

* the branch of the lifecycle without a Work collection, and the fallback of the
  session to the Activity journal;
* the opt-in `EXPERIMENTAL_FAST_QUERY_CACHE` (`bootstrap.py:284-291`), off by
  default: reads are then answered by the snapshot although the server would
  answer, and not marked stale; and servers or adapters that give no ETag, whose
  Tasks take the way of `RereadTask` without a fault;
* times, titles, texts, time zones: the properties do not tell them apart;
* duplicate UIDs of two URLs, reminders with a key of their own, several days and
  several posts of the Outbox, requests of the reminders that SQLite fails;
* the event feed of the background service, the Windows pipe and the
  authentication key of its endpoint;
* the delivery of hooks, and extensions that replace commands while they run;
* in the add-on: creation and deletion of Tasks, recurrences, sessions across
  midnight.

Most of the repository's lines are outside: the conversion between iCalendar and
the models (`caldav/library_adapter.py`), the conversation and settings menus,
prompts and terminal output, discovery on the network, the native host of the
mail program, localized texts. They hold no state that outlives a call, or decide
nothing the properties tell apart, so a model of them would repeat their text.
The map therefore covers less than a third of the implementation: the parts that
keep state and run concurrently.

## 6. Where the code and its own statements differ

Found while modelling. The first has a run of its own, `work_offline`. Each of the
others needs an instance the runs above leave out on purpose, or is the exception a
property names.

| statement of the repository | what happens |
|---|---|
| `caldav/conditional_write.py:19-20`: concurrent changes cannot bypass lifecycle validation | The Task read of `switch_away`, `complete` or `cancel` gets no answer and the snapshot answers (`caldav/offline_fallback.py:88-98`); the call decides on that copy and writes through `adapter.update_task` (`tasks/service.py:317-323`), which is not tied to it: a Task that another client has completed meanwhile is put back |
| `tasks/service.py:213-217`, shown by `cli/semantics.py:203-205`: `undo_available` | The journal refuses the entry while the undo of another request runs (`undo/service.py:29-31`), `_remember` does not look at its answer, and the change is reported as one that can be taken back |
| `cli/semantics.py:289`: "No other Task may currently be active." | Two starts read no open work, both open an interval (`tasks/work_service.py:203`), both answer ok |
| `cli/crud.py:542`: "so no open work interval is orphaned" | `remove` checks before the confirmation and deletes after it (`cli/crud.py:570`); a start in between leaves an open interval of a deleted Task |
| `caldav/optimized_cache.py:5`: keeping the snapshot coherent after a mutation is safe | The patch (`caldav/optimized_cache.py:34`) replaces a newer object that a sync has stored meanwhile; the token is already past the change, so no delta repairs it |
| `bootstrap.py:280`: the background sync uses the same collection roles as interactive traffic | A Task in the Event collection enters the snapshot through a delta (`caldav/sync_token.py:290`) and leaves it at the next full scan |
| `tasks/work_period_task_service.py:3`: a pause removes any pending timer | An allocation that has asked for the current Task (`work_period.py:176`) stores its timer after the pause has cleaned up |
| `extensions/manager.py:476`: new user code is deliberately disabled until it is enabled | `add` of a source named like a shipped extension whose preference cannot be written leaves the user's copy enabled by default at the next start |

Behaviour of `Extensions` that no statement excludes, and that
`TeardownIsComplete` names as its exceptions: an extension whose command another
one replaced unregisters the newer command when it is unloaded, since it owns
names and not registrations (`extensions/manager.py:281`); a replaced command
whose word was taken while it was away is not put back (`extensions/manager.py:307`);
the record of a loaded extension is replaced when its only source is found in
another place; a failed read of the enabled map followed by a write forgets the
other preferences.

Behaviour of `AddonWork` that `PointerFollowsSession` names: the planned status
and progress cannot be stored as they are when a stop gives back a progress
between 1 and 99 without a status, nor when a Task is cancelled that another
client left at 100 % unfinished, since the item completes itself at full progress
(`api/ThunderbirdCalDAV/implementation.js:1228`). The read-back then differs, the
action fails after its write, and the pointer stays on a Task whose session is
closed. The proof of the invariant showed the second case; the instance that is
checked has the edit that leads to it.

## 7. Plan

Done: `WorkLifecycle`, `WorkPromise`, `SyncCache`, `Reminders`, `Outbox`,
`UndoJournal`, `UndoPromise`, `Runtime`, `AddonWork`, `AddonLog`, `Extensions`, in
this order, each with its run and its theorems.

Left, modules: `JournalSession`, the fallback of the session to the Activity
journal and the lifecycle without a Work collection; `NextAction`, the ranking of
the agenda as operators against a reference definition.
