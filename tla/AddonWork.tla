------------------------------ MODULE AddonWork ------------------------------
(***************************************************************************)
(* The mail program's add-on: Start beside the native Task list, Stop,     *)
(* Complete and Cancel, and the release of a current Task that was         *)
(* finished natively.  The add-on keeps one pointer to the current Task in *)
(* its own storage and the session of that work in the description of the  *)
(* Task.  The two are written one after the other, each is read back, and  *)
(* the actions run one at a time.  Beside them run the person (native      *)
(* edits, the selection, clicks), other devices, failures and restarts.    *)
(***************************************************************************)
EXTENDS Naturals, Sequences, FiniteSets

CONSTANTS Task,
          InitialTasks,   \* the states [status, percent] a Task may begin in
          EditedTo,       \* those an edit outside the add-on gives it
          MaxActions,     \* requests of the person
          MaxEdits,       \* edits outside the add-on
          MaxWorkFaults,  \* failed calls and restarts
          Nothing

VARIABLES tasks,      \* per Task: status, percent and log of sessions
          stale,      \* Tasks whose server copy is newer than the mail program's
          pointer,    \* caldavAssistant.currentWorkId
          selected,   \* the Task selected in the native list
          shown,      \* the selection the enabled Start button stands for
          queue,      \* requests that wait for the executor
          job,        \* the request the executor is at
          pending,    \* reconciliationPending
          outbox,     \* sessions handed to the Outbox: <<Task, position in its log>>
          \* history, read by the properties alone
          amiss,      \* why pointer and session of a Task may disagree
          missed,     \* an edit no reconciliation will see unless another comes
          workSpent   \* [actions, edits, faults] so far

taskVars == <<tasks, stale>>
uiVars   == <<selected, shown>>
history  == <<amiss, missed>>
workVars == <<tasks, stale, pointer, selected, shown, queue, job, pending, outbox,
              amiss, missed, workSpent>>

Statuses == {"", "NEEDS-ACTION", "IN-PROCESS", "COMPLETED", "CANCELLED"}
States   == [status : Statuses, percent : 0..100]
Ending   == {"stop", "complete", "cancel"}
Reasons  == {"fault", "edited", "converted", "finished"}
Steps    == {"resolve", "read", "plan", "release", "write", "verify", "commit",
             "queue"}

\* "event" is a reconciliation for a change of the calendar or the startup,
\* "visit" one for the Work page.
Reconciling == {"event", "visit"}
Requests == [action : {"start"} \cup Ending \cup Reconciling,
             clicked : Task \cup {Nothing}]

ASSUME AddonAssumption ==
    /\ InitialTasks \subseteq States /\ EditedTo \subseteq States
    /\ MaxActions \in Nat /\ MaxEdits \in Nat /\ MaxWorkFaults \in Nat
    /\ Nothing \notin Task \cup Ending

NoJob == [action |-> "none"]
Views == [status : Statuses, percent : 0..100,
          log : Seq([status : Statuses, percent : 0..100,
                     result : Ending \cup {Nothing}])]

TypeOK ==
    /\ tasks \in [Task -> Views] /\ stale \subseteq Task
    /\ pointer \in Task \cup {Nothing}
    /\ selected \in Task \cup {Nothing} /\ shown \in Task \cup {Nothing}
    /\ queue \in Seq(Requests)
    /\ job = NoJob \/ /\ job.action \in {"start"} \cup Ending \cup Reconciling
                      /\ job.at \in Steps /\ job.ref \in Task \cup {Nothing}
                      /\ job.seen \in Views \cup {Nothing}
                      /\ {job.raced, job.touched} \subseteq BOOLEAN
    /\ pending \in BOOLEAN /\ missed \in BOOLEAN
    /\ outbox \subseteq (Task \X Nat)
    /\ amiss \in [Task -> SUBSET Reasons]
    /\ workSpent \in [actions : 0..MaxActions, edits : 0..MaxEdits,
                  faults : 0..MaxWorkFaults]

WorkInit ==
    /\ \E s \in [Task -> InitialTasks] :
          tasks = [t \in Task |-> [status |-> s[t].status,
                                   percent |-> s[t].percent,
                                   log |-> <<>>]]
    /\ stale = {} /\ pointer = Nothing
    /\ selected = Nothing /\ shown = Nothing
    /\ queue = <<>> /\ job = NoJob /\ pending = FALSE
    /\ outbox = {}
    /\ amiss = [t \in Task |-> {}] /\ missed = FALSE
    /\ workSpent = [actions |-> 0, edits |-> 0, faults |-> 0]

-----------------------------------------------------------------------------
(* The pure core: what an action makes of the Task it has read.            *)

\* Mutant of Finished: only a completion counts.
FinishedCompleted(v) == v.status = "COMPLETED"
Finished(v) == v.status \in {"COMPLETED", "CANCELLED"}

OpenSessions(v) == {i \in DOMAIN v.log : v.log[i].result = Nothing}

\* Mutant of Permits: a second Task may be started.
PermitsSecond(action, v, ref) ==
    /\ ~ Finished(v)
    /\ IF action = "start"
       THEN OpenSessions(v) = {} /\ v.percent < 100 ELSE OpenSessions(v) # {}

Permits(action, v, ref) ==
    /\ ~ Finished(v)
    /\ IF action = "start"
       THEN pointer = Nothing /\ OpenSessions(v) = {} /\ v.percent < 100
       ELSE pointer = ref /\ OpenSessions(v) # {}

\* The planned Task: a start remembers the state before it, a stop restores
\* it, and an ending closes the session in place.
Expected(action, v) ==
    IF action = "start"
    THEN [v EXCEPT !.status = "IN-PROCESS",
                   !.log = Append(@, [status |-> v.status,
                                      percent |-> v.percent, result |-> Nothing])]
    ELSE LET i == CHOOSE n \in OpenSessions(v) : TRUE
         IN  [v EXCEPT
                !.status = CASE action = "stop"     -> v.log[i].status
                             [] action = "complete" -> "COMPLETED"
                             [] action = "cancel"   -> "CANCELLED",
                !.percent = CASE action = "stop"     -> v.log[i].percent
                              [] action = "complete" -> 100
                              [] action = "cancel"   -> v.percent,
                !.log[i].result = action]

\* What the mail program's item holds after the status and then the progress
\* have been assigned: full progress completes it, and a partial one gives it
\* a status when it has none.
Converted(v) ==
    [v EXCEPT !.status = CASE v.percent = 100 -> "COMPLETED"
                           [] v.percent \in 1..99 /\ @ = "" -> "IN-PROCESS"
                           [] OTHER -> @]

-----------------------------------------------------------------------------
(* Changes of the calendar, and the reconciliation they ask for.           *)

\* An event asks for a reconciliation unless one is asked for already, even
\* when that one has read the Task before the change.
PastItsRead == job # NoJob /\ job.action = "event" /\ job.at \in {"plan", "release"}
Event ==
    IF pending
    THEN /\ missed' = (missed \/ PastItsRead)
         /\ UNCHANGED <<queue, pending>>
    ELSE /\ pending' = TRUE /\ missed' = FALSE
         /\ queue' = Append(queue, [action |-> "event", clicked |-> Nothing])
NoEvent == UNCHANGED <<queue, pending, missed>>

\* An edit reaches a running action after its read, or after its write.
Touched(t) ==
    IF job = NoJob \/ job.ref # t THEN job
    ELSE [job EXCEPT !.raced = @ \/ job.at \in {"plan", "write"},
                     !.touched = @ \/ job.at = "verify"]

Edits(t) ==
    \E s \in EditedTo :
        /\ s # [status |-> tasks[t].status, percent |-> tasks[t].percent]
        /\ tasks' = [tasks EXCEPT ![t].status = s.status,
                                  ![t].percent = s.percent]

CountEdit ==
    /\ workSpent.edits < MaxEdits
    /\ workSpent' = [workSpent EXCEPT !.edits = @ + 1]

\* The person edits the Task in the mail program.
EditNatively(t) ==
    /\ CountEdit /\ t \notin stale
    /\ Edits(t)
    /\ job' = Touched(t)
    /\ Event
    /\ UNCHANGED <<stale, pointer, uiVars, outbox, amiss>>

\* Another device edits it; the mail program has not looked yet.
EditElsewhere(t) ==
    /\ CountEdit
    /\ Edits(t)
    /\ stale' = stale \cup {t}
    /\ job' = IF job = NoJob \/ job.ref # t THEN job
              ELSE [job EXCEPT !.touched = @ \/ job.at = "verify"]
    /\ UNCHANGED <<pointer, uiVars, queue, pending, outbox, history>>

\* The mail program's own refresh.
Refresh(t) ==
    /\ t \in stale
    /\ stale' = stale \ {t}
    /\ job' = IF job # NoJob /\ job.ref = t /\ job.at \in {"plan", "write"}
              THEN [job EXCEPT !.raced = TRUE] ELSE job
    /\ Event
    /\ UNCHANGED <<tasks, pointer, uiVars, outbox, amiss, workSpent>>

-----------------------------------------------------------------------------
(* The person: selection, the Start button, the Work page.                 *)

Select(s) ==
    /\ s # selected /\ selected' = s
    /\ UNCHANGED <<taskVars, pointer, shown, queue, job, pending, outbox,
                   history, workSpent>>

\* The button is drawn for the selection visible at that moment, if nothing
\* is worked on; a later selection does not change it until it is drawn again.
Render ==
    /\ shown' = IF pointer = Nothing THEN selected ELSE Nothing
    /\ shown' # shown
    /\ UNCHANGED <<taskVars, pointer, selected, queue, job, pending, outbox,
                   history, workSpent>>

Ask(action, clicked) ==
    /\ workSpent.actions < MaxActions
    /\ workSpent' = [workSpent EXCEPT !.actions = @ + 1]
    /\ queue' = Append(queue, [action |-> action, clicked |-> clicked])

ClickStart ==
    /\ shown # Nothing
    /\ Ask("start", shown)
    /\ shown' = Nothing
    /\ UNCHANGED <<taskVars, pointer, selected, job, pending, outbox, history>>

\* Stop, Complete or Cancel on the Work page, or the page is opened.
AskOnPage ==
    /\ \E a \in Ending \cup {"visit"} : Ask(a, Nothing)
    /\ UNCHANGED <<taskVars, pointer, uiVars, job, pending, outbox, history>>

-----------------------------------------------------------------------------
(* The executor.  A step ends at each call that is awaited.                *)

JobAt(step) == job # NoJob /\ job.at = step
GoOn(step) == job' = [job EXCEPT !.at = step]

\* The request is over, however it went; the next one may begin.
Done ==
    /\ job' = NoJob
    /\ pending' = IF job.action = "event" THEN FALSE ELSE pending

Take ==
    /\ job = NoJob /\ queue # <<>>
    /\ queue' = Tail(queue)
    /\ job' = [action |-> Head(queue).action, clicked |-> Head(queue).clicked,
               at |-> "resolve", ref |-> Nothing, seen |-> Nothing,
               raced |-> FALSE, touched |-> FALSE]
    /\ UNCHANGED <<taskVars, pointer, uiVars, pending, outbox, history, workSpent>>

\* Mutant of Target: the selection of this moment, whatever was clicked.
TargetSelected == IF job.action = "start" THEN selected ELSE pointer

\* A start is for the Task that was clicked, if it still is the one selected;
\* everything else is for the current Task.
Target ==
    IF job.action = "start"
    THEN (IF selected = job.clicked THEN selected ELSE Nothing)
    ELSE pointer

Resolve ==
    /\ JobAt("resolve")
    /\ IF Target = Nothing
       THEN Done
       ELSE /\ job' = [job EXCEPT !.ref = Target, !.at = "read"]
            /\ UNCHANGED pending
    /\ UNCHANGED <<taskVars, pointer, uiVars, queue, outbox, history, workSpent>>

\* The authoritative read; what it brings in is a change of the calendar.
Read ==
    /\ JobAt("read")
    /\ job' = [job EXCEPT !.seen = tasks[job.ref], !.at = "plan"]
    /\ stale' = stale \ {job.ref}
    /\ IF job.ref \in stale THEN Event ELSE NoEvent
    /\ UNCHANGED <<tasks, pointer, uiVars, outbox, amiss, workSpent>>

\* A finished current Task only releases the pointer, and the selection is
\* looked at once more before a start is written.
Plan ==
    /\ JobAt("plan")
    /\ \/ /\ job.action # "start" /\ Finished(job.seen)
          /\ GoOn("release") /\ UNCHANGED pending
       \/ /\ job.action \in Ending \cup {"start"}
          /\ Permits(job.action, job.seen, job.ref)
          /\ job.action = "start" => selected = job.ref
          /\ GoOn("write") /\ UNCHANGED pending
       \/ /\ job.action = "start" \/ ~ Finished(job.seen)
          /\ \/ job.action \in Reconciling
             \/ ~ Permits(job.action, job.seen, job.ref)
             \/ job.action = "start" /\ selected # job.ref
          /\ Done
    /\ UNCHANGED <<taskVars, pointer, uiVars, queue, outbox, history, workSpent>>

\* The session of a Task finished outside the add-on stays open in its text.
ReleaseTask ==
    /\ JobAt("release")
    /\ pointer' = Nothing
    /\ amiss' = IF OpenSessions(tasks[job.ref]) = {} THEN amiss
                ELSE [amiss EXCEPT ![job.ref] = @ \cup {"finished"}]
    /\ Done
    /\ UNCHANGED <<taskVars, uiVars, queue, outbox, missed, workSpent>>

\* Mutant of Write: the version is not checked.
WriteBlind ==
    /\ JobAt("write")
    /\ tasks' = [tasks EXCEPT ![job.ref] =
                    Converted(Expected(job.action, job.seen))]
    /\ GoOn("verify")
    /\ Event
    /\ UNCHANGED <<stale, pointer, uiVars, outbox, amiss, workSpent>>

\* The whole planned state replaces the Task's, under the version the mail
\* program holds: an edit of another device is refused, a native one is not
\* seen.
Write ==
    /\ JobAt("write") /\ job.ref \notin stale
    /\ tasks' = [tasks EXCEPT ![job.ref] =
                    Converted(Expected(job.action, job.seen))]
    /\ GoOn("verify")
    /\ Event
    /\ UNCHANGED <<stale, pointer, uiVars, outbox, amiss, workSpent>>

Refused ==
    /\ JobAt("write") /\ job.ref \in stale
    /\ Done
    /\ UNCHANGED <<taskVars, pointer, uiVars, queue, outbox, history, workSpent>>

Verified == tasks[job.ref] = Expected(job.action, job.seen)

\* The read-back, and its comparison with the plan.  A mismatch fails the
\* action and undoes nothing.
Verify ==
    /\ JobAt("verify")
    /\ IF Verified
       THEN GoOn("commit") /\ UNCHANGED amiss
       ELSE /\ job' = NoJob
            /\ amiss' = [amiss EXCEPT ![job.ref] =
                            @ \cup {IF job.touched THEN "edited" ELSE "converted"}]
    /\ stale' = stale \ {job.ref}
    /\ IF job.ref \in stale THEN Event ELSE NoEvent
    /\ UNCHANGED <<tasks, pointer, uiVars, outbox, workSpent>>

\* The second write; a start is over then.
Commit ==
    /\ JobAt("commit")
    /\ pointer' = IF job.action = "start" THEN job.ref ELSE Nothing
    /\ IF job.action = "start" THEN Done ELSE GoOn("queue") /\ UNCHANGED pending
    /\ UNCHANGED <<taskVars, uiVars, queue, outbox, history, workSpent>>

\* The last session of this Task that ended the same way is handed over.
HandOver ==
    /\ JobAt("queue")
    /\ LET log == Expected(job.action, job.seen).log
           ended == {i \in DOMAIN log : log[i].result = job.action}
       IN  outbox' = outbox \cup
               {<<job.ref, CHOOSE i \in ended : \A k \in ended : k <= i>>}
    /\ Done
    /\ UNCHANGED <<taskVars, pointer, uiVars, queue, history, workSpent>>

-----------------------------------------------------------------------------
(* What fails.                                                             *)

WorkFault ==
    /\ workSpent.faults < MaxWorkFaults
    /\ workSpent' = [workSpent EXCEPT !.faults = @ + 1]

\* After the Task is written and before the pointer is, they disagree.
Between == job # NoJob /\ job.at \in {"verify", "commit"}
LeaveBetween ==
    amiss' = IF Between THEN [amiss EXCEPT ![job.ref] = @ \cup {"fault"}] ELSE amiss

\* The server does not answer a read, the storage refuses a write, or the
\* write of the Task fails before it takes effect.
StepFails ==
    /\ WorkFault
    /\ job # NoJob /\ job.at \in Steps \ {"resolve", "plan"}
    /\ Done
    /\ LeaveBetween
    /\ missed' = (missed \/ job.action = "event")
    /\ UNCHANGED <<taskVars, pointer, uiVars, queue, outbox>>

\* The Task is written and the call fails all the same.
WriteIsLost ==
    /\ WorkFault
    /\ JobAt("write") /\ job.ref \notin stale
    /\ tasks' = [tasks EXCEPT ![job.ref] =
                    Converted(Expected(job.action, job.seen))]
    /\ amiss' = [amiss EXCEPT ![job.ref] = @ \cup {"fault"}]
    /\ job' = NoJob
    /\ Event
    /\ UNCHANGED <<stale, pointer, uiVars, outbox>>

\* The mail program is restarted: what waits is forgotten, the storage is
\* kept, and the startup asks for a reconciliation.
RestartMail ==
    /\ WorkFault
    /\ job' = NoJob
    /\ queue' = <<[action |-> "event", clicked |-> Nothing]>>
    /\ pending' = TRUE
    /\ LeaveBetween /\ missed' = FALSE
    /\ shown' = Nothing
    /\ UNCHANGED <<taskVars, pointer, selected, outbox>>

-----------------------------------------------------------------------------
Executor ==
    \/ Take \/ Resolve \/ Read \/ Plan \/ ReleaseTask \/ Write \/ Refused
    \/ Verify \/ Commit \/ HandOver

WorkNext ==
    \/ Executor
    \/ \E t \in Task : EditNatively(t) \/ EditElsewhere(t) \/ Refresh(t)
    \/ \E s \in Task \cup {Nothing} : Select(s)
    \/ Render \/ ClickStart \/ AskOnPage
    \/ StepFails \/ WriteIsLost \/ RestartMail

WorkSpec == WorkInit /\ [][WorkNext]_workVars
FairWorkSpec == WorkSpec /\ WF_workVars(Executor)

-----------------------------------------------------------------------------
(* Properties.                                                             *)

Ended == {"COMPLETED", "CANCELLED"}

\* An edit has left full progress on a Task and not completed it.
FullIsEdited ==
    /\ workSpent.edits > 0
    /\ \E s \in EditedTo : s.percent = 100 /\ s.status \notin Ended

\* Outside the gap between the two writes, the current Task is the one with
\* an open session and no other Task has one - unless, for that Task, the
\* read-back or the second write failed, somebody edited it between the write
\* and the read-back, its state could not be restored, or it was finished
\* outside the add-on (executor.js, between updateTask and setCurrentWorkId).
\* And a state that nobody disturbed could not be stored in two cases alone: a
\* stop that gives back partial progress without a status, and the cancellation
\* of a Task that was edited to full progress and not completed
\* (applyTaskChanges in the calendar interface against planWorkAction).
PointerFollowsSession ==
    \A t \in Task :
        /\ amiss[t] = {} =>
               \/ Between /\ job.ref = t
               \/ (pointer = t) <=> (OpenSessions(tasks[t]) # {})
        /\ "converted" \in amiss[t] =>
               \E i \in DOMAIN tasks[t].log :
                   \/ /\ tasks[t].log[i].result = "stop"
                      /\ tasks[t].log[i].status = "" /\ tasks[t].log[i].percent > 0
                   \/ tasks[t].log[i].result = "cancel" /\ FullIsEdited

\* An action writes a Task that was not finished, exactly as it read it; what
\* it overwrites unseen is at most an edit made in this mail program after
\* its read (executor.js: planWorkAction, updateTask).
WritesAreInformed ==
    [][\A t \in Task :
          job # NoJob /\ job.at = "write" /\ tasks'[t] # tasks[t]
             /\ workSpent'.edits = workSpent.edits
          => /\ job.ref = t /\ job.seen.status \notin Ended
             /\ tasks[t] = job.seen \/ job.raced]_workVars

\* Start begins the Task the person clicked it for, although the selection
\* may move before, during and after the click (executor.js, sameSelection).
StartIsForTheClicked ==
    [][pointer' # pointer /\ pointer' # Nothing => pointer' = job.clicked]_workVars

\* A current Task that is seen finished in this mail program stops being
\* current, unless the event of that change came while an earlier
\* reconciliation had already read the Task, or one failed
\* (background.js, requestFinishedReconciliation).
FinishedWorkIsReleased ==
    \A t \in Task :
        (pointer = t /\ tasks[t].status \in Ended /\ t \notin stale)
        ~> (pointer # t \/ tasks[t].status \notin Ended \/ t \in stale \/ missed)

=============================================================================
