----------------------------- MODULE WorkPromise -----------------------------
(***************************************************************************)
(* What the lifecycle promises a person who uses one client: they work on  *)
(* at most one Task at a time, pass from one Task to another only through  *)
(* working on none, never work on a finished Task, and a Task is not       *)
(* finished (completed, cancelled or removed) while they work on it.       *)
(***************************************************************************)
CONSTANTS Task, None

VARIABLES
    active,     \* the Task worked on, or None
    finished    \* the Tasks that are completed, cancelled or gone

TypeOK == active \in Task \cup {None} /\ finished \subseteq Task

Init == active = None /\ finished \subseteq Task

Work(t) ==
    /\ active = None /\ t \notin finished
    /\ active' = t
    /\ UNCHANGED finished

Rest ==
    /\ active # None
    /\ active' = None
    /\ UNCHANGED finished

Finish(t) ==
    /\ active # t
    /\ finished' = finished \cup {t}
    /\ UNCHANGED active

\* A removed Task is restored
Restore(t) ==
    /\ finished' = finished \ {t}
    /\ UNCHANGED active

Next == Rest \/ \E t \in Task : Work(t) \/ Finish(t) \/ Restore(t)

Spec == Init /\ [][Next]_<<active, finished>>
=============================================================================
