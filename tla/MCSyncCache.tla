----------------------------- MODULE MCSyncCache -----------------------------
(***************************************************************************)
(* Instances of SyncCache for TLC: a Task collection, an Event collection  *)
(* and a second Task collection the user may switch to.                    *)
(***************************************************************************)
EXTENDS SyncCache, TLC

CONSTANTS t, u, e, x, home, other, calendar, w1

TheCollections == {home, other, calendar}
Both == [tasks |-> home, events |-> calendar]
Switched == [tasks |-> other, events |-> calendar]

\* t: a Task here; u: a Task of the other collection; e: an Event
TheKind == [o \in Object |-> IF o = e THEN "events" ELSE "tasks"]

\* x: a Task kept in the Event collection
TheHome == [o \in Object |-> IF o = t THEN home ELSE IF o = u THEN other ELSE calendar]

FixedRoles == {Both}
SwitchRoles == {Both, Switched}
OwnsEvents == [w \in Writer |-> {e}]
=============================================================================
