---------------------------- MODULE UndoPromise ----------------------------
(***************************************************************************)
(* What undo promises a person who makes one call at a time: each undo     *)
(* takes back the last change that has not been taken back, and puts the   *)
(* object in the state it had before that change.  Nothing is promised     *)
(* from the moment on at which something else interferes: another call at  *)
(* the same time, another CalDAV client, a failure.                        *)
(***************************************************************************)
EXTENDS Naturals, Sequences

CONSTANTS Object, State

VARIABLES
    value,      \* the state of each object
    stack,      \* the changes that can be taken back, the last one last
    disturbed   \* something has interfered

vars == <<value, stack, disturbed>>

Init == value \in [Object -> State] /\ stack = <<>> /\ disturbed \in BOOLEAN

Change(o, s) ==
    /\ value' = [value EXCEPT ![o] = s]
    /\ stack' = Append(stack, [object |-> o, was |-> value[o]])
    /\ UNCHANGED disturbed

Undo ==
    /\ stack # <<>>
    /\ LET last == stack[Len(stack)] IN
           value' = [value EXCEPT ![last.object] = last.was]
    /\ stack' = SubSeq(stack, 1, Len(stack) - 1)
    /\ UNCHANGED disturbed

Next == Undo \/ disturbed' \/ \E o \in Object, s \in State : Change(o, s)

Spec == Init /\ [][Next]_vars
=============================================================================
