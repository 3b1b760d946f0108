----------------------------- MODULE MCReminders ----------------------------
(* Reminders with small sets: one reminder, and one Task of the snapshot   *)
(* that is due at the start.                                               *)
EXTENDS Reminders, TLC

CONSTANT f      \* the Task of the snapshot

MCFactKeys == {[id |-> f, when |-> 0]}
=============================================================================
