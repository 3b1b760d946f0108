----------------------------- MODULE MCAddonWork -----------------------------
(***************************************************************************)
(* Instances of AddonWork for TLC.                                         *)
(***************************************************************************)
EXTENDS AddonWork

St(status, percent) == [status |-> status, percent |-> percent]

\* A Task begins with partial progress and no status
Beginnings == {St("", 50)}

\* Edits that finish a Task, take its progress back under a status, or leave
\* full progress on one that is not finished
Edited == {St("COMPLETED", 100), St("CANCELLED", 50), St("NEEDS-ACTION", 0),
           St("IN-PROCESS", 100)}

=============================================================================
