--------------------------- MODULE MCWorkLifecycle ---------------------------
(***************************************************************************)
(* Instances of WorkLifecycle for TLC.                                     *)
(***************************************************************************)
EXTENDS WorkLifecycle, TLC

Symmetry == Permutations(Task) \cup Permutations(Segment)

\* The commands a person gives at one client
ClientOperations == AllOperations \ {"delete", "update"}

\* One call of each kind: it opens an interval, closes it, or writes no interval;
\* the others take the same steps
WriteOperations == {"start", "switch_away", "delete"}

=============================================================================
