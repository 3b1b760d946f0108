--------------------------- MODULE MCUndoJournal ---------------------------
(* The instance of UndoJournal for TLC.                                    *)
EXTENDS UndoJournal
=============================================================================
