------------------------------ MODULE MCOutbox ------------------------------
(* Outbox with small sets: model values for the deliverers.                *)
EXTENDS Outbox, TLC
=============================================================================
