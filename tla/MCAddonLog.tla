----------------------------- MODULE MCAddonLog -----------------------------
(***************************************************************************)
(* Instances of AddonLog for TLC.                                          *)
(***************************************************************************)
EXTENDS AddonLog

CONSTANTS session, picture, background, page

=============================================================================
