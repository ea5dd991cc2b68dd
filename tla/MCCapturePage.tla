---------------------------- MODULE MCCapturePage ----------------------------
(***************************************************************************)
(* CapturePage for TLC: one capture of one draft, two operations.          *)
(***************************************************************************)
EXTENDS CapturePage, TLC
=============================================================================
