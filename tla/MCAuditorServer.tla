-------------------------- MODULE MCAuditorServer --------------------------
(***************************************************************************)
(* AuditorServer for TLC: its instance needs no definition of its own.     *)
(***************************************************************************)
EXTENDS AuditorServer
=============================================================================
