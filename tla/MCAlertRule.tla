----------------------------- MODULE MCAlertRule -----------------------------
(***************************************************************************)
(* AlertRule for TLC: its instances need no definition of their own.       *)
(***************************************************************************)
EXTENDS AlertRule
=============================================================================
