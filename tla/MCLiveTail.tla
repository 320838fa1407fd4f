----------------------------- MODULE MCLiveTail -----------------------------
(* Instances of LiveTail: one filter that parses, one that does not, and    *)
(* the empty one.                                                           *)
EXTENDS LiveTail

CONSTANTS f, bad
=============================================================================
