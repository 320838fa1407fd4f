---------------------------- MODULE MCRegistry ----------------------------
(***************************************************************************)
(* Three services: a is the auditor's kind (its Stop waits until it is     *)
(* healthy), b the kind of authz, c the kind of user. The wirings: the     *)
(* repository's with names to be ignored, a chain, a fan, cycles of two    *)
(* and of three.                                                           *)
(***************************************************************************)
EXTENDS Registry, TLC

CONSTANTS a, b, c, unknown

Wire(A, B, C) == (a :> A) @@ (b :> B) @@ (c :> C)

MCName == {a, b, c, unknown}

MCDeclared ==
    { Wire({}, {b, unknown}, {b}),
      Wire({}, {a}, {b}),
      Wire({}, {}, {a, b}),
      Wire({}, {c}, {b}),
      Wire({c}, {a}, {b}) }
=============================================================================
