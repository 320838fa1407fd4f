---------------------------- MODULE MCRuleManager ----------------------------
(***************************************************************************)
(* Instances of RuleManager for TLC: the rules belong to one organization, *)
(* and the requests are interchangeable.                                   *)
(***************************************************************************)
EXTENDS RuleManager, TLC

OneOrg == [id \in Rule |-> CHOOSE o \in Org : TRUE]

ReqSymmetry == Permutations(Req)
=============================================================================
