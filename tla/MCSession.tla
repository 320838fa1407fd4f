----------------------------- MODULE MCSession -----------------------------
(* Instances of Session: one tab whose calls overlap, and two tabs.        *)
EXTENDS Session

CONSTANTS tab, otherTab, r1, r2

OneTab == [r \in {r1, r2} |-> tab]
TwoTabs == [r \in {r1, r2} |-> IF r = r1 THEN tab ELSE otherTab]

\* Each kind of fault once, in any order, and one more sign-in.
SomeFaults == [losses |-> 1, ends |-> 1, reloads |-> 1, logins |-> 1]
NoFaults == [losses |-> 0, ends |-> 0, reloads |-> 0, logins |-> 0]
=============================================================================
