\* Three concurrent edits and deletes of one rule, two bodies, and restarts.
CONSTANTS
    Rule = {a}
    Org = {o1}
    OrgOf <- OneOrg
    Req = {r1, r2, r3}
    Ops = {"edit", "delete"}
    Body = {b1, b2}
    MaxOpenConns = 4
    Faults = FALSE
    None = None
SPECIFICATION Spec
SYMMETRY ReqSymmetry
INVARIANTS
    TasksMatchStore
    ShownIsEvaluated
