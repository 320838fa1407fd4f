\* An edit races a delete of the same rule.
CONSTANTS
    Rule = {a}
    Org = {o1}
    OrgOf <- OneOrg
    Req = {r1, r2}
    Ops = {"edit", "delete"}
    Body = {b1}
    MaxOpenConns = 3
    Faults = FALSE
    None = None
SPECIFICATION Spec
SYMMETRY ReqSymmetry
INVARIANTS
    DeletedHasNoTask
