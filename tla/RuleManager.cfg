\* All operations on one rule, with every fault and a connection to spare.
CONSTANTS
    Rule = {a}
    Org = {o1}
    OrgOf <- OneOrg
    Req = {r1, r2}
    Ops = {"create", "edit", "patch", "delete"}
    Body = {b1}
    MaxOpenConns = 3
    Faults = TRUE
    None = None
SPECIFICATION FairSpec
INVARIANTS
    TypeOK
    NoStrayEvaluator
    StoppedOnce
PROPERTIES
    RequestsEnd
