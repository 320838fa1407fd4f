\* Three services in five wirings.
SPECIFICATION FairSpec
CONSTANTS
    a = a
    b = b
    c = c
    unknown = unknown
    None = None
    Service = {a, b, c}
    Name <- MCName
    Declared <- MCDeclared
    HasHealthy = {a, b, c}
    Prompt = {a, b}
    Patient = {a}
INVARIANTS
    StartsAfterDependencies
PROPERTIES
    NoneWaitsForEver
    ErrorEndsWait
    StopEnds
