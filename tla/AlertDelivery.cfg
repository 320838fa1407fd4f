\* The ratios of the code's defaults: an interval equal to the resend delay,
\* resolved alerts kept for three ticks, up to two rounds in a row lost, and
\* missing-data alerts with a grace period of two ticks.
CONSTANTS
    Series = {s1}
    Frequency = 1
    ResendDelay = 1
    ResolvedRetention = 3
    HoldDuration = 0
    AlertOnAbsent = TRUE
    AbsentFor = 2
    StartTime = 5
    MaxTime = 11
    MaxQuiet = 3
SPECIFICATION Spec
INVARIANTS
    TypeOK
    FiringStaysAlive
    ResolvedIsReported
    NoSilentDrop
    HistoryHonest
    NoDataStandsAlone
CHECK_DEADLOCK FALSE
