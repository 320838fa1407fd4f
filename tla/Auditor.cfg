\* Four events, a buffer of three and batches of two: the buffer fills, and
\* batches are full and partial.
CONSTANTS
    Event = {e1, e2, e3, e4}
    BufferSize = 3
    BatchSize = 2
SPECIFICATION FairSpec
CHECK_DEADLOCK FALSE
INVARIANTS
    StopDrains
PROPERTIES
    Implements
    EventsLeave
    StopEnds
