--------------------------- MODULE AuditorServer ---------------------------
(***************************************************************************)
(* The buffer of audit events (pkg/auditor/auditorserver/server.go): Add,  *)
(* called by any number of HTTP handlers, Start's flush goroutine with its *)
(* wake-up channel and its ticker, and Stop, which drains the buffer.      *)
(*                                                                         *)
(* Each section under queueMtx, and each receive of the goroutine's        *)
(* select, is one step.                                                    *)
(***************************************************************************)
EXTENDS Naturals, Sequences

CONSTANTS
    Event,       \* the audit events of the run
    BufferSize,
    BatchSize

ASSUME ConfigAssumption ==
    /\ BufferSize \in Nat \ {0}
    /\ BatchSize \in Nat \ {0}
    /\ BatchSize <= BufferSize

VARIABLES
    queue,     \* Server.queue
    moreC,     \* is there a value in moreC, a channel of capacity one?
    loop,      \* where the flush goroutine is
    batch,     \* the events it has taken from the queue and not settled
    draining,  \* is it in drain?
    stop,      \* where Stop is: "idle", "healthyC", "wait" or "returned"
    emitted,   \* events that Add was called with
    exported,  \* events exportFn accepted, in order
    lost,      \* events of the batches exportFn failed for, in order
    early      \* events that were buffered when stopC was closed

vars == <<queue, moreC, loop, batch, draining, stop, emitted, exported, lost,
          early>>

Elements(s) == {s[i] : i \in 1..Len(s)}

stopC == stop \in {"wait", "returned"}

Init ==
    /\ queue = <<>>
    /\ moreC = FALSE
    /\ loop = "new"
    /\ batch = <<>>
    /\ draining = FALSE
    /\ stop = "idle"
    /\ emitted = {}
    /\ exported = <<>>
    /\ lost = <<>>
    /\ early = {}

-----------------------------------------------------------------------------

Start ==
    /\ loop = "new"
    /\ loop' = "select"
    /\ UNCHANGED <<queue, moreC, batch, draining, stop, emitted, exported, lost,
                   early>>

(***************************************************************************)
(* Add drops the event when the buffer is full, and otherwise buffers it   *)
(* and leaves a value in moreC (setMore).                                  *)
(***************************************************************************)
Add(e) ==
    /\ e \notin emitted
    /\ emitted' = emitted \cup {e}
    /\ IF Len(queue) >= BufferSize
         THEN UNCHANGED <<queue, moreC>>
         ELSE queue' = Append(queue, e) /\ moreC' = TRUE
    /\ UNCHANGED <<loop, batch, draining, stop, exported, lost, early>>

(***************************************************************************)
(* The goroutine's select: it takes any of the channels that are ready.    *)
(***************************************************************************)
Select(to) ==
    /\ loop = "select"
    /\ loop' = to
    /\ UNCHANGED <<queue, batch, stop, emitted, exported, lost, early>>

SelectStop == stopC /\ Select("len") /\ draining' = TRUE /\ UNCHANGED moreC

SelectMore == moreC /\ Select("len") /\ moreC' = FALSE /\ UNCHANGED draining

SelectTick == Select("next") /\ UNCHANGED <<moreC, draining>>

\* Mutant of QueueLen: draining stops at the last full batch.
QueueLenFullOnly ==
    /\ loop = "len"
    /\ loop' = IF Len(queue) >= BatchSize THEN "next"
               ELSE IF draining THEN "gone" ELSE "select"
    /\ UNCHANGED <<queue, moreC, batch, draining, stop, emitted, exported, lost,
                   early>>

\* Mutant of QueueLen: the goroutine goes on after drain.
QueueLenReturns ==
    /\ loop = "len"
    /\ loop' = IF Len(queue) >= (IF draining THEN 1 ELSE BatchSize)
                 THEN "next" ELSE "select"
    /\ UNCHANGED <<queue, moreC, batch, draining, stop, emitted, exported, lost,
                   early>>

(***************************************************************************)
(* queueLen, in drain and after a receive from moreC.                      *)
(***************************************************************************)
QueueLen ==
    /\ loop = "len"
    /\ loop' = IF draining
                 THEN IF Len(queue) > 0 THEN "next" ELSE "gone"
                 ELSE IF Len(queue) >= BatchSize THEN "next" ELSE "select"
    /\ UNCHANGED <<queue, moreC, batch, draining, stop, emitted, exported, lost,
                   early>>

Smaller(m, n) == IF m < n THEN m ELSE n

\* Mutant of Take: the batch is copied and left in the queue.
TakeKeeps ==
    LET n == Smaller(BatchSize, Len(queue))
    IN  /\ loop = "next"
        /\ batch' = SubSeq(queue, 1, n)
        /\ loop' = IF n = 0 THEN "select" ELSE "export"
        /\ UNCHANGED <<queue, moreC, draining, stop, emitted, exported, lost,
                       early>>

(***************************************************************************)
(* next, in flush and in drain.                                            *)
(***************************************************************************)
Take ==
    LET n == Smaller(BatchSize, Len(queue))
    IN  /\ loop = "next"
        /\ batch' = SubSeq(queue, 1, n)
        /\ queue' = SubSeq(queue, n + 1, Len(queue))
        /\ loop' = IF n # 0 THEN "export"
                   ELSE IF draining THEN "gone" ELSE "select"
        /\ UNCHANGED <<moreC, draining, stop, emitted, exported, lost, early>>

\* Mutant of Export: a failed export ends the goroutine.
ExportGivesUp(ok) ==
    /\ loop = "export"
    /\ \/ ok /\ exported' = exported \o batch /\ UNCHANGED lost
       \/ ~ok /\ lost' = lost \o batch /\ UNCHANGED exported
    /\ batch' = <<>>
    /\ loop' = IF ~ok THEN "gone" ELSE IF draining THEN "len" ELSE "select"
    /\ UNCHANGED <<queue, moreC, draining, stop, emitted, early>>

(***************************************************************************)
(* export: a batch that exportFn fails for is logged and forgotten.        *)
(***************************************************************************)
Export(ok) ==
    /\ loop = "export"
    /\ \/ ok /\ exported' = exported \o batch /\ UNCHANGED lost
       \/ ~ok /\ lost' = lost \o batch /\ UNCHANGED exported
    /\ batch' = <<>>
    /\ loop' = IF draining THEN "len" ELSE "select"
    /\ UNCHANGED <<queue, moreC, draining, stop, emitted, early>>

-----------------------------------------------------------------------------
(***************************************************************************)
(* Stop waits for healthyC, which Start closes, closes stopC and waits for *)
(* the goroutine.                                                          *)
(***************************************************************************)
Stop ==
    /\ stop = "idle"
    /\ stop' = "healthyC"
    /\ UNCHANGED <<queue, moreC, loop, batch, draining, emitted, exported, lost,
                   early>>

StopCloses ==
    /\ stop = "healthyC"
    /\ loop # "new"
    /\ stop' = "wait"
    /\ early' = Elements(queue) \cup Elements(batch)
    /\ UNCHANGED <<queue, moreC, loop, batch, draining, emitted, exported, lost>>

StopReturns ==
    /\ stop = "wait"
    /\ loop = "gone"
    /\ stop' = "returned"
    /\ UNCHANGED <<queue, moreC, loop, batch, draining, emitted, exported, lost,
                   early>>

-----------------------------------------------------------------------------

Flush ==
    \/ SelectStop
    \/ SelectMore
    \/ SelectTick
    \/ QueueLen
    \/ Take
    \/ \E ok \in BOOLEAN : Export(ok)

Next ==
    \/ Start
    \/ \E e \in Event : Add(e)
    \/ Flush
    \/ Stop
    \/ StopCloses
    \/ StopReturns

Spec == Init /\ [][Next]_vars

(***************************************************************************)
(* The registry starts the server, the goroutine goes on (the ticker ticks *)
(* and an export ends: the HTTP client has a timeout and a bounded number  *)
(* of retries), and since select chooses at random among the channels that *)
(* are ready, a closed stopC is chosen in the end.                         *)
(***************************************************************************)
Fairness ==
    /\ WF_vars(Start)
    /\ WF_vars(Flush)
    /\ SF_vars(SelectStop)
    /\ WF_vars(StopCloses)
    /\ WF_vars(StopReturns)

FairSpec == Spec /\ Fairness

-----------------------------------------------------------------------------

(***************************************************************************)
(* Every variable has its type, and the buffer and the batches keep within *)
(* BufferSize and BatchSize.                                               *)
(***************************************************************************)
TypeOK ==
    /\ queue \in Seq(Event) /\ Len(queue) <= BufferSize
    /\ batch \in Seq(Event) /\ Len(batch) <= BatchSize
    /\ moreC \in BOOLEAN
    /\ draining \in BOOLEAN
    /\ loop \in {"new", "select", "len", "next", "export", "gone"}
    /\ stop \in {"idle", "healthyC", "wait", "returned"}
    /\ emitted \in SUBSET Event
    /\ exported \in Seq(Event)
    /\ lost \in Seq(Event)
    /\ early \in SUBSET Event

(***************************************************************************)
(* The server implements AuditLog: the events that have not left are those *)
(* of the batch under way followed by those of the queue.                  *)
(***************************************************************************)
Log == INSTANCE AuditLog WITH pending <- batch \o queue

Implements == Log!Spec

(***************************************************************************)
(* When Stop returns, every event that was buffered when it closed stopC   *)
(* has been handed to the export ("It blocks until all buffered events     *)
(* have been exported"), also those a flush had taken and those that fill  *)
(* less than a batch.                                                      *)
(***************************************************************************)
StopDrains ==
    stop = "returned" =>
        early \cap (Elements(queue) \cup Elements(batch)) = {}

(***************************************************************************)
(* What makes StopDrains inductive, and AuditLog follow: the events in the *)
(* buffer were emitted, the goroutine holds a batch only while it exports  *)
(* it, and ends only in drain, with none of the early events buffered.     *)
(***************************************************************************)
DrainInv ==
    /\ early \subseteq emitted
    /\ Elements(queue) \cup Elements(batch) \subseteq emitted
    /\ loop = "export" <=> batch # <<>>
    /\ draining => stopC
    /\ loop = "gone" => stopC /\ early \cap Elements(queue) = {}
    /\ stop = "returned" => loop = "gone"
    /\ loop = "new" => ~stopC

(***************************************************************************)
(* Every buffered event leaves the buffer, full batch or not: a failed     *)
(* export, a coalesced wake-up or a busy handler leaves none behind.       *)
(***************************************************************************)
EventsLeave ==
    \A e \in Event : (e \in Elements(queue) /\ ~stopC)
                        ~> (e \notin Elements(queue) \cup Elements(batch))

(***************************************************************************)
(* Stop, once called, returns, also when it is called before Start has run *)
(* and while exports fail and handlers add events.                         *)
(***************************************************************************)
StopEnds == (stop = "healthyC") ~> (stop = "returned")
=============================================================================
