------------------------------ MODULE LiveTail ------------------------------
(***************************************************************************)
(* The live tail of the logs explorer: providers/EventSource.tsx, which    *)
(* owns the connection and its flags, container/LiveLogs (the list of      *)
(* logs, the reconnection, the pause button), and the two hooks between    *)
(* them.                                                                   *)
(*                                                                         *)
(* Handlers write the flags at once; React commits them later, and then    *)
(* runs the effects whose dependencies have changed (Render): click        *)
(* handlers and effects read what was committed last, timers and promises  *)
(* run in between.  The EventSource polyfill is external: a refused        *)
(* connection is closed, a dropped one is retried by the polyfill, and a   *)
(* closed one delivers nothing.                                            *)
(***************************************************************************)
EXTENDS Naturals, Sequences, SequencesExt

CONSTANTS Valid,      \* the filter expressions that parse, but for the empty one
          Invalid,    \* those that do not
          Empty,      \* the empty expression
          None,       \* null
          ListSize,   \* MAX_LOGS_LIST_SIZE
          MaxErrors,  \* bound: the errors of connections
          MaxLogs,    \* bound: the logs that arrive
          MaxMoves    \* bound: what the user does

Expressions == Valid \cup Invalid \cup {Empty}

ASSUME ExpressionsAssumption ==
  Empty \notin Valid \cup Invalid /\ Valid \cap Invalid = {} /\ None \notin Expressions

ASSUME BoundsAssumption ==
  ListSize \in Nat \ {0} /\ MaxErrors \in Nat /\ MaxLogs \in Nat /\ MaxMoves \in Nat

VARIABLES view,        \* LiveLogsContainer: mounting, mounted, left, or logged out
          es,          \* EventSourceProvider: the flags, and the connection
          shown,       \* the flags that React committed last
          query,       \* currentQuery's filter expression
          edited,      \* currentQuery has been replaced since the last commit
          shownQuery,  \* the expression that React committed last
          prev,        \* prevFilterExpressionRef
          timer,       \* reconnectTimer is set
          refreshing,  \* the runs of handleErrorConnection that await the rotation
          leaving,     \* Logout has been called
          logs,        \* the list, newest first
          batch,       \* batchedEventsRef
          flush,       \* the debounced update is set
          spent        \* the errors, logs and moves so far

vars == <<view, es, shown, query, edited, shownQuery, prev, timer, refreshing,
          leaving, logs, batch, flush, spent>>

Queries == <<query, edited, shownQuery>>
Lists == <<logs, batch, flush>>

Flags == {"open", "loading", "error", "reconnect", "initial"}

\* eventSourceRef: none yet, or the state and the filter of the connection;
\* attached: useEventSourceEvent listens to this one; orphaned: one was
\* replaced while it was not closed.
Connection == [state : {"none", "connecting", "open", "waiting", "closed"},
               filter : Expressions, attached : BOOLEAN, orphaned : BOOLEAN]
Live == {"connecting", "open", "waiting"}

Log == [n : Nat, filter : Expressions]

validateQuery(e) == e \notin Invalid
orNull(e) == IF e = Empty THEN None ELSE e

\* The expression to connect with: null, the empty one, if it does not parse.
orEmpty(e) == IF validateQuery(e) THEN e ELSE Empty

Init ==
  /\ view = "mounting"
  /\ es = [flags |-> {"initial"},
           conn |-> [state |-> "none", filter |-> Empty, attached |-> FALSE,
                     orphaned |-> FALSE]]
  /\ shown = {"initial"}
  /\ query \in Expressions
  /\ edited = FALSE
  /\ shownQuery = query
  /\ prev = None
  /\ timer = FALSE
  /\ refreshing = 0
  /\ leaving = FALSE
  /\ logs = <<>> /\ batch = <<>> /\ flush = FALSE
  /\ spent = [errors |-> 0, logs |-> 0, moves |-> 0]

Mounted == view \in {"mounting", "mounted"}

\* React has something to commit.
RenderPending == Mounted /\ (view = "mounting" \/ es.flags # shown \/ edited)

-----------------------------------------------------------------------------
(* The handlers of EventSourceProvider, as the es they leave.              *)

\* Mutant of handleCloseConnection: destroyEventSourceSession is not called.
CloseFlagsOnly(e) == [e EXCEPT !.flags = @ \ {"open", "loading", "error"}]

handleCloseConnection(e) ==
  [flags |-> e.flags \ {"open", "loading", "error"},
   conn |-> IF e.conn.state = "none" THEN e.conn
            ELSE [e.conn EXCEPT !.state = "closed"]]

handleStartOpenConnection(e, f) ==
  [flags |-> (e.flags \cup {"loading"}) \ {"error", "reconnect"},
   conn |-> [state |-> "connecting", filter |-> f, attached |-> FALSE,
             orphaned |-> e.conn.orphaned \/ e.conn.state \in Live]]

\* handleStartNewConnection of the container and of the pause button.
handleStartNewConnection(e, f) == handleStartOpenConnection(handleCloseConnection(e), f)

\* Mutant of handleOpenConnection: isConnectionLoading stays.
OpenKeepsLoading(e) ==
  [e EXCEPT !.flags = (@ \cup {"open"}) \ {"initial"}, !.conn.state = "open"]

handleOpenConnection(e) ==
  [e EXCEPT !.flags = (@ \cup {"open"}) \ {"loading", "initial"},
            !.conn.state = "open"]

\* handleErrorConnection up to its await.
handleErrorConnection(e, s) ==
  [e EXCEPT !.flags = (@ \cup {"loading"}) \ {"open", "initial"},
            !.conn.state = s]

-----------------------------------------------------------------------------
(* The commit and the effects of LiveLogsContainer, in their order.        *)

\* The context reads the ref when one of the flags has changed or on mount, and
\* useEventSourceEvent moves its listeners.
Attached(e, f) ==
  [e EXCEPT !.conn.attached =
     e.conn.state # "none" /\ (view = "mounting" \/ e.flags # f \/ @)]

filterChanged == prev = None \/ prev # query

Effect1Runs == (view = "mounting" \/ edited) /\ filterChanged
Effect1Restarts == Effect1Runs /\ validateQuery(query)

Effect1(e) == IF Effect1Restarts THEN handleStartNewConnection(e, query) ELSE e

\* e is what the effect's closure reads, u what the earlier effects left.
Effect2Runs(e) ==
  /\ view = "mounting" \/ (e.flags \cap {"initial", "loading"})
                            # (shown \cap {"initial", "loading"})
  /\ "initial" \in e.flags /\ "loading" \notin e.flags

Effect2(e, u) == IF Effect2Runs(e) THEN handleStartNewConnection(u, orEmpty(query)) ELSE u

Effect3Runs(e) ==
  \/ view = "mounting" \/ edited
  \/ (e.flags \cap {"error", "reconnect"}) # (shown \cap {"error", "reconnect"})

\* Mutant of ClearLists: the batch is kept.
ClearListOnly == logs' = <<>> /\ UNCHANGED <<batch, flush>>

\* setLogs([]) and the batch of the first effect; the debounced call stays set.
ClearLists == logs' = <<>> /\ batch' = <<>> /\ UNCHANGED flush

Render ==
  /\ RenderPending
  /\ view' = "mounted"
  /\ shown' = es.flags
  /\ shownQuery' = query
  /\ edited' = FALSE
  /\ es' = Effect2(es, Effect1(Attached(es, shown)))
  /\ prev' = IF Effect1Runs \/ (Effect2Runs(es) /\ validateQuery(query))
               THEN orNull(query) ELSE prev
  /\ timer' = IF Effect3Runs(es) THEN {"error", "reconnect"} \subseteq es.flags
              ELSE timer
  /\ IF Effect1Restarts THEN ClearLists ELSE UNCHANGED Lists
  /\ UNCHANGED <<query, refreshing, leaving, spent>>

-----------------------------------------------------------------------------
(* Timers and promises.                                                    *)

\* reconnectTimer: the effect that set it ran with the query committed last.
fallbackFilterExpression == IF prev # None THEN prev ELSE shownQuery

Reconnect ==
  /\ timer
  /\ timer' = FALSE
  /\ es' = handleStartNewConnection(es, orEmpty(fallbackFilterExpression))
  /\ UNCHANGED <<view, shown, Queries, prev, refreshing, leaving, Lists, spent>>

\* Mutant of RefreshOk: the error is not reported.
RefreshOkSilent ==
  /\ refreshing > 0
  /\ refreshing' = refreshing - 1
  /\ es' = [es EXCEPT !.flags = @ \cup {"reconnect"}]
  /\ UNCHANGED <<view, shown, Queries, prev, timer, leaving, Lists, spent>>

\* handleErrorConnection after its await: the rotation succeeded, ...
RefreshOk ==
  /\ refreshing > 0
  /\ refreshing' = refreshing - 1
  /\ es' = [es EXCEPT !.flags = @ \cup {"reconnect", "error"}]
  /\ UNCHANGED <<view, shown, Queries, prev, timer, leaving, Lists, spent>>

\* ... or failed: close what is the connection now, and Logout.
RefreshFails ==
  /\ refreshing > 0
  /\ refreshing' = refreshing - 1
  /\ es' = [flags |-> es.flags \cup {"error"},
            conn |-> [es.conn EXCEPT !.state = "closed"]]
  /\ leaving' = TRUE
  /\ UNCHANGED <<view, shown, Queries, prev, timer, Lists, spent>>

Newest(all) == SubSeq(all, 1, IF Len(all) < ListSize THEN Len(all) ELSE ListSize)

\* Mutant of updatedLogs: the list is not cut.
LogsUncut == Reverse(batch) \o logs

updatedLogs == Newest(Reverse(batch) \o logs)

\* debouncedUpdateLogs, 500 ms after the last log.
Flush ==
  /\ flush
  /\ logs' = updatedLogs
  /\ batch' = <<>>
  /\ flush' = FALSE
  /\ UNCHANGED <<view, es, shown, Queries, prev, timer, refreshing, leaving, spent>>

-----------------------------------------------------------------------------
(* The connection.                                                         *)

Unmoved == <<view, shown, Queries, prev, timer, leaving>>

\* A round trip is longer than a render: what was pending when the connection
\* was made is committed before it opens, is refused or is dropped.
RoundTrip == es.conn.state = "connecting" /\ ~RenderPending

Opens ==
  /\ RoundTrip
  /\ es' = handleOpenConnection(es)
  /\ UNCHANGED <<Unmoved, refreshing, Lists, spent>>

Error(s) ==
  /\ spent.errors < MaxErrors
  /\ spent' = [spent EXCEPT !.errors = @ + 1]
  /\ es' = handleErrorConnection(es, s)
  /\ refreshing' = refreshing + 1
  /\ UNCHANGED <<Unmoved, Lists>>

Refused == RoundTrip /\ Error("closed")

Dropped == (RoundTrip \/ es.conn.state = "open") /\ Error("waiting")

\* The polyfill retries on its own.
Retries ==
  /\ es.conn.state = "waiting"
  /\ es' = [es EXCEPT !.conn.state = "connecting"]
  /\ UNCHANGED <<Unmoved, refreshing, Lists, spent>>

\* handleGetLiveLogs, batchLiveLog.
Arrives ==
  /\ es.conn.state = "open"
  /\ spent.logs < MaxLogs
  /\ spent' = [spent EXCEPT !.logs = @ + 1]
  /\ IF es.conn.attached
       THEN /\ batch' = Append(batch, [n |-> spent.logs + 1, filter |-> es.conn.filter])
            /\ flush' = TRUE
       ELSE UNCHANGED <<batch, flush>>
  /\ UNCHANGED <<Unmoved, es, refreshing, logs>>

-----------------------------------------------------------------------------
(* The user.                                                               *)

Move == /\ spent.moves < MaxMoves
        /\ spent' = [spent EXCEPT !.moves = @ + 1]

\* onLiveButtonClick, with the flags and the query of the last commit.
Click ==
  /\ view = "mounted"
  /\ Move
  /\ es' = LET e == [es EXCEPT !.flags = IF "initial" \in shown THEN @ \ {"initial"} ELSE @]
           IN  IF shown \cap {"open", "loading"} # {} THEN handleCloseConnection(e)
               ELSE handleStartNewConnection(e, orEmpty(shownQuery))
  /\ UNCHANGED <<Unmoved, refreshing, Lists>>

\* The query builder's currentQuery is replaced, by one with the same filter too.
EditQuery(e) ==
  /\ view = "mounted"
  /\ Move
  /\ query' = e
  /\ edited' = TRUE
  /\ UNCHANGED <<view, es, shown, shownQuery, prev, timer, refreshing, leaving, Lists>>

\* The container and the button unmount; the provider stays.
Unmounted ==
  /\ es' = [handleCloseConnection(es) EXCEPT !.conn.attached = FALSE]
  /\ prev' = None
  /\ timer' = FALSE
  /\ logs' = <<>> /\ batch' = <<>> /\ flush' = FALSE

\* handleExitLiveLogs.
Leave ==
  /\ view = "mounted"
  /\ Move
  /\ view' = "left"
  /\ Unmounted
  /\ UNCHANGED <<shown, Queries, refreshing, leaving>>

\* handleShowLiveLogs.
Enter ==
  /\ view = "left"
  /\ Move
  /\ view' = "mounting"
  /\ UNCHANGED <<es, shown, Queries, prev, timer, refreshing, leaving, Lists>>

\* Logout ends on the login page: the provider unmounts too.
LoggedOut ==
  /\ leaving
  /\ view # "loggedOut"
  /\ view' = "loggedOut"
  /\ Unmounted
  /\ refreshing' = 0
  /\ UNCHANGED <<shown, Queries, leaving, spent>>

-----------------------------------------------------------------------------
System == Render \/ Reconnect \/ RefreshOk \/ RefreshFails \/ Flush \/ LoggedOut
Network == Opens \/ Refused \/ Dropped \/ Retries \/ Arrives
User == Click \/ (\E e \in Expressions : EditQuery(e)) \/ Leave \/ Enter

Next == System \/ Network \/ User

Spec == Init /\ [][Next]_vars

\* React commits, timers expire, the rotation is answered and Logout ends; a
\* connection that is neither refused nor dropped opens.
FairSpec ==
  /\ Spec
  /\ WF_vars(Render) /\ WF_vars(Reconnect) /\ WF_vars(RefreshOk \/ RefreshFails)
  /\ WF_vars(LoggedOut)
  /\ WF_vars(Opens \/ Refused \/ Dropped) /\ WF_vars(Retries)

-----------------------------------------------------------------------------
(* Properties                                                              *)

TypeOK ==
  /\ view \in {"mounting", "mounted", "left", "loggedOut"}
  /\ es \in [flags : SUBSET Flags, conn : Connection]
  /\ shown \subseteq Flags
  /\ query \in Expressions
  /\ edited \in BOOLEAN
  /\ shownQuery \in Expressions
  /\ prev \in (Expressions \ {Empty}) \cup {None}
  /\ timer \in BOOLEAN
  /\ refreshing \in 0 .. MaxErrors
  /\ leaving \in BOOLEAN
  /\ logs \in Seq(Log) /\ Len(logs) <= ListSize
  /\ batch \in Seq(Log)
  /\ flush \in BOOLEAN
  /\ spent \in [errors : 0 .. MaxErrors, logs : 0 .. MaxLogs, moves : 0 .. MaxMoves]

\* isPlaying of the button.
isPlaying == es.flags \cap {"open", "loading", "initial"} # {}

\* No connection is left open behind the current one, and none is open while
\* the button offers to resume or the view is closed (handleCloseConnection).
\* An open connection has the list's listener when nothing is left to commit:
\* the memo of the context, which reads a ref, is computed anew in time.
OneConnection ==
  /\ ~es.conn.orphaned
  /\ ~isPlaying \/ ~Mounted => es.conn.state \notin Live
  /\ es.conn.state = "open" /\ view = "mounted" /\ ~RenderPending => es.conn.attached

\* A filter that parses is the filter of the connection and of every log in the
\* list and in the batch, once its effect has run.  The list is newest first,
\* the batch oldest first and newer than the list: no log is shown twice
\* (debouncedUpdateLogs reverses the batch in place).
ListHolds ==
  LET all == Reverse(batch) \o logs
  IN  /\ view = "mounted" /\ ~edited /\ validateQuery(query) =>
           /\ es.conn.state \in Live => es.conn.filter = query
           /\ \A log \in Range(all) : log.filter = query
      /\ \A i, j \in 1 .. Len(all) : i < j => all[i].n > all[j].n

\* "we'll let the component handle reconnection through the reconnectDueToError
\* state" (EventSource.tsx): when the flags are committed the timer is set.
RefreshReconnects ==
  view = "mounted" /\ ~RenderPending /\ {"error", "reconnect"} \subseteq es.flags => timer

\* A tail that shows Pause is connected, or something under way will connect it
\* or log out, unless the reconnection was missed (RefreshReconnects).
NoDeadEnd ==
  view = "mounted" /\ isPlaying /\ RefreshReconnects =>
    es.conn.state \in Live \/ refreshing > 0 \/ timer \/ RenderPending \/ leaving

\* The loading indicator does not stay: the tail opens, is paused or is left,
\* unless the reconnection was missed.
LoadingEnds ==
  (view = "mounted" /\ "loading" \in es.flags) ~>
    (view # "mounted" \/ "loading" \notin es.flags \/ ~RefreshReconnects)
=============================================================================
