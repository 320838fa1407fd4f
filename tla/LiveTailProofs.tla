--------------------------- MODULE LiveTailProofs ---------------------------
(***************************************************************************)
(* Proofs about LiveTail: its types, and that there is one connection, the *)
(* list holds what it should and a tail that plays does not come to a dead *)
(* end, for any filters, any number of errors, logs and moves, and any     *)
(* size of the list.                                                       *)
(***************************************************************************)
EXTENDS LiveTail, SequenceTheorems, TLAPS

All == Reverse(batch) \o logs

\* A rotation is awaited for an error that happened.
AwaitedInv == refreshing <= spent.errors

\* The flags say what the connection does, and one that opened is listened to
\* by the next commit.
FlagsInv ==
  /\ ~es.conn.orphaned
  /\ es.conn.state \in {"connecting", "waiting"} => "loading" \in es.flags
  /\ es.conn.state = "open" => "open" \in es.flags /\ "loading" \notin es.flags
  /\ es.conn.state = "open" /\ ~es.conn.attached => "loading" \in shown
  /\ "initial" \in es.flags => "initial" \in shown

\* Outside the view nothing is connected, set or listed.
ClosedInv ==
  view # "mounted" =>
    /\ es.conn.state \notin Live /\ es.flags \cap {"open", "loading"} = {}
    /\ prev = None /\ ~timer /\ logs = <<>> /\ batch = <<>> /\ ~flush

\* The filter of the connection and of the logs is the one committed last, if it
\* parses.
FilterInv ==
  view = "mounted" =>
    /\ prev = orNull(shownQuery)
    /\ ~edited => query = shownQuery
    /\ validateQuery(shownQuery) =>
         /\ es.conn.state \in Live => es.conn.filter = shownQuery
         /\ \A i \in DOMAIN All : All[i].filter = shownQuery

\* The list and the batch are in the order of arrival.
OrderInv ==
  /\ \A i \in DOMAIN All : All[i].n <= spent.logs
  /\ \A i, j \in DOMAIN All : i < j => All[i].n > All[j].n

\* A tail that plays without a connection has an error to recover from.
RecoveryInv ==
  /\ view = "mounted" /\ isPlaying /\ es.conn.state \notin Live /\ ~leaving
  /\ refreshing = 0
  => {"error", "reconnect"} \subseteq es.flags

TailInv == /\ AwaitedInv /\ FlagsInv /\ ClosedInv /\ FilterInv /\ OrderInv
           /\ RecoveryInv
-----------------------------------------------------------------------------
(* The handlers of EventSourceProvider.                                    *)

Provider == [flags : SUBSET Flags, conn : Connection]

\* handleCloseConnection leaves no connection, and of the flags of one none.
LEMMA Closes ==
  ASSUME NEW e \in Provider
  PROVE  LET r == handleCloseConnection(e)
         IN  /\ r \in Provider /\ r.flags = e.flags \ {"open", "loading", "error"}
             /\ r.conn.state \in {"none", "closed"} /\ r.conn.orphaned = e.conn.orphaned
<1>1. e.flags \in SUBSET Flags /\ e.conn \in Connection
  BY DEF Provider
<1> DEFINE c == IF e.conn.state = "none" THEN e.conn ELSE [e.conn EXCEPT !.state = "closed"]
<1>2. c \in Connection /\ c.state \in {"none", "closed"} /\ c.orphaned = e.conn.orphaned
  BY <1>1 DEF Connection
<1> HIDE DEF c
<1>3. handleCloseConnection(e) = [flags |-> e.flags \ {"open", "loading", "error"}, conn |-> c]
  BY DEF handleCloseConnection, c
<1> QED
  BY <1>1, <1>2, <1>3 DEF Provider

\* handleStartNewConnection closes the connection it replaces.
LEMMA Starts ==
  ASSUME NEW e \in Provider, NEW f \in Expressions
  PROVE  LET r == handleStartNewConnection(e, f)
         IN  /\ r \in Provider
             /\ r.flags = (e.flags \ {"open", "error", "reconnect"}) \cup {"loading"}
             /\ r.conn.state = "connecting" /\ r.conn.filter = f
             /\ r.conn.orphaned = e.conn.orphaned
<1> DEFINE k == handleCloseConnection(e)
           c == [state |-> "connecting", filter |-> f, attached |-> FALSE,
                 orphaned |-> k.conn.orphaned \/ k.conn.state \in Live]
           fl == (k.flags \cup {"loading"}) \ {"error", "reconnect"}
<1>1. /\ k \in Provider /\ k.flags = e.flags \ {"open", "loading", "error"}
      /\ k.conn.state \in {"none", "closed"} /\ k.conn.orphaned = e.conn.orphaned
  BY Closes
<1>2. handleStartNewConnection(e, f) = [flags |-> fl, conn |-> c]
  BY DEF handleStartNewConnection, handleStartOpenConnection
<1> HIDE DEF k
<1>3. e.flags \in SUBSET Flags /\ e.conn.orphaned \in BOOLEAN
  BY DEF Provider, Connection
<1>4. fl = (e.flags \ {"open", "error", "reconnect"}) \cup {"loading"} /\ fl \in SUBSET Flags
  BY <1>1, <1>3 DEF Flags
<1>5. c.orphaned = e.conn.orphaned
  BY <1>1, <1>3 DEF Live
<1>6. c \in Connection /\ c.state = "connecting" /\ c.filter = f
  BY <1>3, <1>5 DEF Connection
<1> HIDE DEF c, fl
<1> QED
  BY <1>2, <1>4, <1>5, <1>6 DEF Provider

\* An expression that does not parse is replaced by the empty one.
LEMMA OrEmpty ==
  ASSUME NEW e \in Expressions
  PROVE  orEmpty(e) \in Expressions /\ (validateQuery(e) => orEmpty(e) = e)
BY DEF orEmpty, Expressions

\* What the types say of the provider.
LEMMA ProviderType ==
  ASSUME TypeOK
  PROVE  /\ es \in Provider /\ es.flags \subseteq Flags /\ es.conn \in Connection
         /\ es.conn.filter \in Expressions /\ es.conn.attached \in BOOLEAN
         /\ es.conn.orphaned \in BOOLEAN
BY DEF TypeOK, Provider, Connection

-----------------------------------------------------------------------------
(* The list.                                                               *)

\* The logs of a batch and of a list, newest first.
LEMMA AllEntries ==
  ASSUME NEW b \in Seq(Log), NEW l \in Seq(Log)
  PROVE  LET a == Reverse(b) \o l
         IN  /\ a \in Seq(Log) /\ Len(a) = Len(b) + Len(l) /\ Len(a) \in Nat
             /\ DOMAIN a = 1 .. Len(b) + Len(l)
             /\ \A i \in 1 .. Len(b) + Len(l) :
                  a[i] = IF i <= Len(b) THEN b[(Len(b) - i) + 1] ELSE l[i - Len(b)]
<1> DEFINE r == Reverse(b)
<1>1. Len(b) \in Nat /\ Len(l) \in Nat /\ \A i \in 1 .. Len(b) : b[i] \in Log
  OBVIOUS
<1>2. r = [i \in 1 .. Len(b) |-> b[(Len(b) - i) + 1]]
  BY DEF Reverse
<1>3. \A i \in 1 .. Len(b) : (Len(b) - i) + 1 \in 1 .. Len(b)
  BY <1>1
<1>4. r \in Seq(Log) /\ Len(r) = Len(b) /\ \A i \in 1 .. Len(b) : r[i] = b[(Len(b) - i) + 1]
  BY <1>1, <1>2, <1>3
<1> HIDE DEF r
<1>5. /\ r \o l \in Seq(Log) /\ Len(r \o l) = Len(b) + Len(l)
      /\ \A i \in 1 .. Len(b) + Len(l) :
           (r \o l)[i] = IF i <= Len(b) THEN r[i] ELSE l[i - Len(b)]
  <2>1. /\ r \o l \in Seq(Log) /\ Len(r \o l) = Len(r) + Len(l)
        /\ \A i \in 1 .. Len(r) + Len(l) :
             (r \o l)[i] = IF i <= Len(r) THEN r[i] ELSE l[i - Len(r)]
    <3>1. r \in Seq(Log) /\ l \in Seq(Log)
      BY <1>4
    <3> QED
      BY <3>1, ConcatProperties
  <2>2. Len(r) = Len(b)
    BY <1>4
  <2> QED
    BY <2>1, <2>2
<1>6. \A i \in 1 .. Len(b) + Len(l) :
           (r \o l)[i] = IF i <= Len(b) THEN b[(Len(b) - i) + 1] ELSE l[i - Len(b)]
  BY <1>1, <1>4, <1>5
<1>7. DOMAIN (r \o l) = 1 .. Len(b) + Len(l) /\ Len(r \o l) \in Nat
  BY <1>5
<1> QED
  BY <1>5, <1>6, <1>7 DEF r

\* The entries of All.
LEMMA AllType ==
  ASSUME TypeOK
  PROVE  /\ All \in Seq(Log) /\ Len(All) \in Nat /\ DOMAIN All = 1 .. Len(All)
         /\ \A i \in DOMAIN All : All[i].n \in Nat
<1>1. batch \in Seq(Log) /\ logs \in Seq(Log)
  BY DEF TypeOK
<1>2. All \in Seq(Log) /\ Len(All) \in Nat
  BY <1>1, AllEntries DEF All
<1>3. DOMAIN All = 1 .. Len(All) /\ \A i \in DOMAIN All : All[i] \in Log
  <2> HIDE DEF All
  <2> QED
    BY <1>2
<1> QED
  BY <1>2, <1>3 DEF Log

\* A log that arrives is the first of them.
LEMMA AllAppend ==
  ASSUME NEW b \in Seq(Log), NEW l \in Seq(Log), NEW x \in Log
  PROVE  LET a == Reverse(b) \o l
             z == Reverse(Append(b, x)) \o l
         IN  /\ z \in Seq(Log) /\ DOMAIN z = 1 .. Len(a) + 1 /\ z[1] = x
             /\ \A i \in 1 .. Len(a) : z[i + 1] = a[i]
<1> DEFINE a == Reverse(b) \o l
           y == Append(b, x)
           z == Reverse(y) \o l
<1>1. /\ y \in Seq(Log) /\ Len(y) = Len(b) + 1 /\ y[Len(b) + 1] = x
      /\ \A i \in 1 .. Len(b) : y[i] = b[i]
  BY AppendProperties
<1> HIDE DEF y
<1>2. /\ Len(a) = Len(b) + Len(l)
      /\ \A i \in 1 .. Len(b) + Len(l) :
           a[i] = IF i <= Len(b) THEN b[(Len(b) - i) + 1] ELSE l[i - Len(b)]
  BY AllEntries
<1>3. /\ z \in Seq(Log) /\ DOMAIN z = 1 .. Len(y) + Len(l)
      /\ \A i \in 1 .. Len(y) + Len(l) :
           z[i] = IF i <= Len(y) THEN y[(Len(y) - i) + 1] ELSE l[i - Len(y)]
  BY <1>1, AllEntries
<1> HIDE DEF a, z
<1>4. Len(b) \in Nat /\ Len(l) \in Nat /\ Len(y) + Len(l) = Len(a) + 1
  BY <1>1, <1>2
<1>5. z[1] = x
  <2>1. 1 \in 1 .. Len(y) + Len(l) /\ 1 <= Len(y) /\ (Len(y) - 1) + 1 = Len(b) + 1
    BY <1>1, <1>4
  <2> QED
    BY <1>1, <1>3, <2>1
<1>6. ASSUME NEW i \in 1 .. Len(a) PROVE z[i + 1] = a[i]
  <2>1. i \in Int /\ i + 1 \in 1 .. Len(y) + Len(l) /\ i \in 1 .. Len(b) + Len(l)
    BY <1>2, <1>4
  <2>2. CASE i <= Len(b)
    <3>1. /\ i + 1 <= Len(y) /\ (Len(y) - (i + 1)) + 1 = (Len(b) - i) + 1
          /\ (Len(b) - i) + 1 \in 1 .. Len(b)
      <4>1. Len(b) \in Int /\ Len(y) = Len(b) + 1 /\ i \in Int /\ i <= Len(b) /\ 1 <= i
        BY <1>1, <1>4, <2>1, <2>2
      <4> QED
        BY <4>1
    <3>2. z[i + 1] = y[(Len(b) - i) + 1]
      <4>1. z[i + 1] = IF i + 1 <= Len(y) THEN y[(Len(y) - (i + 1)) + 1]
                                          ELSE l[(i + 1) - Len(y)]
        BY <1>3, <2>1
      <4> QED
        BY <3>1, <4>1
    <3> QED
      BY <1>1, <1>2, <2>1, <2>2, <3>1, <3>2
  <2>3. CASE ~(i <= Len(b))
    <3>1. ~(i + 1 <= Len(y)) /\ (i + 1) - Len(y) = i - Len(b)
      BY <1>1, <1>4, <2>1, <2>3
    <3>2. z[i + 1] = l[i - Len(b)]
      BY <1>3, <2>1, <3>1
    <3> QED
      BY <1>2, <2>1, <2>3, <3>2
  <2> QED
    BY <2>2, <2>3
<1>7. DOMAIN z = 1 .. Len(a) + 1
  BY <1>3, <1>4
<1> QED
  BY <1>3, <1>5, <1>6, <1>7 DEF a, z, y

\* The debounced update: the list is what fits of them, in their order.
LEMMA AllFlush ==
  ASSUME TypeOK
  PROVE  LET z == Reverse(<<>>) \o updatedLogs
         IN  /\ updatedLogs \in Seq(Log) /\ Len(updatedLogs) <= ListSize
             /\ DOMAIN z \subseteq DOMAIN All /\ \A i \in DOMAIN z : z[i] = All[i]
<1> DEFINE n == IF Len(All) < ListSize THEN Len(All) ELSE ListSize
           u == SubSeq(All, 1, n)
<1>1. updatedLogs = u
  BY DEF updatedLogs, Newest, All
<1>2. All \in Seq(Log) /\ Len(All) \in Nat /\ DOMAIN All = 1 .. Len(All)
  BY AllType
<1>3. n \in Nat /\ n <= ListSize /\ n <= Len(All)
  BY <1>2, BoundsAssumption
<1> HIDE DEF n
<1>4. u \in Seq(Log) /\ Len(u) = n /\ \A i \in 1 .. n : u[i] = All[i]
  BY <1>2, <1>3
<1> HIDE DEF u
<1>5. <<>> \in Seq(Log) /\ Len(<<>>) = 0
  OBVIOUS
<1>6. LET z == Reverse(<<>>) \o u
      IN  /\ DOMAIN z = 1 .. Len(<<>>) + Len(u)
          /\ \A i \in 1 .. Len(<<>>) + Len(u) :
               z[i] = IF i <= Len(<<>>) THEN (<<>>)[(Len(<<>>) - i) + 1] ELSE u[i - Len(<<>>)]
  BY <1>4, <1>5, AllEntries
<1>7. Len(<<>>) + Len(u) = n /\ \A i \in 1 .. n : ~(i <= Len(<<>>)) /\ i - Len(<<>>) = i
  BY <1>3, <1>4, <1>5
<1>8. /\ DOMAIN (Reverse(<<>>) \o u) = 1 .. n
      /\ \A i \in 1 .. n : (Reverse(<<>>) \o u)[i] = u[i]
  BY <1>6, <1>7
<1>9. 1 .. n \subseteq DOMAIN All
  BY <1>2, <1>3
<1> QED
  BY <1>1, <1>3, <1>4, <1>8, <1>9

\* No logs at all.
LEMMA AllEmpty == DOMAIN (Reverse(<<>>) \o <<>>) = {}
<1>1. <<>> \in Seq(Log) /\ Len(<<>>) = 0
  OBVIOUS
<1>2. DOMAIN (Reverse(<<>>) \o <<>>) = 1 .. Len(<<>>) + Len(<<>>)
  BY <1>1, AllEntries
<1> QED
  BY <1>1, <1>2

-----------------------------------------------------------------------------
(* Every step keeps the types and TailInv.                                 *)

Safe == TypeOK /\ TailInv

\* A connection that is not closed belongs to the view, and then the filter to
\* fall back to is the one committed last.
LEMMA LiveMounted ==
  ASSUME Safe
  PROVE  /\ es.conn.state \in Live \/ timer \/ flush => view = "mounted"
         /\ view = "mounted" => fallbackFilterExpression = shownQuery
<1>1. es.conn.state \in Live \/ timer \/ flush => view = "mounted"
  BY DEF Safe, TailInv, ClosedInv
<1>2. view = "mounted" => fallbackFilterExpression = shownQuery
  BY DEF Safe, TailInv, FilterInv, fallbackFilterExpression, orNull
<1> QED
  BY <1>1, <1>2

\* What an action that leaves the lists alone leaves of the invariant.
LEMMA ListsKept ==
  ASSUME Safe, UNCHANGED <<logs, batch>>, spent'.logs = spent.logs
  PROVE  All' = All /\ OrderInv'
<1>1. All' = All
  BY DEF All
<1> QED
  BY <1>1 DEF Safe, TailInv, OrderInv

\* A new connection with the filter committed last (Reconnect, Click).
LEMMA StartKeeps ==
  ASSUME Safe, NEW e \in Provider, view = "mounted",
         es' = handleStartNewConnection(e, orEmpty(shownQuery)),
         e.flags \subseteq es.flags, e.conn = es.conn,
         UNCHANGED <<view, shown, Queries, prev, refreshing, leaving, Lists>>,
         spent'.logs = spent.logs, spent'.errors = spent.errors,
         timer' \in BOOLEAN,
         spent' \in [errors : 0 .. MaxErrors, logs : 0 .. MaxLogs, moves : 0 .. MaxMoves]
  PROVE  Safe'
<1>1. shownQuery \in Expressions
  BY DEF Safe, TypeOK
<1>2. orEmpty(shownQuery) \in Expressions
      /\ (validateQuery(shownQuery) => orEmpty(shownQuery) = shownQuery)
  BY <1>1, OrEmpty
<1>3. /\ es' \in Provider
      /\ es'.flags = (e.flags \ {"open", "error", "reconnect"}) \cup {"loading"}
      /\ es'.conn.state = "connecting" /\ es'.conn.filter = orEmpty(shownQuery)
      /\ es'.conn.orphaned = es.conn.orphaned
  BY <1>2, Starts
<1>4. TypeOK'
  BY <1>3 DEF Safe, TypeOK, Provider, Queries, Lists
<1>5. All' = All /\ OrderInv'
  BY ListsKept DEF Lists
<1>6. AwaitedInv'
  BY DEF Safe, TailInv, AwaitedInv
<1>7. FlagsInv'
  BY <1>3 DEF Safe, TailInv, FlagsInv
<1>8. ClosedInv'
  BY DEF ClosedInv
<1>9. FilterInv'
  BY <1>2, <1>3, <1>5 DEF Safe, TailInv, FilterInv, Queries, validateQuery
<1>10. RecoveryInv'
  BY <1>3 DEF RecoveryInv, Live
<1> QED
  BY <1>4, <1>5, <1>6, <1>7, <1>8, <1>9, <1>10 DEF Safe, TailInv

LEMMA ReconnectStep ==
  ASSUME Safe, Reconnect
  PROVE  Safe'
<1>1. view = "mounted" /\ fallbackFilterExpression = shownQuery
  BY LiveMounted DEF Reconnect
<1>2. es \in Provider
  BY ProviderType DEF Safe
<1>3. /\ es' = handleStartNewConnection(es, orEmpty(shownQuery))
      /\ UNCHANGED <<view, shown, Queries, prev, refreshing, leaving, Lists>>
      /\ spent' = spent /\ timer' = FALSE
  BY <1>1 DEF Reconnect
<1>4. spent \in [errors : 0 .. MaxErrors, logs : 0 .. MaxLogs, moves : 0 .. MaxMoves]
  BY DEF Safe, TypeOK
<1> QED
  BY <1>1, <1>2, <1>3, <1>4, StartKeeps

\* The bounds of a move.
LEMMA MoveType ==
  ASSUME TypeOK, Move
  PROVE  /\ spent'.logs = spent.logs /\ spent'.errors = spent.errors
         /\ spent' \in [errors : 0 .. MaxErrors, logs : 0 .. MaxLogs, moves : 0 .. MaxMoves]
<1>1. /\ spent \in [errors : 0 .. MaxErrors, logs : 0 .. MaxLogs, moves : 0 .. MaxMoves]
      /\ spent.moves + 1 \in 0 .. MaxMoves
  BY BoundsAssumption DEF TypeOK, Move
<1> QED
  BY <1>1 DEF Move

LEMMA ClickStep ==
  ASSUME Safe, Click
  PROVE  Safe'
<1> DEFINE e == [es EXCEPT !.flags = IF "initial" \in shown THEN @ \ {"initial"} ELSE @]
<1>1. es \in Provider /\ es.flags \subseteq Flags
  BY ProviderType DEF Safe
<1>2. /\ e \in Provider /\ e.flags \subseteq es.flags /\ e.conn = es.conn
      /\ "initial" \notin e.flags
  BY <1>1 DEF Provider, Safe, TailInv, FlagsInv
<1>3. /\ spent'.logs = spent.logs /\ spent'.errors = spent.errors
      /\ spent' \in [errors : 0 .. MaxErrors, logs : 0 .. MaxLogs, moves : 0 .. MaxMoves]
  BY MoveType DEF Click, Safe
<1>4. /\ view = "mounted"
      /\ UNCHANGED <<view, shown, Queries, prev, timer, refreshing, leaving, Lists>>
  BY DEF Click, Unmoved
<1>5. IF shown \cap {"open", "loading"} # {} THEN es' = handleCloseConnection(e)
      ELSE es' = handleStartNewConnection(e, orEmpty(shownQuery))
  BY DEF Click
<1> HIDE DEF e
<1>6. CASE es' = handleStartNewConnection(e, orEmpty(shownQuery))
  <2>1. timer' \in BOOLEAN
    BY <1>4 DEF Safe, TypeOK
  <2> QED
    BY <1>2, <1>3, <1>4, <1>6, <2>1, StartKeeps
<1>7. CASE es' = handleCloseConnection(e)
  <2>1. /\ es' \in Provider /\ es'.flags = e.flags \ {"open", "loading", "error"}
        /\ es'.conn.state \in {"none", "closed"} /\ es'.conn.orphaned = es.conn.orphaned
    BY <1>2, <1>7, Closes
  <2>2. TypeOK'
    BY <1>3, <1>4, <2>1 DEF Safe, TypeOK, Provider, Queries, Lists
  <2>3. All' = All /\ OrderInv'
    BY <1>3, <1>4, ListsKept DEF Lists
  <2>4. AwaitedInv'
    BY <1>3, <1>4 DEF Safe, TailInv, AwaitedInv
  <2>5. FlagsInv'
    BY <1>2, <1>4, <2>1 DEF Safe, TailInv, FlagsInv
  <2>6. ClosedInv'
    BY <1>4 DEF ClosedInv
  <2>7. FilterInv'
    BY <1>4, <2>1, <2>3 DEF Safe, TailInv, FilterInv, Queries, validateQuery, Live
  <2>8. RecoveryInv'
    BY <1>2, <2>1 DEF RecoveryInv, isPlaying
  <2> QED
    BY <2>2, <2>3, <2>4, <2>5, <2>6, <2>7, <2>8 DEF Safe, TailInv
<1> QED
  BY <1>5, <1>6, <1>7

LEMMA RefreshOkStep ==
  ASSUME Safe, RefreshOk
  PROVE  Safe'
<1>1. es \in Provider /\ es.flags \subseteq Flags /\ es.conn \in Connection
  BY ProviderType DEF Safe
<1>2. /\ es' \in Provider /\ es'.flags = es.flags \cup {"reconnect", "error"}
      /\ es'.conn = es.conn
  BY <1>1 DEF RefreshOk, Provider, Flags
<1>3. /\ UNCHANGED <<view, shown, query, edited, shownQuery, prev, timer, leaving>>
      /\ UNCHANGED <<logs, batch, flush, spent>>
  BY DEF RefreshOk, Queries, Lists
<1>4. refreshing' \in 0 .. MaxErrors /\ refreshing' <= refreshing
  BY BoundsAssumption DEF RefreshOk, Safe, TypeOK
<1>5. TypeOK'
  BY <1>2, <1>3, <1>4 DEF Safe, TypeOK, Provider
<1>6. All' = All /\ OrderInv'
  BY <1>3, ListsKept
<1>7. AwaitedInv'
  BY <1>3, <1>4, BoundsAssumption DEF Safe, TypeOK, TailInv, AwaitedInv
<1>8. FlagsInv'
  BY <1>2, <1>3 DEF Safe, TailInv, FlagsInv
<1>9. ClosedInv'
  BY <1>2, <1>3 DEF Safe, TailInv, ClosedInv
<1>10. FilterInv'
  BY <1>2, <1>3, <1>6 DEF Safe, TailInv, FilterInv, validateQuery
<1>11. RecoveryInv'
  BY <1>2 DEF RecoveryInv
<1> QED
  BY <1>5, <1>6, <1>7, <1>8, <1>9, <1>10, <1>11 DEF Safe, TailInv

LEMMA RefreshFailsStep ==
  ASSUME Safe, RefreshFails
  PROVE  Safe'
<1>1. es \in Provider /\ es.flags \subseteq Flags /\ es.conn \in Connection
  BY ProviderType DEF Safe
<1>2. /\ es' \in Provider /\ es'.flags = es.flags \cup {"error"}
      /\ es'.conn.state = "closed" /\ es'.conn.orphaned = es.conn.orphaned
  BY <1>1 DEF RefreshFails, Provider, Connection, Flags
<1>3. /\ UNCHANGED <<view, shown, query, edited, shownQuery, prev, timer>>
      /\ UNCHANGED <<logs, batch, flush, spent>> /\ leaving' = TRUE
  BY DEF RefreshFails, Queries, Lists
<1>4. refreshing' \in 0 .. MaxErrors /\ refreshing' <= refreshing
  BY BoundsAssumption DEF RefreshFails, Safe, TypeOK
<1>5. TypeOK'
  BY <1>2, <1>3, <1>4 DEF Safe, TypeOK, Provider
<1>6. All' = All /\ OrderInv'
  BY <1>3, ListsKept
<1>7. AwaitedInv'
  BY <1>3, <1>4, BoundsAssumption DEF Safe, TypeOK, TailInv, AwaitedInv
<1>8. FlagsInv'
  BY <1>2, <1>3 DEF Safe, TailInv, FlagsInv
<1>9. ClosedInv'
  BY <1>2, <1>3 DEF Safe, TailInv, ClosedInv, Live
<1>10. FilterInv'
  BY <1>2, <1>3, <1>6 DEF Safe, TailInv, FilterInv, validateQuery, Live
<1>11. RecoveryInv'
  BY <1>3 DEF RecoveryInv
<1> QED
  BY <1>5, <1>6, <1>7, <1>8, <1>9, <1>10, <1>11 DEF Safe, TailInv

\* What a step of the connection alone leaves of the invariant.
LEMMA NetworkKeeps ==
  ASSUME Safe, es.conn.state \in Live, UNCHANGED <<Unmoved, logs, batch, flush>>,
         spent'.logs = spent.logs, es'.conn.filter = es.conn.filter
  PROVE  view = "mounted" /\ OrderInv' /\ ClosedInv' /\ FilterInv'
<1>1. view = "mounted"
  BY LiveMounted
<1>2. UNCHANGED <<view, shown, query, edited, shownQuery, prev, timer, leaving>>
  BY DEF Unmoved, Queries
<1>3. All' = All /\ OrderInv'
  BY ListsKept
<1>4. ClosedInv'
  BY <1>1, <1>2 DEF ClosedInv
<1>5. FilterInv'
  BY <1>1, <1>2, <1>3 DEF Safe, TailInv, FilterInv, validateQuery
<1> QED
  BY <1>1, <1>3, <1>4, <1>5

LEMMA OpensStep ==
  ASSUME Safe, Opens
  PROVE  Safe'
<1>1. es \in Provider /\ es.flags \subseteq Flags /\ es.conn \in Connection
  BY ProviderType DEF Safe
<1>2. /\ es' \in Provider
      /\ es'.flags = (es.flags \cup {"open"}) \ {"loading", "initial"}
      /\ es'.conn.state = "open" /\ es'.conn.orphaned = es.conn.orphaned
      /\ es'.conn.filter = es.conn.filter
  BY <1>1 DEF Opens, handleOpenConnection, Provider, Connection, Flags
<1>3. /\ UNCHANGED <<Unmoved, logs, batch, flush>>
      /\ spent' = spent /\ refreshing' = refreshing
      /\ UNCHANGED <<view, shown, query, edited, shownQuery, prev, timer, leaving>>
  BY DEF Opens, Lists, Unmoved, Queries
<1>4. es.conn.state = "connecting" /\ ~RenderPending
  BY DEF Opens, RoundTrip
<1>5. view = "mounted" /\ OrderInv' /\ ClosedInv' /\ FilterInv'
  BY <1>2, <1>3, <1>4, NetworkKeeps DEF Live
<1>6. TypeOK'
  BY <1>2, <1>3 DEF Safe, TypeOK, Provider
<1>7. "loading" \in shown
  BY <1>4, <1>5 DEF RenderPending, Mounted, Safe, TailInv, FlagsInv
<1>8. FlagsInv'
  BY <1>2, <1>3, <1>7 DEF Safe, TailInv, FlagsInv
<1>9. AwaitedInv'
  BY <1>3 DEF Safe, TailInv, AwaitedInv
<1>10. RecoveryInv'
  BY <1>2 DEF RecoveryInv, Live
<1> QED
  BY <1>5, <1>6, <1>8, <1>9, <1>10 DEF Safe, TailInv

\* A refused or dropped connection awaits a rotation.
LEMMA ErrorStep ==
  ASSUME Safe, NEW s \in {"closed", "waiting"}, es.conn.state \in Live, Error(s)
  PROVE  Safe'
<1>1. es \in Provider /\ es.flags \subseteq Flags /\ es.conn \in Connection
  BY ProviderType DEF Safe
<1>2. /\ es' \in Provider
      /\ es'.flags = (es.flags \cup {"loading"}) \ {"open", "initial"}
      /\ es'.conn.state = s /\ es'.conn.orphaned = es.conn.orphaned
      /\ es'.conn.filter = es.conn.filter
  BY <1>1 DEF Error, handleErrorConnection, Provider, Connection, Flags
<1>3. /\ UNCHANGED <<Unmoved, logs, batch, flush>>
      /\ UNCHANGED <<view, shown, query, edited, shownQuery, prev, timer, leaving>>
  BY DEF Error, Lists, Unmoved, Queries
<1>4. /\ spent'.logs = spent.logs /\ spent'.errors = spent.errors + 1
      /\ spent' \in [errors : 0 .. MaxErrors, logs : 0 .. MaxLogs, moves : 0 .. MaxMoves]
  <2>1. /\ spent \in [errors : 0 .. MaxErrors, logs : 0 .. MaxLogs, moves : 0 .. MaxMoves]
        /\ spent.errors + 1 \in 0 .. MaxErrors
    BY BoundsAssumption DEF Safe, TypeOK, Error
  <2> QED
    BY <2>1 DEF Error
<1>5. view = "mounted" /\ OrderInv' /\ ClosedInv' /\ FilterInv'
  BY <1>2, <1>3, <1>4, NetworkKeeps
<1>6. /\ refreshing \in Nat /\ spent.errors \in Nat /\ refreshing <= spent.errors
      /\ spent.errors < MaxErrors /\ refreshing' = refreshing + 1
  BY BoundsAssumption DEF Safe, TypeOK, TailInv, AwaitedInv, Error
<1>7. refreshing' \in 0 .. MaxErrors /\ refreshing' # 0
  BY <1>6, BoundsAssumption
<1>8. TypeOK'
  BY <1>2, <1>3, <1>4, <1>7 DEF Safe, TypeOK, Provider
<1>9. AwaitedInv'
  BY <1>4, <1>6 DEF AwaitedInv
<1>10. FlagsInv'
  BY <1>2, <1>3 DEF Safe, TailInv, FlagsInv
<1>11. RecoveryInv'
  BY <1>7 DEF RecoveryInv
<1> QED
  BY <1>5, <1>8, <1>9, <1>10, <1>11 DEF Safe, TailInv

LEMMA RetriesStep ==
  ASSUME Safe, Retries
  PROVE  Safe'
<1>1. es \in Provider /\ es.flags \subseteq Flags /\ es.conn \in Connection
  BY ProviderType DEF Safe
<1>2. /\ es' \in Provider /\ es'.flags = es.flags
      /\ es'.conn.state = "connecting" /\ es'.conn.orphaned = es.conn.orphaned
      /\ es'.conn.filter = es.conn.filter
  BY <1>1 DEF Retries, Provider, Connection, Flags
<1>3. /\ UNCHANGED <<Unmoved, logs, batch, flush>>
      /\ spent' = spent /\ refreshing' = refreshing /\ es.conn.state = "waiting"
      /\ UNCHANGED <<view, shown, query, edited, shownQuery, prev, timer, leaving>>
  BY DEF Retries, Lists, Unmoved, Queries
<1>4. view = "mounted" /\ OrderInv' /\ ClosedInv' /\ FilterInv'
  BY <1>2, <1>3, NetworkKeeps DEF Live
<1>5. TypeOK'
  BY <1>2, <1>3 DEF Safe, TypeOK, Provider
<1>6. FlagsInv'
  BY <1>2, <1>3 DEF Safe, TailInv, FlagsInv
<1>7. AwaitedInv'
  BY <1>3 DEF Safe, TailInv, AwaitedInv
<1>8. RecoveryInv'
  BY <1>2 DEF RecoveryInv, Live
<1> QED
  BY <1>4, <1>5, <1>6, <1>7, <1>8 DEF Safe, TailInv

LEMMA EditQueryStep ==
  ASSUME Safe, NEW q \in Expressions, EditQuery(q)
  PROVE  Safe'
<1>1. /\ view = "mounted" /\ query' = q /\ edited' = TRUE
      /\ UNCHANGED <<view, es, shown, shownQuery, prev, timer, refreshing, leaving>>
      /\ UNCHANGED <<logs, batch, flush>>
  BY DEF EditQuery, Lists
<1>2. /\ spent'.logs = spent.logs /\ spent'.errors = spent.errors
      /\ spent' \in [errors : 0 .. MaxErrors, logs : 0 .. MaxLogs, moves : 0 .. MaxMoves]
  BY MoveType DEF EditQuery, Safe
<1>3. TypeOK'
  BY <1>1, <1>2 DEF Safe, TypeOK
<1>4. All' = All /\ OrderInv'
  BY <1>1, <1>2, ListsKept
<1>5. AwaitedInv' /\ FlagsInv'
  BY <1>1, <1>2 DEF Safe, TailInv, AwaitedInv, FlagsInv
<1>6. ClosedInv'
  BY <1>1 DEF ClosedInv
<1>7. FilterInv'
  BY <1>1, <1>4 DEF Safe, TailInv, FilterInv, validateQuery
<1>8. RecoveryInv'
  BY <1>1 DEF Safe, TailInv, RecoveryInv, isPlaying
<1> QED
  BY <1>3, <1>4, <1>5, <1>6, <1>7, <1>8 DEF Safe, TailInv

LEMMA EnterStep ==
  ASSUME Safe, Enter
  PROVE  Safe'
<1>1. /\ view = "left" /\ view' = "mounting"
      /\ UNCHANGED <<es, shown, query, edited, shownQuery, prev, timer, refreshing, leaving>>
      /\ UNCHANGED <<logs, batch, flush>>
  BY DEF Enter, Lists, Queries
<1>2. /\ spent'.logs = spent.logs /\ spent'.errors = spent.errors
      /\ spent' \in [errors : 0 .. MaxErrors, logs : 0 .. MaxLogs, moves : 0 .. MaxMoves]
  BY MoveType DEF Enter, Safe
<1>3. TypeOK'
  BY <1>1, <1>2 DEF Safe, TypeOK
<1>4. OrderInv'
  BY <1>1, <1>2, ListsKept
<1>5. AwaitedInv' /\ FlagsInv'
  BY <1>1, <1>2 DEF Safe, TailInv, AwaitedInv, FlagsInv
<1>6. ClosedInv'
  BY <1>1 DEF Safe, TailInv, ClosedInv
<1>7. FilterInv' /\ RecoveryInv'
  BY <1>1 DEF FilterInv, RecoveryInv
<1> QED
  BY <1>3, <1>4, <1>5, <1>6, <1>7 DEF Safe, TailInv

\* The view unmounts (Leave, LoggedOut).
LEMMA UnmountedKeeps ==
  ASSUME Safe, Unmounted, view' \in {"left", "loggedOut"}, UNCHANGED <<shown, Queries>>,
         refreshing' \in 0 .. MaxErrors, refreshing' <= refreshing, leaving' \in BOOLEAN,
         spent'.logs = spent.logs, spent'.errors = spent.errors,
         spent' \in [errors : 0 .. MaxErrors, logs : 0 .. MaxLogs, moves : 0 .. MaxMoves]
  PROVE  Safe'
<1> DEFINE k == handleCloseConnection(es)
<1>1. es \in Provider
  BY ProviderType DEF Safe
<1>2. /\ k \in Provider /\ k.flags = es.flags \ {"open", "loading", "error"}
      /\ k.conn.state \in {"none", "closed"} /\ k.conn.orphaned = es.conn.orphaned
  BY <1>1, Closes
<1>3. es' = [k EXCEPT !.conn.attached = FALSE]
  BY DEF Unmounted
<1> HIDE DEF k
<1>4. /\ es' \in Provider /\ es'.flags = es.flags \ {"open", "loading", "error"}
      /\ es'.conn.state \in {"none", "closed"} /\ es'.conn.orphaned = es.conn.orphaned
  BY <1>2, <1>3 DEF Provider, Connection
<1>5. prev' = None /\ timer' = FALSE /\ logs' = <<>> /\ batch' = <<>> /\ flush' = FALSE
  BY DEF Unmounted
<1>6. logs' \in Seq(Log) /\ batch' \in Seq(Log) /\ Len(logs') <= ListSize
  <2>1. <<>> \in Seq(Log) /\ Len(<<>>) = 0
    OBVIOUS
  <2> QED
    BY <1>5, <2>1, BoundsAssumption
<1>7. TypeOK'
  BY <1>4, <1>5, <1>6 DEF Safe, TypeOK, Provider, Queries
<1>8. AwaitedInv'
  BY BoundsAssumption DEF Safe, TypeOK, TailInv, AwaitedInv
<1>9. FlagsInv'
  BY <1>4 DEF Safe, TailInv, FlagsInv
<1>10. ClosedInv'
  BY <1>4, <1>5 DEF ClosedInv, Live
<1>11. DOMAIN All' = {}
  BY <1>5, AllEmpty DEF All
<1>12. OrderInv'
  <2> HIDE DEF All
  <2> QED
    BY <1>11 DEF OrderInv
<1>13. FilterInv' /\ RecoveryInv'
  BY DEF FilterInv, RecoveryInv
<1> QED
  BY <1>7, <1>8, <1>9, <1>10, <1>12, <1>13 DEF Safe, TailInv

LEMMA LeaveStep ==
  ASSUME Safe, Leave
  PROVE  Safe'
<1>1. /\ spent'.logs = spent.logs /\ spent'.errors = spent.errors
      /\ spent' \in [errors : 0 .. MaxErrors, logs : 0 .. MaxLogs, moves : 0 .. MaxMoves]
  BY MoveType DEF Leave, Safe
<1>2. /\ Unmounted /\ view' \in {"left", "loggedOut"} /\ UNCHANGED <<shown, Queries>>
      /\ refreshing' = refreshing /\ leaving' = leaving
  BY DEF Leave
<1>3. refreshing \in 0 .. MaxErrors /\ refreshing <= refreshing /\ leaving \in BOOLEAN
  BY BoundsAssumption DEF Safe, TypeOK
<1> QED
  BY <1>1, <1>2, <1>3, UnmountedKeeps

LEMMA LoggedOutStep ==
  ASSUME Safe, LoggedOut
  PROVE  Safe'
<1>1. /\ spent' = spent
      /\ spent \in [errors : 0 .. MaxErrors, logs : 0 .. MaxLogs, moves : 0 .. MaxMoves]
  BY DEF LoggedOut, Safe, TypeOK
<1>2. /\ Unmounted /\ view' \in {"left", "loggedOut"} /\ UNCHANGED <<shown, Queries>>
      /\ refreshing' = 0 /\ leaving' = leaving
  BY DEF LoggedOut
<1>3. 0 \in 0 .. MaxErrors /\ 0 <= refreshing /\ leaving \in BOOLEAN
  BY BoundsAssumption DEF Safe, TypeOK
<1> QED
  BY <1>1, <1>2, <1>3, UnmountedKeeps

\* A log that arrives is newer than all that were listed.
LEMMA ArrivesStep ==
  ASSUME Safe, Arrives
  PROVE  Safe'
<1>1. /\ es.conn.state = "open" /\ UNCHANGED <<es, refreshing, logs>>
      /\ UNCHANGED <<view, shown, query, edited, shownQuery, prev, timer, leaving>>
  BY DEF Arrives, Unmoved, Queries
<1>2. view = "mounted"
  BY <1>1, LiveMounted DEF Live
<1>3. /\ spent'.logs = spent.logs + 1 /\ spent'.errors = spent.errors /\ spent.logs \in Nat
      /\ spent' \in [errors : 0 .. MaxErrors, logs : 0 .. MaxLogs, moves : 0 .. MaxMoves]
  <2>1. /\ spent \in [errors : 0 .. MaxErrors, logs : 0 .. MaxLogs, moves : 0 .. MaxMoves]
        /\ spent.logs + 1 \in 0 .. MaxLogs /\ spent.logs \in Nat
    BY BoundsAssumption DEF Safe, TypeOK, Arrives
  <2> QED
    BY <2>1 DEF Arrives
<1>4. AwaitedInv' /\ FlagsInv'
  BY <1>1, <1>3 DEF Safe, TailInv, AwaitedInv, FlagsInv
<1>5. ClosedInv'
  BY <1>1, <1>2 DEF ClosedInv
<1>6. RecoveryInv'
  BY <1>1 DEF RecoveryInv, Live
<1> DEFINE x == [n |-> spent.logs + 1, filter |-> es.conn.filter]
<1>7. /\ x \in Log /\ x.n = spent.logs + 1 /\ x.filter = es.conn.filter
  BY <1>3, ProviderType DEF Safe, Log
<1>8. /\ validateQuery(shownQuery) => es.conn.filter = shownQuery
      /\ validateQuery(shownQuery) => \A i \in DOMAIN All : All[i].filter = shownQuery
  BY <1>1, <1>2 DEF Safe, TailInv, FilterInv, Live
<1>9. /\ \A i \in DOMAIN All : All[i].n <= spent.logs
      /\ \A i, j \in DOMAIN All : i < j => All[i].n > All[j].n
  BY DEF Safe, TailInv, OrderInv
<1>10. /\ Len(All) \in Nat /\ DOMAIN All = 1 .. Len(All)
       /\ \A i \in DOMAIN All : All[i].n \in Nat
  BY AllType DEF Safe
<1>11. CASE ~es.conn.attached
  <2>1. batch' = batch /\ flush' = flush
    BY <1>11 DEF Arrives
  <2>2. All' = All
    BY <1>1, <2>1 DEF All
  <2>3. TypeOK'
    BY <1>1, <1>3, <2>1 DEF Safe, TypeOK
  <2>4. OrderInv'
    <3> HIDE DEF All
    <3>1. \A i \in DOMAIN All : All[i].n <= spent.logs + 1
      BY <1>3, <1>9, <1>10
    <3> QED
      BY <1>3, <1>9, <2>2, <3>1 DEF OrderInv
  <2>5. FilterInv'
    BY <1>1, <2>2 DEF Safe, TailInv, FilterInv, validateQuery
  <2> QED
    BY <1>4, <1>5, <1>6, <2>3, <2>4, <2>5 DEF Safe, TailInv
<1>12. CASE es.conn.attached
  <2>1. batch' = Append(batch, x) /\ flush' = TRUE
    BY <1>12 DEF Arrives
  <2> HIDE DEF x
  <2>2. batch \in Seq(Log) /\ logs \in Seq(Log)
    BY DEF Safe, TypeOK
  <2>3. TypeOK'
    BY <1>1, <1>3, <1>7, <2>1, <2>2 DEF Safe, TypeOK
  <2>4. /\ DOMAIN All' = 1 .. Len(All) + 1 /\ All'[1] = x
        /\ \A i \in 1 .. Len(All) : All'[i + 1] = All[i]
    <3>2. x \in Log
      BY <1>7
    <3>1. LET a == Reverse(batch) \o logs
              z == Reverse(Append(batch, x)) \o logs
          IN  /\ z \in Seq(Log) /\ DOMAIN z = 1 .. Len(a) + 1 /\ z[1] = x
              /\ \A i \in 1 .. Len(a) : z[i + 1] = a[i]
      BY <2>2, <3>2, AllAppend
    <3> QED
      BY <1>1, <2>1, <3>1 DEF All
  <2> HIDE DEF All
  <2>5. \A i \in DOMAIN All' : i = 1 \/ (i - 1 \in DOMAIN All /\ All'[i] = All[i - 1])
    <3> SUFFICES ASSUME NEW i \in 1 .. Len(All) + 1, i # 1
                 PROVE  i - 1 \in 1 .. Len(All) /\ All'[i] = All[i - 1]
      BY <1>10, <2>4
    <3>1. i - 1 \in 1 .. Len(All) /\ (i - 1) + 1 = i
      BY <1>10
    <3> QED
      BY <2>4, <3>1
  <2>6. \A i \in DOMAIN All' : All'[i].n <= spent'.logs
    <3> SUFFICES ASSUME NEW i \in DOMAIN All' PROVE All'[i].n <= spent.logs + 1
      BY <1>3
    <3>1. CASE i = 1
      BY <1>3, <1>7, <2>4, <3>1
    <3>2. CASE i - 1 \in DOMAIN All /\ All'[i] = All[i - 1]
      BY <1>3, <1>9, <1>10, <3>2
    <3> QED
      BY <2>5, <3>1, <3>2
  <2>7. \A i, j \in DOMAIN All' : i < j => All'[i].n > All'[j].n
    <3> SUFFICES ASSUME NEW i \in DOMAIN All', NEW j \in DOMAIN All', i < j
                 PROVE  All'[i].n > All'[j].n
      OBVIOUS
    <3>1. i \in Int /\ j \in Int /\ 1 <= i /\ j # 1
      BY <1>10, <2>4
    <3>2. j - 1 \in DOMAIN All /\ All'[j] = All[j - 1]
      BY <2>5, <3>1
    <3>3. CASE i = 1
      BY <1>3, <1>7, <1>9, <1>10, <2>4, <3>2, <3>3
    <3>4. CASE i - 1 \in DOMAIN All /\ All'[i] = All[i - 1]
      <4>1. i - 1 < j - 1
        BY <3>1
      <4> QED
        BY <1>9, <3>2, <3>4, <4>1
    <3> QED
      BY <2>5, <3>3, <3>4
  <2>8. OrderInv'
    BY <2>6, <2>7 DEF OrderInv
  <2>9. FilterInv'
    <3>1. validateQuery(shownQuery) => \A i \in DOMAIN All' : All'[i].filter = shownQuery
      BY <1>7, <1>8, <2>4, <2>5
    <3> QED
      BY <1>1, <1>2, <1>8, <3>1 DEF Safe, TailInv, FilterInv, validateQuery
  <2> QED
    BY <1>4, <1>5, <1>6, <2>3, <2>8, <2>9 DEF Safe, TailInv
<1> QED
  BY <1>11, <1>12

LEMMA FlushStep ==
  ASSUME Safe, Flush
  PROVE  Safe'
<1>1. /\ UNCHANGED <<view, es, shown, query, edited, shownQuery, prev, timer>>
      /\ UNCHANGED <<refreshing, leaving, spent>>
      /\ logs' = updatedLogs /\ batch' = <<>> /\ flush' = FALSE /\ flush
  BY DEF Flush, Queries
<1>2. view = "mounted"
  BY <1>1, LiveMounted
<1>3. /\ updatedLogs \in Seq(Log) /\ Len(updatedLogs) <= ListSize
      /\ DOMAIN (Reverse(<<>>) \o updatedLogs) \subseteq DOMAIN All
      /\ \A i \in DOMAIN (Reverse(<<>>) \o updatedLogs) :
           (Reverse(<<>>) \o updatedLogs)[i] = All[i]
  BY AllFlush DEF Safe
<1>4. DOMAIN All' \subseteq DOMAIN All /\ \A i \in DOMAIN All' : All'[i] = All[i]
  BY <1>1, <1>3 DEF All
<1>5. <<>> \in Seq(Log)
  OBVIOUS
<1>6. TypeOK'
  BY <1>1, <1>3, <1>5 DEF Safe, TypeOK
<1> HIDE DEF All
<1>7. AwaitedInv' /\ FlagsInv'
  BY <1>1 DEF Safe, TailInv, AwaitedInv, FlagsInv
<1>8. ClosedInv'
  BY <1>1, <1>2 DEF ClosedInv
<1>9. RecoveryInv'
  BY <1>1 DEF Safe, TailInv, RecoveryInv, isPlaying
<1>10. OrderInv'
  <2>1. spent' = spent
    BY <1>1
  <2> QED
    BY <1>4, <2>1 DEF Safe, TailInv, OrderInv
<1>11. FilterInv'
  BY <1>1, <1>4 DEF Safe, TailInv, FilterInv, validateQuery
<1> QED
  BY <1>6, <1>7, <1>8, <1>9, <1>10, <1>11 DEF Safe, TailInv

\* What the commit and the first two effects leave: the connection, listened to
\* when a flag has changed, or a new one.
LEMMA RenderEffects ==
  ASSUME TypeOK
  PROVE  LET r == Effect2(es, Effect1(Attached(es, shown)))
         IN  /\ r \in Provider /\ r.conn.orphaned = es.conn.orphaned
             /\ \/ /\ r.flags = (es.flags \ {"open", "error", "reconnect"}) \cup {"loading"}
                   /\ r.conn.state = "connecting"
                   /\ validateQuery(query) => r.conn.filter = query
                \/ /\ ~Effect1Restarts /\ ~Effect2Runs(es)
                   /\ r.flags = es.flags /\ r.conn.state = es.conn.state
                   /\ r.conn.filter = es.conn.filter
                   /\ r.conn.attached = (es.conn.state # "none"
                        /\ (view = "mounting" \/ es.flags # shown \/ es.conn.attached))
<1> DEFINE a == Attached(es, shown)
           u == Effect1(a)
           r == Effect2(es, u)
<1>1. es \in Provider /\ es.conn \in Connection /\ es.flags \subseteq Flags
  BY ProviderType
<1>2. query \in Expressions /\ orEmpty(query) \in Expressions
      /\ (validateQuery(query) => orEmpty(query) = query)
  BY OrEmpty DEF TypeOK
<1>3. /\ a \in Provider /\ a.flags = es.flags /\ a.conn.state = es.conn.state
      /\ a.conn.filter = es.conn.filter /\ a.conn.orphaned = es.conn.orphaned
      /\ a.conn.attached = (es.conn.state # "none"
           /\ (view = "mounting" \/ es.flags # shown \/ es.conn.attached))
  BY <1>1 DEF Attached, Provider, Connection
<1> HIDE DEF a
<1>4. u = IF Effect1Restarts THEN handleStartNewConnection(a, query) ELSE a
  BY DEF Effect1
<1>5. /\ u \in Provider /\ u.conn.orphaned = es.conn.orphaned
      /\ \/ /\ u.flags = (es.flags \ {"open", "error", "reconnect"}) \cup {"loading"}
            /\ u.conn.state = "connecting" /\ u.conn.filter = query
         \/ ~Effect1Restarts /\ u = a
  <2>1. CASE Effect1Restarts
    BY <1>2, <1>3, <1>4, <2>1, Starts
  <2>2. CASE ~Effect1Restarts
    BY <1>3, <1>4, <2>2
  <2> QED
    BY <2>1, <2>2
<1> HIDE DEF u
<1>6. r = IF Effect2Runs(es) THEN handleStartNewConnection(u, orEmpty(query)) ELSE u
  BY DEF Effect2
<1>7. CASE Effect2Runs(es)
  <2> DEFINE s == handleStartNewConnection(u, orEmpty(query))
  <2>1. /\ s \in Provider
        /\ s.flags = (u.flags \ {"open", "error", "reconnect"}) \cup {"loading"}
        /\ s.conn.state = "connecting" /\ s.conn.filter = orEmpty(query)
        /\ s.conn.orphaned = u.conn.orphaned
    BY <1>2, <1>5, Starts
  <2>2. r = s
    BY <1>6, <1>7
  <2> HIDE DEF s, r
  <2>3. r.flags = (es.flags \ {"open", "error", "reconnect"}) \cup {"loading"}
    BY <1>3, <1>5, <2>1, <2>2
  <2> QED
    BY <1>2, <1>5, <2>1, <2>2, <2>3 DEF r, u, a
<1>8. CASE ~Effect2Runs(es)
  <2>1. r = u
    BY <1>6, <1>8
  <2> HIDE DEF r
  <2> QED
    BY <1>3, <1>5, <1>8, <2>1 DEF r, u, a
<1> QED
  BY <1>7, <1>8

LEMMA RenderStep ==
  ASSUME Safe, Render
  PROVE  Safe'
<1>1. /\ view' = "mounted" /\ shown' = es.flags /\ shownQuery' = query /\ edited' = FALSE
      /\ UNCHANGED <<query, refreshing, leaving, spent>>
      /\ es' = Effect2(es, Effect1(Attached(es, shown)))
      /\ view \in {"mounting", "mounted"}
  BY DEF Render, RenderPending, Mounted
<1>2. TypeOK /\ TailInv
  BY DEF Safe
<1> DEFINE Started ==
             /\ es'.flags = (es.flags \ {"open", "error", "reconnect"}) \cup {"loading"}
             /\ es'.conn.state = "connecting"
             /\ validateQuery(query) => es'.conn.filter = query
           Stayed ==
             /\ ~Effect1Restarts /\ ~Effect2Runs(es)
             /\ es'.flags = es.flags /\ es'.conn.state = es.conn.state
             /\ es'.conn.filter = es.conn.filter
             /\ es'.conn.attached = (es.conn.state # "none"
                  /\ (view = "mounting" \/ es.flags # shown \/ es.conn.attached))
<1>3. /\ es' \in Provider /\ es'.conn.orphaned = es.conn.orphaned
      /\ Started \/ Stayed
  BY <1>1, <1>2, RenderEffects
<1>4. query \in Expressions /\ shownQuery \in Expressions
      /\ prev \in (Expressions \ {Empty}) \cup {None}
  BY <1>2 DEF TypeOK
<1>5. ~Effect1Runs =>
        /\ view = "mounted" /\ query = shownQuery /\ prev = orNull(query)
  <2>1. view # "mounted" => prev = None
    BY <1>2 DEF TailInv, ClosedInv
  <2>2. view = "mounted" => prev = orNull(shownQuery) /\ (~edited => query = shownQuery)
    BY <1>2 DEF TailInv, FilterInv
  <2> QED
    BY <1>1, <1>4, <2>1, <2>2, ExpressionsAssumption DEF Effect1Runs, filterChanged, orNull
<1>6. prev' = orNull(query)
  BY <1>5 DEF Render
<1>7. /\ logs' = <<>> /\ batch' = <<>>
      \/ /\ ~Effect1Restarts /\ UNCHANGED <<logs, batch>>
  BY DEF Render, ClearLists, Lists
<1>8. flush' = flush /\ timer' \in BOOLEAN
  BY <1>2 DEF Render, ClearLists, Lists, TypeOK
<1>9. \/ DOMAIN All' = {}
      \/ ~Effect1Restarts /\ All' = All
  BY <1>7, AllEmpty DEF All
<1>10. TypeOK'
  <2>1. <<>> \in Seq(Log) /\ Len(<<>>) = 0
    OBVIOUS
  <2>2. logs' \in Seq(Log) /\ Len(logs') <= ListSize /\ batch' \in Seq(Log)
    <3>1. logs \in Seq(Log) /\ Len(logs) <= ListSize /\ batch \in Seq(Log) /\ 0 <= ListSize
      BY <1>2, BoundsAssumption DEF TypeOK
    <3>2. CASE logs' = <<>> /\ batch' = <<>>
      BY <2>1, <3>1, <3>2
    <3>3. CASE UNCHANGED <<logs, batch>>
      BY <3>1, <3>3
    <3> QED
      BY <1>7, <3>2, <3>3
  <2>3. prev' \in (Expressions \ {Empty}) \cup {None}
    BY <1>4, <1>6 DEF orNull
  <2> QED
    BY <1>1, <1>2, <1>3, <1>8, <2>2, <2>3 DEF TypeOK, Provider
<1> HIDE DEF All
<1>11. AwaitedInv'
  BY <1>1, <1>2 DEF TailInv, AwaitedInv
<1>12. ClosedInv'
  BY <1>1 DEF ClosedInv
<1>13. OrderInv'
  BY <1>1, <1>2, <1>9 DEF TailInv, OrderInv
<1>14. FlagsInv'
  <2>1. CASE Started
    BY <1>1, <1>2, <1>3, <2>1 DEF TailInv, FlagsInv
  <2>2. CASE Stayed
    BY <1>1, <1>2, <1>3, <2>2 DEF TailInv, FlagsInv
  <2> QED
    BY <1>3, <2>1, <2>2
<1>15. FilterInv'
  <2> SUFFICES ASSUME validateQuery(query)
               PROVE  /\ es'.conn.state \in Live => es'.conn.filter = query
                      /\ \A i \in DOMAIN All' : All'[i].filter = query
    BY <1>1, <1>6 DEF FilterInv, validateQuery, orNull
  <2>1. ~Effect1Restarts => view = "mounted" /\ query = shownQuery
    BY <1>5 DEF Effect1Restarts
  <2>2. /\ ~Effect1Restarts /\ es.conn.state \in Live => es.conn.filter = query
        /\ ~Effect1Restarts => \A i \in DOMAIN All : All[i].filter = query
    BY <1>2, <2>1 DEF TailInv, FilterInv
  <2>3. es'.conn.state \in Live => es'.conn.filter = query
    BY <1>3, <2>2
  <2> QED
    BY <1>9, <2>2, <2>3
<1>16. RecoveryInv'
  <2>1. CASE Started
    BY <2>1 DEF RecoveryInv, Live
  <2>2. CASE Stayed /\ view = "mounted"
    BY <1>1, <1>2, <2>2 DEF TailInv, RecoveryInv, isPlaying
  <2>3. CASE Stayed /\ view = "mounting"
    <3>1. es.flags \cap {"open", "loading"} = {}
      BY <1>2, <2>3 DEF TailInv, ClosedInv
    <3>2. "initial" \notin es.flags
      BY <2>3, <3>1 DEF Effect2Runs
    <3> QED
      BY <2>3, <3>1, <3>2 DEF RecoveryInv, isPlaying
  <2> QED
    BY <1>1, <1>3, <2>1, <2>2, <2>3
<1> QED
  BY <1>10, <1>11, <1>12, <1>13, <1>14, <1>15, <1>16 DEF Safe, TailInv

-----------------------------------------------------------------------------
(* The invariants.                                                         *)

LEMMA InitSafe == Init => Safe
<1> SUFFICES ASSUME Init PROVE Safe
  OBVIOUS
<1>1. <<>> \in Seq(Log) /\ Len(<<>>) = 0
  OBVIOUS
<1>2. TypeOK
  <2>1. logs \in Seq(Log) /\ Len(logs) <= ListSize /\ batch \in Seq(Log)
    BY <1>1, BoundsAssumption DEF Init
  <2>2. es \in [flags : SUBSET Flags, conn : Connection]
    BY DEF Init, Flags, Connection, Expressions
  <2>3. /\ refreshing \in 0 .. MaxErrors
        /\ spent \in [errors : 0 .. MaxErrors, logs : 0 .. MaxLogs, moves : 0 .. MaxMoves]
    BY BoundsAssumption DEF Init
  <2> QED
    BY <2>1, <2>2, <2>3 DEF Init, TypeOK, Flags
<1>3. DOMAIN All = {}
  BY AllEmpty DEF Init, All
<1>4. OrderInv
  <2> HIDE DEF All
  <2> QED
    BY <1>3 DEF OrderInv
<1>5. AwaitedInv /\ FlagsInv /\ ClosedInv /\ FilterInv /\ RecoveryInv
  BY DEF Init, AwaitedInv, FlagsInv, ClosedInv, FilterInv, RecoveryInv, Live
<1> QED
  BY <1>2, <1>4, <1>5 DEF Safe, TailInv

LEMMA SafeStep == Safe /\ [Next]_vars => Safe'
<1> SUFFICES ASSUME Safe, [Next]_vars PROVE Safe'
  OBVIOUS
<1>1. CASE System
  BY <1>1, RenderStep, ReconnectStep, RefreshOkStep, RefreshFailsStep, FlushStep,
     LoggedOutStep DEF System
<1>2. CASE Network
  <2>1. CASE Refused \/ Dropped
    BY <2>1, ErrorStep DEF Refused, Dropped, RoundTrip, Live
  <2> QED
    BY <1>2, <2>1, OpensStep, RetriesStep, ArrivesStep DEF Network
<1>3. CASE User
  BY <1>3, ClickStep, EditQueryStep, LeaveStep, EnterStep DEF User
<1>4. CASE UNCHANGED vars
  <2>1. TypeOK'
    BY <1>4 DEF Safe, TypeOK, vars
  <2>2. All' = All
    BY <1>4 DEF All, vars
  <2>3. TailInv'
    BY <1>4, <2>2 DEF Safe, TailInv, AwaitedInv, FlagsInv, ClosedInv, FilterInv, OrderInv,
       RecoveryInv, isPlaying, validateQuery, vars
  <2> QED
    BY <2>1, <2>3 DEF Safe
<1> QED
  BY <1>1, <1>2, <1>3, <1>4 DEF Next

LEMMA SafeAlways == Spec => []Safe
BY InitSafe, SafeStep, PTL DEF Spec

\* The flags, the connection, the queries and the lists have their types: no more
\* rotations are awaited than connections failed, and the list is never longer
\* than MAX_LOGS_LIST_SIZE (EventSourceProvider, LiveLogsContainer).
THEOREM TypeCorrect == Spec => []TypeOK
<1>1. Safe => TypeOK
  BY DEF Safe
<1> QED
  BY <1>1, SafeAlways, PTL

\* One connection at most is open, none behind a button that offers to resume or
\* a closed view, and an open one is listened to once React has committed
\* (handleCloseConnection, useEventSourceEvent).
THEOREM OneConnectionHolds == Spec => []OneConnection
<1>1. ASSUME Safe PROVE OneConnection
  <2>1. ~es.conn.orphaned
    BY <1>1 DEF Safe, TailInv, FlagsInv
  <2>2. ~isPlaying \/ ~Mounted => es.conn.state \notin Live
    BY <1>1 DEF Safe, TailInv, FlagsInv, ClosedInv, isPlaying, Mounted, Live
  <2>3. es.conn.state = "open" /\ view = "mounted" /\ ~RenderPending => es.conn.attached
    BY <1>1 DEF Safe, TailInv, FlagsInv, RenderPending, Mounted
  <2> QED
    BY <2>1, <2>2, <2>3 DEF OneConnection
<1> QED
  BY <1>1, SafeAlways, PTL

\* The connection and every log in the list and in the batch are of the filter
\* that is committed, and no log is listed twice or out of order (the effects of
\* LiveLogsContainer, debouncedUpdateLogs).
THEOREM ListHoldsAlways == Spec => []ListHolds
<1>1. ASSUME Safe PROVE ListHolds
  <2>1. /\ All \in Seq(Log) /\ Len(All) \in Nat /\ DOMAIN All = 1 .. Len(All)
    BY <1>1, AllType DEF Safe
  <2>2. view = "mounted" /\ ~edited /\ validateQuery(query) =>
          /\ es.conn.state \in Live => es.conn.filter = query
          /\ \A i \in DOMAIN All : All[i].filter = query
    BY <1>1 DEF Safe, TailInv, FilterInv
  <2>3. \A i, j \in DOMAIN All : i < j => All[i].n > All[j].n
    BY <1>1 DEF Safe, TailInv, OrderInv
  <2>4. \A log \in Range(All) : \E i \in DOMAIN All : log = All[i]
    <3> HIDE DEF All
    <3> QED
      BY DEF Range
  <2>5. /\ view = "mounted" /\ ~edited /\ validateQuery(query) =>
             /\ es.conn.state \in Live => es.conn.filter = query
             /\ \A log \in Range(All) : log.filter = query
        /\ \A i, j \in 1 .. Len(All) : i < j => All[i].n > All[j].n
    <3> HIDE DEF All
    <3> QED
      BY <2>1, <2>2, <2>3, <2>4
  <2> QED
    BY <2>5 DEF ListHolds, All
<1> QED
  BY <1>1, SafeAlways, PTL

\* A tail that shows Pause is connected or about to be, or about to log out,
\* unless the reconnection was missed (handleErrorConnection, reconnectTimer).
THEOREM NoDeadEndHolds == Spec => []NoDeadEnd
<1>1. ASSUME Safe PROVE NoDeadEnd
  <2>1. view = "mounted" /\ isPlaying /\ es.conn.state \notin Live /\ ~leaving
        /\ refreshing = 0 => {"error", "reconnect"} \subseteq es.flags
    BY <1>1 DEF Safe, TailInv, RecoveryInv
  <2>2. refreshing \in Nat
    BY <1>1, BoundsAssumption DEF Safe, TypeOK
  <2>3. refreshing = 0 \/ refreshing > 0
    BY <2>2
  <2> QED
    BY <2>1, <2>3 DEF NoDeadEnd, RefreshReconnects
<1> QED
  BY <1>1, SafeAlways, PTL
=============================================================================
