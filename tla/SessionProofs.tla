--------------------------- MODULE SessionProofs ---------------------------
(***************************************************************************)
(* Proofs about Session: its types, and that the storage of one tab is     *)
(* never two rotations behind the server.                                  *)
(*                                                                         *)
(* The pairs that a session has had form a chain: its past, its previous   *)
(* and its current pair.  A tab has at most one rotation per chain in      *)
(* flight, and as long as it has one the storage holds the pair of that    *)
(* rotation or nothing of the chain: so the server cannot rotate twice     *)
(* before the tab has heard of the first time.                             *)
(***************************************************************************)
EXTENDS Session, TLAPS

\* One tab: ClientOf gives every call the same client.
SingleTab == \A c, d \in Clients : c = d

Chain(row) == row.past \cup ({row.prev, row.cur} \ {0})
Latest(row) == {row.cur, row.prev}
Mine(rot) == rot.client # Gone

\* Different sessions have no pair in common.
RowsApart == \A a, b \in rows : a # b => Chain(a) \cap Chain(b) = {}

\* The pairs of the past are older than the previous one.
PastOlder == \A row \in rows : \A p \in row.past : p > 0 /\ p < row.prev

\* The storage has the current or the previous pair, or none, of each session.
StoredRecent == \A row \in rows : stored \in Chain(row) => stored \in Latest(row)

\* A rotation of the tab has the current or the previous pair of its session;
\* once it is answered the session has not been rotated again.
MineRecent ==
  \A row \in rows, rot \in rotations :
    Mine(rot) =>
      /\ rot.pair \in Chain(row) =>
           /\ rot.pair \in Latest(row)
           /\ rot.phase = "ok" => rot.pair = row.prev /\ rot.answer = row.cur
      /\ rot.phase = "ok" /\ rot.answer \in Chain(row) => rot.pair \in Chain(row)

\* The tab has one rotation of a session in flight, with the pair it has stored.
MineAlone ==
  \A row \in rows, rot \in rotations :
    Mine(rot) /\ rot.pair \in Chain(row) =>
      /\ stored \in Chain(row) => stored = rot.pair
      /\ \A k \in rotations : Mine(k) /\ k.pair \in Chain(row) => k = rot

\* A rotation that a page left behind when it was reloaded has no newer pair
\* than the storage or a rotation of the page that is open now.
GoneOlder ==
  \A row \in rows, rot \in rotations :
    ~Mine(rot) /\ rot.pair \in Chain(row) =>
      /\ stored \in Chain(row) => rot.pair <= stored
      /\ \A k \in rotations : Mine(k) /\ k.pair \in Chain(row) => rot.pair <= k.pair

\* Nobody receives the answer of such a rotation.
GoneUnheard == \A rot \in rotations : ~Mine(rot) => rot.phase = "sent"

ChainInv ==
  /\ RowsApart /\ PastOlder /\ StoredRecent /\ MineRecent /\ MineAlone
  /\ GoneOlder /\ GoneUnheard

-----------------------------------------------------------------------------
(* Types.                                                                  *)

\* The first sign-in.
LEMMA TypeInit == Init => TypeOK
BY BudgetAssumption DEF Init, TypeOK, Row, NewRow, Pairs, Phases, Settled

\* What the server does to its rows.
LEMMA RotatedType ==
  ASSUME NEW row \in Row, NEW n \in Pairs, row.cur < n
  PROVE  /\ Rotated(row, n) \in Row
         /\ Rotated(row, n).cur = n /\ Rotated(row, n).prev = row.cur
BY DEF Rotated, Row, Pairs

\* CreateToken.
LEMMA NewRowType ==
  ASSUME NEW n \in Pairs
  PROVE  NewRow(n) \in Row /\ NewRow(n).cur = n /\ NewRow(n).prev = 0
BY DEF NewRow, Row, Pairs

\* The calls whose pairs the server has issued when it has issued n.
RotationCalls(n) == [client : Clients \cup {Gone}, pair : 0 .. n,
                     phase : {"sent", "ok", "refused"}, answer : 0 .. n]
LogoutCalls(n) == [client : Clients \cup {Gone}, by : Requests \cup {"rotate", "user"},
                   pair : 0 .. n, phase : {"sent", "answered"}]

\* A call stays well formed when the server issues another pair.
LEMMA CallsGrow ==
  ASSUME TypeOK, NEW n \in Nat, issued <= n
  PROVE  /\ stored \in 0 .. n
         /\ requests \in [Requests -> [phase : Phases, pair : 0 .. n]]
         /\ rotations \subseteq RotationCalls(n)
         /\ logouts \subseteq LogoutCalls(n)
<1>1. issued \in Nat /\ 0 .. issued \subseteq 0 .. n
  BY DEF TypeOK, Pairs
<1>2. stored \in 0 .. n
  BY <1>1 DEF TypeOK
<1>3. requests \in [Requests -> [phase : Phases, pair : 0 .. n]]
  BY <1>1 DEF TypeOK
<1>4. rotations \subseteq RotationCalls(n)
  BY <1>1 DEF TypeOK, RotationCalls
<1>5. logouts \subseteq LogoutCalls(n)
  BY <1>1 DEF TypeOK, LogoutCalls
<1> QED
  BY <1>2, <1>3, <1>4, <1>5

\* The answer to a rotation is well formed when its pair is.
LEMMA AnsweredType ==
  ASSUME NEW n \in Nat, rotations \subseteq RotationCalls(n), NEW rot \in rotations,
         NEW result \in {"ok", "refused"}, NEW p \in 0 .. n,
         Answered(rot, result, p)
  PROVE  rotations' \subseteq RotationCalls(n)
<1>1. rot \in RotationCalls(n)
  OBVIOUS
<1>2. [rot EXCEPT !.phase = result, !.answer = p] \in RotationCalls(n)
  BY <1>1 DEF RotationCalls
<1> QED
  BY <1>2 DEF Answered

\* The steps of the server.
LEMMA ServerType ==
  ASSUME TypeOK,
         \/ \E rot \in rotations : RotateToken(rot)
         \/ \E out \in logouts : DeleteToken(out)
         \/ \E r \in Requests : Serve(r)
         \/ \E c \in Clients : Login(c)
         \/ Time
  PROVE  TypeOK'
<1>1. ASSUME NEW rot \in rotations, RotateToken(rot) PROVE TypeOK'
  <2>1. CASE \E row \in RowOf(rot.pair) :
               /\ MayRotate(row, rot.pair)
               /\ rows' = (rows \ {row}) \cup {Rotated(row, issued + 1)}
               /\ issued' = issued + 1
               /\ Answered(rot, "ok", issued + 1)
    <3> PICK row \in RowOf(rot.pair) :
               /\ rows' = (rows \ {row}) \cup {Rotated(row, issued + 1)}
               /\ issued' = issued + 1
               /\ Answered(rot, "ok", issued + 1)
      BY <2>1
    <3>1. row \in rows /\ row \in Row /\ row.cur < issued + 1 /\ issued + 1 \in Pairs
      BY DEF RowOf, TypeOK, Row, Pairs
    <3>2. /\ Rotated(row, issued + 1) \in Row
          /\ Rotated(row, issued + 1).cur = issued + 1
          /\ Rotated(row, issued + 1).prev = row.cur
      BY <3>1, RotatedType
    <3>3. rows' \subseteq Row /\ \A x \in rows' : x.cur <= issued' /\ x.prev < x.cur
      BY <3>1, <3>2 DEF TypeOK, Row, Pairs
    <3>4. issued + 1 \in Nat /\ issued <= issued + 1 /\ issued + 1 \in 0 .. issued + 1
      BY <3>1 DEF TypeOK, Pairs
    <3>5. rotations' \subseteq RotationCalls(issued')
      BY <3>4, CallsGrow, AnsweredType
    <3>6. /\ stored \in 0 .. issued'
          /\ requests \in [Requests -> [phase : Phases, pair : 0 .. issued']]
          /\ logouts \subseteq LogoutCalls(issued')
      BY <3>4, CallsGrow
    <3>7. UNCHANGED <<stored, loggedIn, requests, logouts>>
      BY <1>1 DEF RotateToken
    <3>8. loggedIn' \in [Clients -> BOOLEAN] /\ issued' \in Pairs
      BY <3>1, <3>7 DEF TypeOK
    <3> QED
      BY <3>3, <3>5, <3>6, <3>7, <3>8 DEF TypeOK, RotationCalls, LogoutCalls
  <2>2. CASE UNCHANGED Server /\ \E row \in RowOf(rot.pair) : Answered(rot, "ok", row.cur)
    <3> PICK row \in RowOf(rot.pair) : Answered(rot, "ok", row.cur)
      BY <2>2
    <3>1. row.cur \in 0 .. issued /\ issued \in Nat
      BY DEF TypeOK, RowOf, Row, Pairs
    <3>2. rotations' \subseteq RotationCalls(issued)
      BY <3>1, AnsweredType DEF TypeOK, RotationCalls
    <3> QED
      BY <1>1, <2>2, <3>2 DEF TypeOK, RotateToken, Server, RotationCalls
  <2>3. CASE UNCHANGED Server /\ Answered(rot, "refused", 0)
    <3>1. 0 \in 0 .. issued /\ issued \in Nat
      BY DEF TypeOK, Pairs
    <3>2. rotations' \subseteq RotationCalls(issued)
      BY <2>3, <3>1, AnsweredType DEF TypeOK, RotationCalls
    <3> QED
      BY <1>1, <2>3, <3>2 DEF TypeOK, RotateToken, Server, RotationCalls
  <2> QED
    BY <1>1, <2>1, <2>2, <2>3 DEF RotateToken
<1>2. ASSUME NEW out \in logouts, DeleteToken(out) PROVE TypeOK'
  BY <1>2 DEF TypeOK, DeleteToken
<1>3. ASSUME NEW r \in Requests, Serve(r) PROVE TypeOK'
  BY <1>3 DEF TypeOK, Serve, Phases
<1>4. ASSUME NEW c \in Clients, Login(c) PROVE TypeOK'
  <2>1. /\ NewRow(issued + 1) \in Row
        /\ NewRow(issued + 1).cur = issued + 1
        /\ NewRow(issued + 1).prev = 0
    BY NewRowType DEF TypeOK, Pairs
  <2>2. rows' \subseteq Row /\ \A x \in rows' : x.cur <= issued' /\ x.prev < x.cur
    BY <1>4, <2>1 DEF TypeOK, Login, Row, Pairs
  <2> QED
    BY <1>4, <2>2 DEF TypeOK, Login, Pairs
<1>5. ASSUME NEW row \in rows, End(row) PROVE TypeOK'
  BY <1>5 DEF TypeOK, End
<1>6. ASSUME NEW row \in rows, IntervalPasses(row) PROVE TypeOK'
  BY <1>6 DEF TypeOK, IntervalPasses, Row
<1>7. ASSUME NEW row \in rows, DurationPasses(row) PROVE TypeOK'
  BY <1>7 DEF TypeOK, DurationPasses, Row
<1> QED
  BY <1>1, <1>2, <1>3, <1>4, <1>5, <1>6, <1>7 DEF Time

\* The calls that a run of Logout makes.
LEMMA LogoutType ==
  ASSUME TypeOK, NEW c \in Clients \cup {Gone},
         NEW callers \in SUBSET (Requests \cup {"rotate", "user"})
  PROVE  LogoutOf(c, callers) \subseteq LogoutCalls(issued)
BY DEF TypeOK, LogoutOf, LogoutCalls

\* A rejected promise of a rotation.
LEMMA RotationFailsType ==
  ASSUME TypeOK, NEW rot \in rotations, RotationFails(rot)
  PROVE  TypeOK'
<1>1. rot.client \in Clients \cup {Gone}
  BY DEF TypeOK
<1>2. Waiters(rot) \cup (IF rot.phase = "refused" /\ rot.pair # 0 THEN {"rotate"} ELSE {})
        \in SUBSET (Requests \cup {"rotate", "user"})
  BY DEF Waiters
<1>3. logouts' \subseteq LogoutCalls(issued)
  BY <1>1, <1>2, LogoutType DEF RotationFails, TypeOK, LogoutCalls
<1>4. requests' \in [Requests -> [phase : Phases, pair : 0 .. issued]]
  BY DEF RotationFails, TypeOK, Phases, Settled
<1> QED
  BY <1>3, <1>4 DEF RotationFails, TypeOK, LogoutCalls

\* The rest of Logout.
LEMMA ClearStorageType ==
  ASSUME TypeOK, NEW out \in logouts, ClearStorage(out)
  PROVE  TypeOK'
<1>1. stored' \in 0 .. issued
  BY DEF ClearStorage, TypeOK, Pairs
<1>2. loggedIn' \in [Clients -> BOOLEAN]
  BY DEF ClearStorage, TypeOK
<1> QED
  BY <1>1, <1>2 DEF ClearStorage, TypeOK

\* What is left of the calls of a page that is reloaded.
LEMMA GonesType ==
  ASSUME NEW n, NEW S, S \subseteq RotationCalls(n) \/ S \subseteq LogoutCalls(n)
  PROVE  /\ S \subseteq RotationCalls(n) => Gones(S) \subseteq RotationCalls(n)
         /\ S \subseteq LogoutCalls(n) => Gones(S) \subseteq LogoutCalls(n)
BY DEF Gones, RotationCalls, LogoutCalls

\* The steps of the browser, the user and the network.
LEMMA BrowserType ==
  ASSUME TypeOK,
         \/ \E r \in Requests : \/ Send(r) \/ Succeed(r) \/ Refused(r)
                               \/ RefusedAgain(r) \/ LoseRequest(r)
         \/ \E rot \in rotations : RotationOk(rot) \/ RotationRefused(rot) \/ LoseRotation(rot)
         \/ \E out \in logouts : LogoutAnswered(out) \/ LoseLogout(out)
         \/ \E c \in Clients : UserLogout(c) \/ Reload(c)
  PROVE  TypeOK'
<1>1. ASSUME NEW r \in Requests, Send(r) PROVE TypeOK'
  BY <1>1 DEF TypeOK, Send, Phases
<1>2. ASSUME NEW r \in Requests, Succeed(r) PROVE TypeOK'
  BY <1>2 DEF TypeOK, Succeed, Phases, Settled
<1>3. ASSUME NEW r \in Requests, Refused(r) PROVE TypeOK'
  <2>1. ClientOf[r] \in Clients /\ 0 \in 0 .. issued
    BY ClientsAssumption DEF TypeOK, Pairs
  <2>2. Rotation(ClientOf[r], stored) \in RotationCalls(issued)
    BY <2>1 DEF Rotation, RotationCalls, TypeOK
  <2>3. rotations' \subseteq RotationCalls(issued)
    BY <1>3, <2>2 DEF Refused, TypeOK, RotationCalls
  <2>4. requests' \in [Requests -> [phase : Phases, pair : 0 .. issued]]
    BY <1>3 DEF Refused, TypeOK, Phases
  <2> QED
    BY <1>3, <2>3, <2>4 DEF Refused, TypeOK, RotationCalls
<1>4. ASSUME NEW r \in Requests, RefusedAgain(r) PROVE TypeOK'
  <2>1. ClientOf[r] \in Clients /\ {r} \in SUBSET (Requests \cup {"rotate", "user"})
    BY ClientsAssumption
  <2>2. logouts' \subseteq LogoutCalls(issued)
    BY <1>4, <2>1, LogoutType DEF RefusedAgain, TypeOK, LogoutCalls
  <2> QED
    BY <1>4, <2>2 DEF RefusedAgain, TypeOK, LogoutCalls, Phases, Settled
<1>5. ASSUME NEW r \in Requests, LoseRequest(r) PROVE TypeOK'
  BY <1>5 DEF TypeOK, LoseRequest, Phases, Settled
<1>6. ASSUME NEW rot \in rotations, RotationOk(rot) PROVE TypeOK'
  <2>1. rot.answer \in 0 .. issued
    BY DEF TypeOK
  <2>2. requests' \in [Requests -> [phase : Phases, pair : 0 .. issued]]
    BY <1>6, <2>1 DEF RotationOk, TypeOK, Phases
  <2> QED
    BY <1>6, <2>1, <2>2 DEF RotationOk, TypeOK
<1>7. ASSUME NEW rot \in rotations, RotationRefused(rot) \/ LoseRotation(rot) PROVE TypeOK'
  BY <1>7, RotationFailsType DEF RotationRefused, LoseRotation
<1>8. ASSUME NEW out \in logouts, LogoutAnswered(out) \/ LoseLogout(out) PROVE TypeOK'
  BY <1>8, ClearStorageType DEF LogoutAnswered, LoseLogout
<1>9. ASSUME NEW c \in Clients, UserLogout(c) PROVE TypeOK'
  <2>1. {"user"} \in SUBSET (Requests \cup {"rotate", "user"})
    OBVIOUS
  <2>2. logouts' \subseteq LogoutCalls(issued)
    BY <1>9, <2>1, LogoutType DEF UserLogout, TypeOK, LogoutCalls
  <2> QED
    BY <1>9, <2>2 DEF UserLogout, TypeOK, LogoutCalls
<1>10. ASSUME NEW c \in Clients, Reload(c) PROVE TypeOK'
  <2>1. rotations \subseteq RotationCalls(issued) /\ logouts \subseteq LogoutCalls(issued)
    BY DEF TypeOK, RotationCalls, LogoutCalls
  <2>2. rotations' \subseteq RotationCalls(issued)
    <3>1. Gones({k \in rotations : k.client = c}) \subseteq RotationCalls(issued)
      BY <2>1, GonesType
    <3> QED
      BY <1>10, <2>1, <3>1 DEF Reload
  <2>3. logouts' \subseteq LogoutCalls(issued)
    <3>1. Gones({k \in logouts : k.client = c}) \subseteq LogoutCalls(issued)
      BY <2>1, GonesType
    <3> QED
      BY <1>10, <2>1, <3>1 DEF Reload
  <2>4. requests' \in [Requests -> [phase : Phases, pair : 0 .. issued]]
    BY <1>10 DEF Reload, TypeOK, Phases, Settled
  <2>5. loggedIn' \in [Clients -> BOOLEAN]
    BY <1>10 DEF Reload, TypeOK
  <2> QED
    BY <1>10, <2>2, <2>3, <2>4, <2>5 DEF Reload, TypeOK, RotationCalls, LogoutCalls
<1> QED
  BY <1>1, <1>2, <1>3, <1>4, <1>5, <1>6, <1>7, <1>8, <1>9, <1>10

\* Every step keeps the types.
LEMMA TypeNext == TypeOK /\ [Next]_vars => TypeOK'
<1> SUFFICES ASSUME TypeOK, [Next]_vars PROVE TypeOK'
  OBVIOUS
<1>1. CASE UNCHANGED vars
  BY <1>1 DEF vars, TypeOK
<1>2. CASE Next
  BY <1>2, ServerType, BrowserType DEF Next, Calls, User, Network, Time
<1> QED
  BY <1>1, <1>2

\* The rows, the storage and the calls keep their shape, and no tab and no call
\* ever holds a pair that the tokenizer has not issued (RotateToken, CreateToken,
\* interceptorRejected, Logout): whatever is lost, reloaded or signed out.
THEOREM TypeCorrect == Spec => []TypeOK
BY TypeInit, TypeNext, PTL DEF Spec
-----------------------------------------------------------------------------
(* The chain of a session.                                                 *)

\* The pairs of a session are issued, and its current pair is the newest.
LEMMA ChainBounds ==
  ASSUME TypeOK, PastOlder, NEW row \in rows
  PROVE  /\ row.cur \in Chain(row)
         /\ row.prev # 0 => row.prev \in Chain(row)
         /\ \A p \in Chain(row) : p \in Nat /\ 0 < p /\ p <= row.cur /\ p <= issued
<1>1. /\ row.cur \in Nat /\ 0 < row.cur /\ row.prev \in Nat /\ row.prev < row.cur
      /\ row.cur <= issued /\ issued \in Nat /\ row.past \subseteq Nat
  BY DEF TypeOK, Row, Pairs
<1>2. \A p \in row.past : p \in Nat /\ 0 < p /\ p < row.prev
  BY <1>1 DEF PastOlder
<1> QED
  BY <1>1, <1>2 DEF Chain

\* The pairs of the calls are issued.
LEMMA CallBounds ==
  ASSUME TypeOK
  PROVE  /\ issued \in Nat /\ stored \in Nat /\ stored <= issued
         /\ \A rot \in rotations : /\ rot \in RotationCalls(issued)
                                   /\ rot.pair \in Nat /\ rot.pair <= issued
                                   /\ rot.answer \in Nat /\ rot.answer <= issued
BY DEF TypeOK, Pairs, RotationCalls

\* The first sign-in.
LEMMA ChainInit == Init => ChainInv
BY DEF Init, NewRow, ChainInv, RowsApart, PastOlder, StoredRecent, MineRecent,
       MineAlone, GoneOlder, GoneUnheard, Chain, Latest

\* A step that only ends sessions and calls, or clears the storage.
LEMMA ChainShrinks ==
  ASSUME TypeOK, ChainInv, rows' \subseteq rows, rotations' \subseteq rotations,
         stored' \in {stored, 0}
  PROVE  ChainInv'
<1>1. \A row \in rows : 0 \notin Chain(row)
  BY ChainBounds DEF ChainInv
<1>2. \A row \in rows' : row \in rows /\ (stored' \in Chain(row) => stored' = stored)
  BY <1>1
<1>3. RowsApart' /\ PastOlder'
  BY <1>2 DEF ChainInv, RowsApart, PastOlder, Chain
<1>4. StoredRecent'
  BY <1>2 DEF ChainInv, StoredRecent, Chain, Latest
<1>5. MineRecent' /\ GoneUnheard'
  BY <1>2 DEF ChainInv, MineRecent, GoneUnheard, Mine, Chain, Latest
<1>6. MineAlone'
  BY <1>2 DEF ChainInv, MineAlone, Mine, Chain
<1>7. GoneOlder'
  BY <1>2 DEF ChainInv, GoneOlder, Mine, Chain
<1> QED
  BY <1>3, <1>4, <1>5, <1>6, <1>7 DEF ChainInv

\* A step that changes a session in nothing but its times.
LEMMA ChainFlags ==
  ASSUME TypeOK, ChainInv, NEW row \in rows, NEW new,
         rows' = (rows \ {row}) \cup {new},
         new.cur = row.cur, new.prev = row.prev, new.past = row.past,
         rotations' = rotations, stored' = stored
  PROVE  ChainInv'
<1>1. Chain(new) = Chain(row) /\ Latest(new) = Latest(row)
  BY DEF Chain, Latest
<1>2. RowsApart'
  BY <1>1 DEF ChainInv, RowsApart
<1>3. PastOlder'
  BY DEF ChainInv, PastOlder
<1>4. StoredRecent'
  BY <1>1 DEF ChainInv, StoredRecent
<1>5. MineRecent' /\ GoneUnheard'
  BY <1>1 DEF ChainInv, MineRecent, GoneUnheard, Mine
<1>6. MineAlone'
  BY <1>1 DEF ChainInv, MineAlone, Mine
<1>7. GoneOlder'
  BY <1>1 DEF ChainInv, GoneOlder, Mine
<1> QED
  BY <1>2, <1>3, <1>4, <1>5, <1>6, <1>7 DEF ChainInv
\* RotateToken on the current pair: the chain grows by the pair it issues.
LEMMA ChainRotates ==
  ASSUME TypeOK, ChainInv, NEW rot \in rotations, NEW row \in rows,
         row.cur = rot.pair,
         rows' = (rows \ {row}) \cup {Rotated(row, issued + 1)},
         Answered(rot, "ok", issued + 1), stored' = stored
  PROVE  ChainInv'
<1> DEFINE n == issued + 1
           new == Rotated(row, n)
           heard == [rot EXCEPT !.phase = "ok", !.answer = n]
<1>1. /\ new.cur = n /\ new.prev = row.cur
      /\ new.past = (row.past \cup {row.prev}) \ {0}
  BY DEF Rotated
<1>2. /\ row.cur \in Nat /\ 0 < row.cur /\ row.prev \in Nat /\ row.prev < row.cur
      /\ issued \in Nat /\ row.cur <= issued
  BY DEF TypeOK, Row, Pairs
<1>3. Chain(new) = Chain(row) \cup {n} /\ Latest(new) = {n, row.cur}
  BY <1>1, <1>2 DEF ChainInv, PastOlder, Chain, Latest
<1>4. /\ \A b \in rows : n \notin Chain(b)
      /\ stored # n /\ \A k \in rotations : k.pair # n /\ k.answer # n
  BY <1>2, ChainBounds, CallBounds DEF ChainInv
<1>5. /\ heard.pair = row.cur /\ heard.client = rot.client
      /\ heard.phase = "ok" /\ heard.answer = n
  BY CallBounds DEF RotationCalls
<1>6. row.cur \in Chain(row) /\ \A p \in Chain(row) : p \in Nat /\ p <= row.cur
  BY ChainBounds DEF ChainInv
<1>7. /\ \A k \in rotations' : (k \in rotations /\ k # rot) \/ (k = heard /\ Mine(rot))
      /\ \A b \in rows' : (b \in rows /\ b # row) \/ b = new
  BY DEF Answered, Mine
\* The page that rotates, or the one that is open now, has the current pair.
<1>8. stored \in Chain(row) => stored = row.cur
  BY <1>2, <1>6 DEF ChainInv, MineAlone, GoneOlder, Mine
<1>9. \A k \in rotations : Mine(k) /\ k.pair \in Chain(row) /\ k # rot =>
         ~Mine(rot) /\ k.pair = row.cur
  BY <1>2, <1>6 DEF ChainInv, MineAlone, GoneOlder, Mine
<1>10. \A b \in rows : b # row => Chain(b) \cap Chain(row) = {}
  BY DEF ChainInv, RowsApart
<1>11. RowsApart'
  BY <1>3, <1>4, <1>7, <1>10 DEF ChainInv, RowsApart
<1>12. PastOlder'
  BY <1>1, <1>2, <1>7 DEF ChainInv, PastOlder, TypeOK, Row
<1>13. StoredRecent'
  BY <1>3, <1>4, <1>7, <1>8 DEF ChainInv, StoredRecent
<1>14. MineRecent'
  <2> SUFFICES ASSUME NEW b \in rows', NEW k \in rotations', Mine(k)
               PROVE  /\ k.pair \in Chain(b) =>
                           /\ k.pair \in Latest(b)
                           /\ k.phase = "ok" => k.pair = b.prev /\ k.answer = b.cur
                      /\ k.phase = "ok" /\ k.answer \in Chain(b) => k.pair \in Chain(b)
    BY DEF MineRecent, Mine
  <2>1. CASE b = new /\ k = heard
    BY <1>1, <1>3, <1>5, <1>6, <2>1
  <2>2. CASE b = new /\ k \in rotations /\ k # rot
    BY <1>1, <1>2, <1>3, <1>4, <1>6, <1>9, <2>2 DEF ChainInv, MineRecent
  <2>3. CASE b \in rows /\ b # row /\ k = heard
    BY <1>4, <1>5, <1>6, <1>10, <2>3
  <2>4. CASE b \in rows /\ k \in rotations
    BY <2>4 DEF ChainInv, MineRecent
  <2> QED
    BY <1>7, <2>1, <2>2, <2>3, <2>4
<1>15. MineAlone'
  <2> SUFFICES ASSUME NEW b \in rows', NEW k \in rotations', Mine(k), k.pair \in Chain(b)
               PROVE  /\ stored \in Chain(b) => stored = k.pair
                      /\ \A l \in rotations' : Mine(l) /\ l.pair \in Chain(b) => l = k
    BY DEF MineAlone, Mine
  <2>1. CASE b = new
    <3>1. k.pair \in Chain(row)
      BY <1>3, <1>4, <1>5, <1>6, <1>7, <2>1
    <3>2. stored \in Chain(b) => stored = k.pair
      BY <1>3, <1>4, <1>5, <1>7, <1>8, <1>9, <2>1, <3>1
    <3>3. ASSUME NEW l \in rotations', Mine(l), l.pair \in Chain(b) PROVE l = k
      <4>1. l.pair \in Chain(row)
        BY <1>3, <1>4, <1>5, <1>6, <1>7, <2>1, <3>3
      <4> QED
        BY <1>7, <1>9, <3>1, <3>3, <4>1 DEF ChainInv, MineAlone
    <3> QED
      BY <3>2, <3>3
  <2>2. CASE b \in rows /\ b # row
    <3>1. \A l \in rotations' : l.pair \in Chain(b) => l \in rotations
      BY <1>5, <1>6, <1>7, <1>10, <2>2
    <3> QED
      BY <2>2, <3>1 DEF ChainInv, MineAlone
  <2> QED
    BY <1>7, <2>1, <2>2
<1>16. GoneOlder'
  <2> SUFFICES ASSUME NEW b \in rows', NEW g \in rotations', ~Mine(g), g.pair \in Chain(b)
               PROVE  /\ stored \in Chain(b) => g.pair <= stored
                      /\ \A k \in rotations' : Mine(k) /\ k.pair \in Chain(b) => g.pair <= k.pair
    BY DEF GoneOlder, Mine
  <2>1. g \in rotations
    BY <1>5, <1>7 DEF Mine
  <2>2. CASE b = new
    <3>1. g.pair \in Chain(row)
      BY <1>3, <1>4, <2>1, <2>2
    <3>2. stored \in Chain(b) => g.pair <= stored
      BY <1>3, <1>4, <2>1, <2>2, <3>1 DEF ChainInv, GoneOlder
    <3>3. ASSUME NEW k \in rotations', Mine(k), k.pair \in Chain(b) PROVE g.pair <= k.pair
      <4>1. CASE k = heard
        BY <1>5, <1>6, <3>1, <4>1
      <4>2. CASE k \in rotations
        BY <1>3, <1>4, <2>1, <2>2, <3>1, <3>3, <4>2 DEF ChainInv, GoneOlder
      <4> QED
        BY <1>7, <4>1, <4>2
    <3> QED
      BY <3>2, <3>3
  <2>3. CASE b \in rows /\ b # row
    <3>1. \A k \in rotations' : k.pair \in Chain(b) => k \in rotations
      BY <1>5, <1>6, <1>7, <1>10, <2>3
    <3> QED
      BY <2>1, <2>3, <3>1 DEF ChainInv, GoneOlder
  <2> QED
    BY <1>7, <2>2, <2>3
<1>17. GoneUnheard'
  BY <1>5, <1>7 DEF ChainInv, GoneUnheard, Mine
<1> QED
  BY <1>11, <1>12, <1>13, <1>14, <1>15, <1>16, <1>17 DEF ChainInv

\* RotateToken on another pair: it returns the current pair for the previous one,
\* or refuses.
LEMMA ChainAnswered ==
  ASSUME TypeOK, ChainInv, NEW rot \in rotations, NEW result, NEW p,
         Answered(rot, result, p), rows' = rows, stored' = stored,
         result = "ok" => \E row \in rows : /\ rot.pair # 0 /\ row.prev = rot.pair
                                            /\ p = row.cur
  PROVE  ChainInv'
<1> DEFINE heard == [rot EXCEPT !.phase = result, !.answer = p]
<1>1. /\ heard.pair = rot.pair /\ heard.client = rot.client
      /\ heard.phase = result /\ heard.answer = p
  BY CallBounds DEF RotationCalls
<1>2. \A k \in rotations' : (k \in rotations /\ k # rot) \/ (k = heard /\ Mine(rot))
  BY DEF Answered, Mine
<1>3. RowsApart' /\ PastOlder' /\ StoredRecent'
  BY DEF ChainInv, RowsApart, PastOlder, StoredRecent
<1>4. MineRecent'
  <2> SUFFICES ASSUME NEW b \in rows, NEW k \in rotations', Mine(k)
               PROVE  /\ k.pair \in Chain(b) =>
                           /\ k.pair \in Latest(b)
                           /\ k.phase = "ok" => k.pair = b.prev /\ k.answer = b.cur
                      /\ k.phase = "ok" /\ k.answer \in Chain(b) => k.pair \in Chain(b)
    BY DEF MineRecent, Mine
  <2>1. CASE k \in rotations
    BY <2>1 DEF ChainInv, MineRecent
  <2>2. CASE k = heard /\ Mine(rot) /\ result # "ok"
    BY <1>1, <2>2 DEF ChainInv, MineRecent
  <2>3. CASE k = heard /\ Mine(rot) /\ result = "ok"
    <3>1. PICK row \in rows : rot.pair # 0 /\ row.prev = rot.pair /\ p = row.cur
      BY <2>3
    <3>2. row.cur \in Chain(row) /\ row.prev \in Chain(row)
      BY <3>1, ChainBounds DEF ChainInv
    <3>3. CASE b = row
      BY <1>1, <2>3, <3>1, <3>2, <3>3 DEF Latest
    <3>4. CASE b # row
      BY <1>1, <2>3, <3>1, <3>2, <3>4 DEF ChainInv, RowsApart
    <3> QED
      BY <3>3, <3>4
  <2> QED
    BY <1>2, <2>1, <2>2, <2>3
<1>5. MineAlone'
  <2> SUFFICES ASSUME NEW b \in rows, NEW k \in rotations', Mine(k), k.pair \in Chain(b)
               PROVE  /\ stored \in Chain(b) => stored = k.pair
                      /\ \A l \in rotations' : Mine(l) /\ l.pair \in Chain(b) => l = k
    BY DEF MineAlone, Mine
  <2>1. CASE Mine(rot) /\ rot.pair \in Chain(b)
    <3>1. \A l \in rotations' : Mine(l) /\ l.pair \in Chain(b) => l = heard
      BY <1>2, <2>1 DEF ChainInv, MineAlone
    <3> QED
      BY <1>1, <2>1, <3>1 DEF ChainInv, MineAlone
  <2>2. CASE ~(Mine(rot) /\ rot.pair \in Chain(b))
    <3>1. \A l \in rotations' : l.pair \in Chain(b) => l \in rotations
      BY <1>1, <1>2, <2>2
    <3> QED
      BY <3>1 DEF ChainInv, MineAlone
  <2> QED
    BY <2>1, <2>2
<1>6. GoneOlder'
  <2> SUFFICES ASSUME NEW b \in rows, NEW k \in rotations', ~Mine(k), k.pair \in Chain(b)
               PROVE  /\ stored \in Chain(b) => k.pair <= stored
                      /\ \A l \in rotations' :
                           Mine(l) /\ l.pair \in Chain(b) => k.pair <= l.pair
    BY DEF GoneOlder, Mine
  <2>1. k \in rotations
    BY <1>1, <1>2 DEF Mine
  <2>2. /\ stored \in Chain(b) => k.pair <= stored
        /\ \A l \in rotations : Mine(l) /\ l.pair \in Chain(b) => k.pair <= l.pair
    BY <2>1 DEF ChainInv, GoneOlder
  <2> HIDE DEF heard
  <2>3. \A l \in rotations' : l \in rotations \/ (l.pair = rot.pair /\ Mine(rot))
    BY <1>1, <1>2
  <2> QED
    BY <2>2, <2>3
<1>7. GoneUnheard'
  BY <1>1, <1>2 DEF ChainInv, GoneUnheard, Mine
<1> QED
  BY <1>3, <1>4, <1>5, <1>6, <1>7 DEF ChainInv

\* The promise of a rotation is fulfilled: the storage has the current pair.
LEMMA ChainStored ==
  ASSUME TypeOK, ChainInv, NEW rot \in rotations, RotationOk(rot)
  PROVE  ChainInv'
<1>1. /\ rot.phase = "ok" /\ Mine(rot) /\ rows' = rows
      /\ stored' = rot.answer /\ rotations' = rotations \ {rot}
  BY DEF RotationOk, ChainInv, GoneUnheard
<1>2. \A row \in rows : stored' \in Chain(row) =>
         rot.pair \in Chain(row) /\ rot.pair = row.prev /\ stored' = row.cur
  BY <1>1 DEF ChainInv, MineRecent
<1>3. \A row \in rows : /\ row.prev < row.cur /\ row.prev \in Nat /\ row.cur \in Nat
                        /\ \A q \in Chain(row) : q \in Nat
  BY ChainBounds DEF TypeOK, Row, Pairs, ChainInv
<1>4. RowsApart' /\ PastOlder'
  BY <1>1 DEF ChainInv, RowsApart, PastOlder
<1>5. StoredRecent'
  BY <1>1, <1>2 DEF StoredRecent, Latest
<1>6. MineRecent' /\ GoneUnheard'
  BY <1>1 DEF ChainInv, MineRecent, GoneUnheard, Mine
<1>7. MineAlone'
  BY <1>1, <1>2 DEF ChainInv, MineAlone, Mine
<1>8. GoneOlder'
  <2> SUFFICES ASSUME NEW b \in rows, NEW g \in rotations, ~Mine(g), g.pair \in Chain(b)
               PROVE  /\ stored' \in Chain(b) => g.pair <= stored'
                      /\ \A k \in rotations : Mine(k) /\ k.pair \in Chain(b) => g.pair <= k.pair
    BY <1>1 DEF GoneOlder, Mine
  <2>1. stored' \in Chain(b) => g.pair <= rot.pair
    BY <1>1, <1>2 DEF ChainInv, GoneOlder
  <2> QED
    BY <1>2, <1>3, <2>1 DEF ChainInv, GoneOlder
<1> QED
  BY <1>4, <1>5, <1>6, <1>7, <1>8 DEF ChainInv

\* A refused call of the only tab joins the rotation in flight, or starts one.
LEMMA ChainStarts ==
  ASSUME SingleTab, TypeOK, ChainInv, NEW r \in Requests, Refused(r)
  PROVE  ChainInv'
<1> DEFINE c == ClientOf[r]
           new == Rotation(c, stored)
<1>1. c \in Clients /\ c # Gone
  BY ClientsAssumption
<1>2. CASE InFlight(c, stored)
  <2>1. rows' = rows /\ rotations' = rotations /\ stored' = stored
    BY <1>2 DEF Refused
  <2> QED
    BY <2>1, ChainShrinks
<1>3. CASE ~InFlight(c, stored)
  <2>1. rows' = rows /\ rotations' = rotations \cup {new} /\ stored' = stored
    BY <1>3 DEF Refused
  <2>2. new.pair = stored /\ new.phase = "sent" /\ Mine(new)
    BY <1>1 DEF Rotation, Mine
  <2>3. \A k \in rotations : Mine(k) => k.client = c
    BY <1>1 DEF SingleTab, TypeOK, Mine
  <2>4. \A row \in rows, k \in rotations :
          stored \in Chain(row) /\ k.pair \in Chain(row) => ~Mine(k)
    BY <1>3, <2>3 DEF ChainInv, MineAlone, InFlight
  <2>5. RowsApart' /\ PastOlder' /\ StoredRecent'
    BY <2>1 DEF ChainInv, RowsApart, PastOlder, StoredRecent
  <2>6. MineRecent'
    BY <2>1, <2>2 DEF ChainInv, MineRecent, StoredRecent, Mine
  <2>7. MineAlone'
    BY <2>1, <2>2, <2>4 DEF ChainInv, MineAlone, Mine
  <2>8. GoneOlder' /\ GoneUnheard'
    BY <2>1, <2>2 DEF ChainInv, GoneOlder, GoneUnheard, Mine
  <2> QED
    BY <2>5, <2>6, <2>7, <2>8 DEF ChainInv
<1> QED
  BY <1>2, <1>3

\* A new sign-in is a chain of its own.
LEMMA ChainLogin ==
  ASSUME TypeOK, ChainInv, NEW c \in Clients, Login(c)
  PROVE  ChainInv'
<1> DEFINE n == issued + 1
           new == NewRow(n)
<1>1. rows' = rows \cup {new} /\ stored' = n /\ rotations' = rotations
  BY DEF Login
<1>2. issued \in Nat
  BY CallBounds
<1>3. Chain(new) = {n} /\ n \in Latest(new) /\ new.past = {}
  BY <1>2 DEF NewRow, Chain, Latest
<1>4. /\ \A b \in rows : n \notin Chain(b)
      /\ \A k \in rotations : k.pair # n /\ k.answer # n
  BY <1>2, ChainBounds, CallBounds DEF ChainInv
<1>5. RowsApart'
  BY <1>1, <1>3, <1>4 DEF ChainInv, RowsApart
<1>6. PastOlder'
  BY <1>1, <1>3 DEF ChainInv, PastOlder
<1>7. StoredRecent'
  BY <1>1, <1>3, <1>4 DEF StoredRecent
<1>8. MineRecent' /\ GoneUnheard'
  BY <1>1, <1>3, <1>4 DEF ChainInv, MineRecent, GoneUnheard, Mine
<1>9. MineAlone'
  BY <1>1, <1>3, <1>4 DEF ChainInv, MineAlone, Mine
<1>10. GoneOlder'
  BY <1>1, <1>3, <1>4 DEF ChainInv, GoneOlder, Mine
<1> QED
  BY <1>5, <1>6, <1>7, <1>8, <1>9, <1>10 DEF ChainInv

\* A reload of the only tab leaves no rotation that anybody waits for.
LEMMA ChainReload ==
  ASSUME SingleTab, TypeOK, ChainInv, NEW c \in Clients, Reload(c)
  PROVE  ChainInv'
<1> DEFINE page == {k \in rotations : k.client = c}
<1>1. /\ rows' = rows /\ stored' = stored
      /\ rotations' = (rotations \ page) \cup Gones(page)
  BY DEF Reload
<1>2. \A k \in rotations : k \notin page => ~Mine(k)
  BY DEF SingleTab, TypeOK, Mine
<1>3. \A k \in page : Mine(k)
  BY ClientsAssumption DEF Mine
<1>4. \A g \in Gones(page) :
         /\ ~Mine(g) /\ g.phase = "sent"
         /\ \E k \in page : g.pair = k.pair
  BY CallBounds DEF Gones, RotationCalls, Mine
<1>5. \A g \in rotations' : ~Mine(g)
  BY <1>1, <1>2, <1>4
<1>6. RowsApart' /\ PastOlder' /\ StoredRecent'
  BY <1>1 DEF ChainInv, RowsApart, PastOlder, StoredRecent
<1>7. MineRecent' /\ MineAlone'
  BY <1>5 DEF MineRecent, MineAlone, Mine
<1>8. GoneUnheard'
  BY <1>1, <1>4 DEF ChainInv, GoneUnheard, Mine
<1>9. GoneOlder'
  <2> SUFFICES ASSUME NEW b \in rows, NEW g \in rotations', g.pair \in Chain(b),
                      stored \in Chain(b)
               PROVE  g.pair <= stored
    BY <1>1, <1>5 DEF GoneOlder, Mine
  <2>1. CASE g \in Gones(page)
    <3>1. PICK k \in page : g.pair = k.pair
      BY <1>4, <2>1
    <3>2. stored = g.pair
      BY <1>3, <3>1 DEF ChainInv, MineAlone
    <3> QED
      BY <3>2, CallBounds
  <2>2. CASE g \in rotations /\ ~Mine(g)
    BY <2>2 DEF ChainInv, GoneOlder
  <2> QED
    BY <1>1, <1>2, <2>1, <2>2
<1> QED
  BY <1>6, <1>7, <1>8, <1>9 DEF ChainInv

\* Every step of the only tab, of its server and of the network keeps ChainInv.
LEMMA ChainNext ==
  ASSUME SingleTab, TypeOK, ChainInv, [Next]_vars
  PROVE  ChainInv'
<1>1. CASE UNCHANGED vars
  BY <1>1, ChainShrinks DEF vars
<1>2. ASSUME NEW r \in Requests, Serve(r) \/ Succeed(r) \/ RefusedAgain(r) \/ Send(r)
                                  \/ LoseRequest(r)
      PROVE  ChainInv'
  <2>1. rows' = rows /\ rotations' = rotations /\ stored' = stored
    BY <1>2 DEF Serve, Succeed, RefusedAgain, Send, LoseRequest
  <2> QED
    BY <2>1, ChainShrinks
<1>3. ASSUME NEW rot \in rotations, RotateToken(rot) PROVE ChainInv'
  <2>1. stored' = stored
    BY <1>3 DEF RotateToken
  <2>2. CASE \E row \in RowOf(rot.pair) :
               /\ MayRotate(row, rot.pair)
               /\ rows' = (rows \ {row}) \cup {Rotated(row, issued + 1)}
               /\ issued' = issued + 1
               /\ Answered(rot, "ok", issued + 1)
    BY <2>1, <2>2, ChainRotates DEF RowOf, MayRotate
  <2>3. CASE \E row \in RowOf(rot.pair) :
               /\ ReturnsSame(row, rot.pair)
               /\ Answered(rot, "ok", row.cur)
               /\ UNCHANGED Server
    <3>1. PICK row \in RowOf(rot.pair) : /\ row.prev = rot.pair
                                         /\ Answered(rot, "ok", row.cur)
                                         /\ rows' = rows
      BY <2>3 DEF ReturnsSame, Server
    <3>2. row \in rows /\ rot.pair # 0
      BY DEF RowOf
    <3> QED
      BY <2>1, <3>1, <3>2, ChainAnswered
  <2>4. CASE Answered(rot, "refused", 0) /\ UNCHANGED Server
    <3>1. rows' = rows
      BY <2>4 DEF Server
    <3> QED
      BY <2>1, <2>4, <3>1, ChainAnswered
  <2> QED
    BY <1>3, <2>2, <2>3, <2>4 DEF RotateToken
<1>4. ASSUME NEW rot \in rotations, RotationRefused(rot) \/ LoseRotation(rot) PROVE ChainInv'
  <2>1. rows' = rows /\ rotations' \subseteq rotations /\ stored' = stored
    BY <1>4 DEF RotationRefused, LoseRotation, RotationFails
  <2> QED
    BY <2>1, ChainShrinks
<1>5. ASSUME NEW out \in logouts, DeleteToken(out) \/ LogoutAnswered(out) \/ LoseLogout(out)
      PROVE  ChainInv'
  <2>1. rows' \subseteq rows /\ rotations' = rotations /\ stored' \in {stored, 0}
    BY <1>5 DEF DeleteToken, LogoutAnswered, LoseLogout, ClearStorage
  <2> QED
    BY <2>1, ChainShrinks
<1>6. ASSUME NEW c \in Clients, UserLogout(c) PROVE ChainInv'
  <2>1. rows' = rows /\ rotations' = rotations /\ stored' = stored
    BY <1>6 DEF UserLogout
  <2> QED
    BY <2>1, ChainShrinks
<1>7. ASSUME NEW row \in rows, End(row) \/ IntervalPasses(row) \/ DurationPasses(row)
      PROVE  ChainInv'
  <2>1. CASE End(row)
    BY <2>1, ChainShrinks DEF End
  <2>2. CASE IntervalPasses(row)
    <3>1. row \in Row
      BY DEF TypeOK
    <3> DEFINE new == [row EXCEPT !.due = TRUE]
    <3>2. new.cur = row.cur /\ new.prev = row.prev /\ new.past = row.past
      BY <3>1 DEF Row
    <3> QED
      BY <2>2, <3>2, ChainFlags DEF IntervalPasses
  <2>3. CASE DurationPasses(row)
    <3>1. row \in Row
      BY DEF TypeOK
    <3> DEFINE new == [row EXCEPT !.recent = FALSE]
    <3>2. new.cur = row.cur /\ new.prev = row.prev /\ new.past = row.past
      BY <3>1 DEF Row
    <3> QED
      BY <2>3, <3>2, ChainFlags DEF DurationPasses
  <2> QED
    BY <1>7, <2>1, <2>2, <2>3
<1> QED
  BY <1>1, <1>2, <1>3, <1>4, <1>5, <1>6, <1>7,
     ChainStored, ChainStarts, ChainLogin, ChainReload
     DEF Next, Calls, User, Network, Time

\* With one tab open the storage is never two rotations behind the tokenizer, so
\* that the one previous pair that Token.Rotate knows is enough: for any number of
\* calls and sessions, and whatever is lost, reloaded, signed out or evicted
\* (interceptorRejected, afterLogin, RotateToken, Token.Rotate).
THEOREM NeverTwoBehindHolds == SingleTab => (Spec => []NeverTwoBehind)
<1> SUFFICES ASSUME SingleTab PROVE Spec => []NeverTwoBehind
  OBVIOUS
<1>1. Init => TypeOK /\ ChainInv
  BY TypeInit, ChainInit
<1>2. TypeOK /\ ChainInv /\ [Next]_vars => (TypeOK /\ ChainInv)'
  BY TypeNext, ChainNext
<1>3. TypeOK /\ ChainInv => NeverTwoBehind
  <2> SUFFICES ASSUME TypeOK, ChainInv, NEW row \in rows, stored \in row.past PROVE FALSE
    BY DEF NeverTwoBehind
  <2>1. /\ row.prev \in Nat /\ row.cur \in Nat /\ row.prev < row.cur /\ stored \in Nat
        /\ stored < row.prev
    BY CallBounds DEF ChainInv, PastOlder, TypeOK, Row, Pairs
  <2>2. stored = row.cur \/ stored = row.prev
    BY DEF ChainInv, StoredRecent, Chain, Latest
  <2> QED
    BY <2>1, <2>2
<1> QED
  BY <1>1, <1>2, <1>3, PTL DEF Spec
=============================================================================
