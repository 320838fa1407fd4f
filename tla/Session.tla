------------------------------ MODULE Session ------------------------------
(***************************************************************************)
(* The session of a browser and the opaque tokenizer that holds it:        *)
(* frontend/src/api/index.ts (the axios interceptors), api/utils.ts        *)
(* (Logout), AppRoutes/utils.ts (afterLogin), and, on the server,          *)
(* pkg/tokenizer/opaquetokenizer and pkg/types/authtypes/token.go.         *)
(*                                                                         *)
(* A pair of an access and a refresh token is a number: both are issued,   *)
(* stored and cleared together.  0 is the empty storage.  A client is a    *)
(* tab: it has a react-query client of its own, and shares the local       *)
(* storage with the other tabs.                                            *)
(***************************************************************************)
EXTENDS Integers, FiniteSets

CONSTANTS Clients,    \* the tabs over one local storage
          Requests,   \* the API calls of this behaviour, each made once
          ClientOf,   \* the client that makes each of them
          Gone,       \* stands for the client of a call whose page was reloaded
          Budget      \* bounds: how often the environment acts

ASSUME ClientsAssumption ==
  /\ ClientOf \in [Requests -> Clients]
  /\ Gone \notin Clients

ASSUME BudgetAssumption ==
  Budget \in [losses : Nat, ends : Nat, reloads : Nat, logins : Nat]

VARIABLES rows,       \* auth_token: the user's sessions on the server
          issued,     \* how many pairs the server has issued
          stored,     \* localStorage: AUTH_TOKEN and REFRESH_AUTH_TOKEN
          loggedIn,   \* isLoggedIn of the app of each client
          requests,   \* the API calls
          rotations,  \* POST /sessions/rotate, each the promise its waiters share
          logouts,    \* the runs of Logout: DELETE /sessions, then the storage
          spent       \* what of the budget is used

vars == <<rows, issued, stored, loggedIn, requests, rotations, logouts, spent>>

Server == <<rows, issued>>

Pairs == Nat \ {0}

\* due: the rotation interval has passed; recent: the last rotation is at most
\* the rotation duration ago; past (history): the pairs replaced before prev.
Row == [cur : Pairs, prev : Nat, past : SUBSET Nat, due : BOOLEAN, recent : BOOLEAN]

\* A call waits for the server (sent, retried), has its answer under way
\* (accepted, refused, refusedAgain), waits for a rotation, or is over.
Settled == {"ok", "failed", "lost"}
Phases == {"idle", "sent", "refused", "rotating", "retried", "refusedAgain",
           "accepted"} \cup Settled

NewRow(p) == [cur |-> p, prev |-> 0, past |-> {}, due |-> FALSE, recent |-> FALSE]

Spend(what) ==
  /\ spent[what] < Budget[what]
  /\ spent' = [spent EXCEPT ![what] = @ + 1]

Init ==
  /\ rows = {NewRow(1)}
  /\ issued = 1
  /\ stored = 1
  /\ loggedIn = [c \in Clients |-> TRUE]
  /\ requests = [r \in Requests |-> [phase |-> "idle", pair |-> 0]]
  /\ rotations = {}
  /\ logouts = {}
  /\ spent = [w \in DOMAIN Budget |-> 0]

-----------------------------------------------------------------------------
(* The server.                                                             *)

\* GetIdentity: the row of the access token itself, and Token.IsValid.
GetIdentity(p) == \E row \in rows : row.cur = p /\ ~row.due

\* The row that GetOrUpdateByAccessTokenOrPrevAccessToken selects.
RowOf(p) == {row \in rows : p # 0 /\ (row.cur = p \/ row.prev = p)}

\* Token.Rotate on the previous pair returns the current one, but refuses it
\* as long as the rotation is recent.
ReturnsSame(row, p) == row.prev = p /\ ~row.recent

\* Mutant of MayRotate: the previous pair is rotated like the current one.
MayRotateEither(row, p) == row.cur = p \/ row.prev = p

MayRotate(row, p) == row.cur = p

\* Mutant of Rotated: the new access token is set before the old one is kept.
RotatedSwapped(row, p) ==
  [cur |-> p, prev |-> p, past |-> (row.past \cup {row.prev}) \ {0},
   due |-> FALSE, recent |-> TRUE]

Rotated(row, p) ==
  [cur |-> p, prev |-> row.cur, past |-> (row.past \cup {row.prev}) \ {0},
   due |-> FALSE, recent |-> TRUE]

\* The server answers a call.
Serve(r) ==
  /\ requests[r].phase \in {"sent", "retried"}
  /\ requests' = [requests EXCEPT ![r].phase =
                    IF GetIdentity(requests[r].pair) THEN "accepted"
                    ELSE IF @ = "sent" THEN "refused" ELSE "refusedAgain"]
  /\ UNCHANGED <<rows, issued, stored, loggedIn, rotations, logouts, spent>>

\* The answer to a rotation, unless its page is gone.
Answered(rot, result, pair) ==
  rotations' = (rotations \ {rot}) \cup
               (IF rot.client = Gone THEN {}
                ELSE {[rot EXCEPT !.phase = result, !.answer = pair]})

\* RotateToken.
RotateToken(rot) ==
  /\ rot.phase = "sent"
  /\ \/ \E row \in RowOf(rot.pair) :
          /\ MayRotate(row, rot.pair)
          /\ rows' = (rows \ {row}) \cup {Rotated(row, issued + 1)}
          /\ issued' = issued + 1
          /\ Answered(rot, "ok", issued + 1)
     \/ \E row \in RowOf(rot.pair) :
          /\ ReturnsSame(row, rot.pair)
          /\ Answered(rot, "ok", row.cur)
          /\ UNCHANGED Server
     \/ /\ \A row \in RowOf(rot.pair) :
             ~ReturnsSame(row, rot.pair) /\ ~MayRotate(row, rot.pair)
        /\ Answered(rot, "refused", 0)
        /\ UNCHANGED Server
  /\ UNCHANGED <<stored, loggedIn, requests, logouts, spent>>

\* DeleteToken: the row of that access token, if there is one.
DeleteToken(out) ==
  /\ out.phase = "sent"
  /\ rows' = {row \in rows : row.cur # out.pair}
  /\ logouts' = (logouts \ {out}) \cup
                (IF out.client = Gone THEN {} ELSE {[out EXCEPT !.phase = "answered"]})
  /\ UNCHANGED <<issued, stored, loggedIn, requests, rotations, spent>>

\* CreateToken and afterLogin: the user signs in again.
Login(c) ==
  /\ ~loggedIn[c]
  /\ Spend("logins")
  /\ rows' = rows \cup {NewRow(issued + 1)}
  /\ issued' = issued + 1
  /\ stored' = issued + 1
  /\ loggedIn' = [loggedIn EXCEPT ![c] = TRUE]
  /\ UNCHANGED <<requests, rotations, logouts>>

\* The session expires, or a sign-in elsewhere evicts it (CreateToken at
\* MaxPerUser): every use of its tokens is then refused.
End(row) ==
  /\ Spend("ends")
  /\ rows' = rows \ {row}
  /\ UNCHANGED <<issued, stored, loggedIn, requests, rotations, logouts>>

\* IsRotationRequired: the interval, far longer than the duration, has passed.
IntervalPasses(row) ==
  /\ ~row.due /\ ~row.recent
  /\ rows' = (rows \ {row}) \cup {[row EXCEPT !.due = TRUE]}
  /\ UNCHANGED <<issued, stored, loggedIn, requests, rotations, logouts, spent>>

DurationPasses(row) ==
  /\ row.recent
  /\ rows' = (rows \ {row}) \cup {[row EXCEPT !.recent = FALSE]}
  /\ UNCHANGED <<issued, stored, loggedIn, requests, rotations, logouts, spent>>

-----------------------------------------------------------------------------
(* The browser.                                                            *)

\* Logout, called by each of callers at once: DELETE /sessions with the access
\* token stored now.
LogoutOf(c, callers) ==
  {[client |-> c, by |-> b, pair |-> stored, phase |-> "sent"] : b \in callers}

Waiters(rot) ==
  {r \in Requests : /\ requests[r] = [phase |-> "rotating", pair |-> rot.pair]
                    /\ ClientOf[r] = rot.client}

\* interceptorsRequestResponse: the call carries the token stored now.
Send(r) ==
  /\ requests[r].phase = "idle"
  /\ loggedIn[ClientOf[r]]
  /\ requests' = [requests EXCEPT ![r] = [phase |-> "sent", pair |-> stored]]
  /\ UNCHANGED <<rows, issued, stored, loggedIn, rotations, logouts, spent>>

Succeed(r) ==
  /\ requests[r].phase = "accepted"
  /\ requests' = [requests EXCEPT ![r].phase = "ok"]
  /\ UNCHANGED <<rows, issued, stored, loggedIn, rotations, logouts, spent>>

Rotation(c, p) == [client |-> c, pair |-> p, phase |-> "sent", answer |-> 0]

\* fetchQuery: calls with the same key share the promise in flight.
InFlight(c, p) == \E rot \in rotations : rot.client = c /\ rot.pair = p

\* interceptorRejected on the first 401: rotate the pair that is stored now.
Refused(r) ==
  /\ requests[r].phase = "refused"
  /\ requests' = [requests EXCEPT ![r] = [phase |-> "rotating", pair |-> stored]]
  /\ rotations' = IF InFlight(ClientOf[r], stored) THEN rotations
                  ELSE rotations \cup {Rotation(ClientOf[r], stored)}
  /\ UNCHANGED <<rows, issued, stored, loggedIn, logouts, spent>>

\* The promise is fulfilled: every waiter stores the new pair and retries with
\* it, past the interceptors.
RotationOk(rot) ==
  /\ rot.phase = "ok"
  /\ rotations' = rotations \ {rot}
  /\ stored' = rot.answer
  /\ requests' = [r \in Requests |->
                    IF r \in Waiters(rot)
                      THEN [phase |-> "retried", pair |-> rot.answer]
                      ELSE requests[r]]
  /\ UNCHANGED <<rows, issued, loggedIn, logouts, spent>>

\* The promise is rejected: every waiter logs out, and so does the
\* interceptor of the rotation when the answer is a 401 (an empty refresh
\* token is a 400).
RotationFails(rot) ==
  /\ rotations' = rotations \ {rot}
  /\ logouts' = logouts \cup
       LogoutOf(rot.client,
                Waiters(rot) \cup (IF rot.phase = "refused" /\ rot.pair # 0
                                     THEN {"rotate"} ELSE {}))
  /\ requests' = [r \in Requests |->
                    IF r \in Waiters(rot) THEN [requests[r] EXCEPT !.phase = "failed"]
                    ELSE requests[r]]
  /\ UNCHANGED <<rows, issued, stored, loggedIn>>

RotationRefused(rot) ==
  /\ rot.phase = "refused"
  /\ RotationFails(rot)
  /\ UNCHANGED spent

\* Mutant of RefusedAgain: the 401 of the retry only rejects the call.
RefusedAgainQuiet(r) ==
  /\ requests[r].phase = "refusedAgain"
  /\ requests' = [requests EXCEPT ![r].phase = "failed"]
  /\ UNCHANGED <<rows, issued, stored, loggedIn, rotations, logouts, spent>>

\* interceptorRejected on the 401 of the retry.
RefusedAgain(r) ==
  /\ requests[r].phase = "refusedAgain"
  /\ requests' = [requests EXCEPT ![r].phase = "failed"]
  /\ logouts' = logouts \cup LogoutOf(ClientOf[r], {r})
  /\ UNCHANGED <<rows, issued, stored, loggedIn, rotations, spent>>

\* The rest of Logout: the storage, whatever it holds now, and the LOGOUT event.
ClearStorage(out) ==
  /\ logouts' = logouts \ {out}
  /\ stored' = 0
  /\ loggedIn' = [loggedIn EXCEPT ![out.client] = FALSE]
  /\ UNCHANGED <<rows, issued, requests, rotations>>

LogoutAnswered(out) ==
  /\ out.phase = "answered"
  /\ ClearStorage(out)
  /\ UNCHANGED spent

UserLogout(c) ==
  /\ loggedIn[c]
  /\ Spend("ends")
  /\ logouts' = logouts \cup LogoutOf(c, {"user"})
  /\ UNCHANGED <<rows, issued, stored, loggedIn, requests, rotations>>

-----------------------------------------------------------------------------
(* The network and the page.                                               *)

\* A call, or its answer, is lost: no 401, so that nothing is retried.
LoseRequest(r) ==
  /\ requests[r].phase \notin Settled \cup {"idle", "rotating"}
  /\ Spend("losses")
  /\ requests' = [requests EXCEPT ![r].phase = "lost"]
  /\ UNCHANGED <<rows, issued, stored, loggedIn, rotations, logouts>>

\* A rotation is lost before or after the server has done it.
LoseRotation(rot) ==
  /\ rot.client # Gone
  /\ rot.phase \in {"sent", "ok"}
  /\ Spend("losses")
  /\ RotationFails(rot)

\* Logout goes on without the answer.
LoseLogout(out) ==
  /\ out.client # Gone
  /\ Spend("losses")
  /\ ClearStorage(out)

Gones(calls) ==
  {[k EXCEPT !.client = Gone] : k \in {k \in calls : k.phase = "sent"}}

\* The page is loaded anew: its calls may still reach the server, their answers
\* reach nobody, and isLoggedIn is read from the storage (App.tsx).
Reload(c) ==
  /\ Spend("reloads")
  /\ loggedIn' = [loggedIn EXCEPT ![c] = stored # 0]
  /\ requests' = [r \in Requests |->
                    IF ClientOf[r] = c /\ requests[r].phase # "idle"
                      THEN [requests[r] EXCEPT !.phase = "lost"] ELSE requests[r]]
  /\ LET ofPage(calls) == {k \in calls : k.client = c}
     IN  /\ rotations' = (rotations \ ofPage(rotations)) \cup Gones(ofPage(rotations))
         /\ logouts' = (logouts \ ofPage(logouts)) \cup Gones(ofPage(logouts))
  /\ UNCHANGED <<rows, issued, stored>>

-----------------------------------------------------------------------------
Calls ==
  \/ \E r \in Requests : Serve(r) \/ Succeed(r) \/ Refused(r) \/ RefusedAgain(r)
  \/ \E rot \in rotations : RotateToken(rot) \/ RotationOk(rot) \/ RotationRefused(rot)
  \/ \E out \in logouts : DeleteToken(out) \/ LogoutAnswered(out)

User == \/ \E r \in Requests : Send(r)
        \/ \E c \in Clients : Login(c) \/ UserLogout(c) \/ Reload(c)

Network == \/ \E r \in Requests : LoseRequest(r)
           \/ \E rot \in rotations : LoseRotation(rot)
           \/ \E out \in logouts : LoseLogout(out)

Time == \E row \in rows : End(row) \/ IntervalPasses(row) \/ DurationPasses(row)

Next == Calls \/ User \/ Network \/ Time

Spec == Init /\ [][Next]_vars

\* The server answers and the browser runs the callbacks of the answers; the
\* user, the clock and the faults owe nothing.
FairSpec ==
  /\ Spec
  /\ \A r \in Requests :
       WF_vars(Serve(r) \/ Succeed(r) \/ Refused(r) \/ RefusedAgain(r))
  /\ WF_vars(\E rot \in rotations :
               RotateToken(rot) \/ RotationOk(rot) \/ RotationRefused(rot))
  /\ WF_vars(\E out \in logouts : DeleteToken(out) \/ LogoutAnswered(out))

-----------------------------------------------------------------------------
(* Properties                                                              *)

\* The tables, the storage and the calls keep their shape, and nothing holds a
\* pair that the server has not issued.
TypeOK ==
  /\ rows \subseteq Row
  /\ issued \in Pairs
  /\ stored \in 0 .. issued
  /\ \A row \in rows : row.cur <= issued /\ row.prev < row.cur
  /\ loggedIn \in [Clients -> BOOLEAN]
  /\ requests \in [Requests -> [phase : Phases, pair : 0 .. issued]]
  /\ rotations \subseteq [client : Clients \cup {Gone}, pair : 0 .. issued,
                          phase : {"sent", "ok", "refused"}, answer : 0 .. issued]
  /\ logouts \subseteq [client : Clients \cup {Gone},
                        by : Requests \cup {"rotate", "user"},
                        pair : 0 .. issued, phase : {"sent", "answered"}]

\* The only tab is never two rotations behind the server, whatever is lost or
\* reloaded between the rotation and the storage (interceptorRejected,
\* afterLogin): the one previous pair that Token.Rotate knows is enough.
\* (Of two tabs one may store its answer after the other has rotated again.)
NeverTwoBehind == \A row \in rows : stored \notin row.past

\* A call that is refused ends with its result, or with the user at the login
\* page, or with a fault of the network or a reload: the calls that share a
\* rotation are all resumed (interceptorRejected, Logout).
RefusedIsResolved ==
  \A r \in Requests :
    requests[r].phase = "refused" ~>
      requests[r].phase \in {"ok", "lost"} \/ ~loggedIn[ClientOf[r]]

\* As long as no call is lost, no session has ended and the user has not left,
\* nobody is logged out: "The duration for which the previous token pair
\* remains valid after a token pair is rotated" (pkg/tokenizer/config.go).
SessionSurvives == spent.losses = 0 /\ spent.ends = 0 => logouts = {}
=============================================================================
