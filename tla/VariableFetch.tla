--------------------------- MODULE VariableFetch ---------------------------
(***************************************************************************)
(* The fetching of the dashboard variables' options in the browser:        *)
(* providers/Dashboard/store/variableFetchStore.ts, the inputs that issue  *)
(* the requests (QueryVariableInput, DynamicVariableInput) and the         *)
(* selection bar that starts a cycle and cascades a new value              *)
(* (DashboardVariableSelection).                                           *)
(*                                                                         *)
(* A change of the store and the render it causes are one step: listeners  *)
(* run synchronously and React renders external-store updates before the   *)
(* next task.  A request is a react-query observer's: its key holds the    *)
(* variable's cycleId and the time range, and a change of the key drops    *)
(* the request in flight.  Cycle ids only ever change, so that the model   *)
(* keeps no counter: the step that bumps one drops the request.            *)
(***************************************************************************)
EXTENDS Naturals, Sequences

CONSTANTS Query,     \* the QUERY variables
          Dynamic,   \* the DYNAMIC variables
          Other,     \* CUSTOM and TEXTBOX variables, whose options need no request
          Graphs,    \* the dependency data that the variables may have
          Edits,     \* the pairs of them between which a saved edit moves
          MaxMoves   \* bound: how often the user does something

Names == Query \cup Dynamic \cup Other
Fetchable == Query \cup Dynamic

Idle == "idle"
Loading == "loading"
Revalidating == "revalidating"
Waiting == "waiting"
Failed == "error"
FetchStates == {Idle, Loading, Revalidating, Waiting, Failed}

\* children: the QUERY variables that mention a name; desc: those it reaches,
\* in the order the code lists them; order: the QUERY variables sorted.
GraphType == [children : [Names -> SUBSET Query], desc : [Names -> Seq(Query)],
              order : Seq(Query)]

Elements(s) == {s[i] : i \in 1 .. Len(s)}

ASSUME TypesAssumption ==
  /\ Query \cap Dynamic = {}
  /\ Query \cap Other = {}
  /\ Dynamic \cap Other = {}

ASSUME GraphsAssumption ==
  /\ Graphs \subseteq GraphType
  /\ Edits \subseteq Graphs \X Graphs

ASSUME MovesAssumption == MaxMoves \in Nat

VARIABLES g,             \* dashboardVariablesStore: dependencyData
          selected,      \* dashboardVariablesStore: has the variable a value
          states,        \* variableFetchStore.states
          fetched,       \* variableFetchStore.lastUpdated > 0
          request,       \* the request in flight: none, fresh or stale inputs
          options,       \* the options shown: fresh, failed, or stale (none yet too)
          effectPending, \* the effect of DashboardVariableSelection has to run
          moves          \* what the user did so far

vars == <<g, selected, states, fetched, request, options, effectPending, moves>>

-----------------------------------------------------------------------------
(* The store's helpers (variableFetchStoreUtils.ts)                        *)

isSettled(s) == s \in {Idle, Failed}
isActive(s) == s \in {Loading, Revalidating}

\* resolveFetchState.
resolveFetchState(was, n) == IF was[n] THEN Revalidating ELSE Loading

areAllQueryVariablesSettled(st) == \A q \in Query : isSettled(st[q])

\* unlockWaitingDynamicVariables.
unlock(st, was) ==
  [n \in Names |-> IF n \in Dynamic /\ st[n] = Waiting
                     THEN resolveFetchState(was, n) ELSE st[n]]

\* doAllQueryVariablesHaveValuesSelected (getVariableDependencyContext).
AllSelected == \A q \in Query : selected[q]

Parents(n) == {p \in Names : n \in g.children[p]}
Descendants(n) == Elements(g.desc[n])

\* The descendants of n that the loop has set before it comes to d.
SetBefore(n, d) ==
  {g.desc[n][i] : i \in {i \in 1 .. Len(g.desc[n]) :
                           \A j \in 1 .. i : g.desc[n][j] # d}}

-----------------------------------------------------------------------------
(* The store's actions, as the states they leave.                          *)

\* enqueueFetchOfAllVariables; it bumps the QUERY variables of the order and
\* all dynamic ones.
EnqueueAll ==
  [n \in Names |->
     IF n \in Elements(g.order)
       THEN IF Parents(n) \cap Query # {} THEN Waiting
                                          ELSE resolveFetchState(fetched, n)
     ELSE IF n \in Dynamic
       THEN IF AllSelected THEN resolveFetchState(fetched, n) ELSE Waiting
     ELSE states[n]]

AllBumped == Elements(g.order) \cup Dynamic

\* The loop of enqueueDescendantsOfVariable over the query descendants.
CascadeQueries(n, st) ==
  [d \in Names |->
     IF d \notin Descendants(n) THEN st[d]
     ELSE IF \A p \in Parents(d) : isSettled(st[p]) /\ p \notin SetBefore(n, d)
       THEN resolveFetchState(fetched, d)
       ELSE Waiting]

\* enqueueDescendantsOfVariable.
Cascade(n, st) ==
  LET queries == CascadeQueries(n, st) IN
  [d \in Names |->
     IF d \in Dynamic
       THEN IF areAllQueryVariablesSettled(queries)
              THEN resolveFetchState(fetched, d) ELSE Waiting
       ELSE queries[d]]

\* Mutant of CascadeBumped: the cycleIds of the descendants stay.
CascadeBumpedDynamics(n) == Dynamic

CascadeBumped(n) == Descendants(n) \cup Dynamic

\* Mutant of Completed: the dynamic variables are not unlocked.
CompletedNoUnlock(n, st) ==
  [d \in Names |->
     IF d = n THEN Idle
     ELSE IF d \in g.children[n] /\ st[d] = Waiting
       THEN resolveFetchState(fetched, d) ELSE st[d]]

\* onVariableFetchComplete.
Completed(n, st) ==
  LET was == [fetched EXCEPT ![n] = TRUE]
      woken == [d \in Names |->
                  IF d = n THEN Idle
                  ELSE IF d \in g.children[n] /\ st[d] = Waiting
                    THEN resolveFetchState(was, d)
                  ELSE st[d]]
  IN  IF n \in Query /\ areAllQueryVariablesSettled(woken)
        THEN unlock(woken, was) ELSE woken

\* Mutant of FailedFetch: the descendants are left as they are.
FailedFetchAlone(n, st) ==
  LET left == [st EXCEPT ![n] = Failed]
  IN  IF n \in Query /\ areAllQueryVariablesSettled(left)
        THEN unlock(left, fetched) ELSE left

\* onVariableFetchFailure.
FailedFetch(n, st) ==
  LET left == [d \in Names |->
                 IF d \in Descendants(n) THEN Idle
                 ELSE IF d = n THEN Failed ELSE st[d]]
  IN  IF n \in Query /\ areAllQueryVariablesSettled(left)
        THEN unlock(left, fetched) ELSE left

-----------------------------------------------------------------------------
(* The requests.                                                           *)

\* enabled, of useQuery in both inputs.
enabled(st, was, n) == isActive(st[n]) \/ (st[n] = Idle /\ was[n])

\* The variables whose requests carry the value of n: the QUERY variables
\* that mention it and, for a dynamic one, the other dynamic variables
\* (buildExistingDynamicVariableQuery).
Carriers(n) == g.children[n] \cup IF n \in Dynamic THEN Dynamic \ {n} ELSE {}

\* What the render makes of the requests in flight: a bumped key drops the
\* request and issues one if the observer is enabled; an observer that
\* becomes enabled issues one; outdated are those whose inputs changed.
Render(inFlight, st, was, bumped, outdated) ==
  [n \in Fetchable |->
     IF n \in bumped
       THEN IF enabled(st, was, n) THEN "fresh" ELSE "none"
     ELSE IF inFlight[n] = "none"
       THEN IF enabled(st, was, n) /\ ~enabled(states, fetched, n)
              THEN "fresh" ELSE "none"
     ELSE IF n \in outdated THEN "stale" ELSE inFlight[n]]

Outdate(shown, outdated) ==
  [n \in Fetchable |->
     IF n \in outdated /\ shown[n] = "fresh" THEN "stale" ELSE shown[n]]

-----------------------------------------------------------------------------
(* The actions.                                                            *)

UserMoves == moves < MaxMoves /\ moves' = moves + 1

Init ==
  /\ g \in Graphs
  /\ selected \in [Fetchable -> BOOLEAN]
  /\ states = [n \in Names |-> Idle]
  /\ fetched = [n \in Names |-> FALSE]
  /\ request = [n \in Fetchable |-> "none"]
  /\ options = [n \in Fetchable |-> "stale"]
  /\ effectPending = TRUE
  /\ moves = 0

\* The effect of DashboardVariableSelection: initializeVariableFetchStore
\* keeps the entries there are, then everything is enqueued.
RunEffect ==
  /\ effectPending
  /\ effectPending' = FALSE
  /\ states' = EnqueueAll
  /\ request' = Render(request, EnqueueAll, fetched, AllBumped, {})
  /\ UNCHANGED <<g, selected, fetched, options, moves>>

\* onValueUpdate by the user: a value is chosen or the selection cleared.
Select(n, some) ==
  /\ UserMoves
  /\ selected' = [m \in Fetchable |-> IF m = n THEN some ELSE selected[m]]
  /\ states' = Cascade(n, states)
  /\ request' = Render(request, Cascade(n, states), fetched, CascadeBumped(n),
                       Carriers(n))
  /\ options' = Outdate(options, Carriers(n))
  /\ UNCHANGED <<g, fetched, effectPending>>

\* The time range changes: it is part of every key, and the effect is due.
TimeChange ==
  /\ UserMoves
  /\ effectPending' = TRUE
  /\ request' = Render(request, states, fetched, Fetchable, {})
  /\ options' = Outdate(options, Fetchable)
  /\ UNCHANGED <<g, selected, states, fetched>>

\* Does the answer for n end in onValueUpdate?  getOptions of a QUERY variable
\* calls it for new options when there is a value to keep or a default;
\* applyDefaultIfNeeded of a dynamic one only when nothing is selected.
MayUpdate(n) == n \in Query \/ ~selected[n]

\* onSuccess: the options are taken over, the value may be updated, which
\* cascades while n is still being fetched, and the fetch is settled unless
\* the cascade or an earlier step took n out of its active state.
Receive(n, update) ==
  LET cascaded == IF update THEN Cascade(n, states) ELSE states
      settles == isActive(cascaded[n])
      st == IF settles THEN Completed(n, cascaded) ELSE cascaded
      was == IF settles THEN [fetched EXCEPT ![n] = TRUE] ELSE fetched
      outdated == IF update THEN Carriers(n) ELSE {}
  IN  /\ request[n] # "none"
      /\ update => MayUpdate(n)
      /\ states' = st
      /\ fetched' = was
      /\ selected' = [selected EXCEPT ![n] = @ \/ update]
      /\ request' = Render([request EXCEPT ![n] = "none"], st, was,
                           IF update THEN CascadeBumped(n) ELSE {}, outdated)
      /\ options' = Outdate([options EXCEPT ![n] = request[n]], outdated)
      /\ UNCHANGED <<g, effectPending, moves>>

\* onError.
Reject(n) ==
  LET st == IF isActive(states[n]) THEN FailedFetch(n, states) ELSE states
  IN  /\ request[n] # "none"
      /\ states' = st
      /\ request' = Render([request EXCEPT ![n] = "none"], st, fetched, {}, {})
      /\ options' = [options EXCEPT ![n] = "failed"]
      /\ UNCHANGED <<g, selected, fetched, effectPending, moves>>

\* handleRetry: refetch, which does not look at enabled.
Retry(n) ==
  /\ UserMoves
  /\ options[n] = "failed"
  /\ request[n] = "none"
  /\ request' = [request EXCEPT ![n] = "fresh"]
  /\ UNCHANGED <<g, selected, states, fetched, options, effectPending>>

\* A saved edit gives the query of q another text.  The store derives the new
\* dependency data; the effect depends on the order alone, and the key of the
\* request does not hold the text.
EditQuery(q, h) ==
  /\ UserMoves
  /\ <<g, h>> \in Edits
  /\ \A n \in Names : h.children[n] \ {q} = g.children[n] \ {q}
  /\ g' = h
  /\ effectPending' = (effectPending \/ h.order # g.order)
  /\ request' = Render(request, states, fetched, {}, {q})
  /\ options' = Outdate(options, {q})
  /\ UNCHANGED <<selected, states, fetched>>

\* The dashboard is left and opened again: the inputs are mounted anew, with
\* no options and no requests, on a store that kept its entries; the values
\* are kept in the URL and in localStorage.
Reopen ==
  /\ UserMoves
  /\ effectPending' = TRUE
  /\ request' = Render(request, states, fetched, Fetchable, {})
  /\ options' = [n \in Fetchable |-> "stale"]
  /\ UNCHANGED <<g, selected, states, fetched>>

Answer(n) == Reject(n) \/ \E update \in BOOLEAN : Receive(n, update)

Next ==
  \/ RunEffect
  \/ \E n \in Names, some \in BOOLEAN : Select(n, some)
  \/ TimeChange
  \/ \E n \in Fetchable : Answer(n)
  \/ \E n \in Fetchable : Retry(n)
  \/ \E q \in Query, h \in Graphs : EditQuery(q, h)
  \/ Reopen

\* The browser runs the effects, and every request is answered or times out.
Fairness == WF_vars(RunEffect) /\ \A n \in Fetchable : WF_vars(Answer(n))

Spec == Init /\ [][Next]_vars
FairSpec == Spec /\ Fairness

-----------------------------------------------------------------------------
(* Properties.                                                             *)

TypeOK ==
  /\ g \in Graphs
  /\ selected \in [Fetchable -> BOOLEAN]
  /\ states \in [Names -> FetchStates]
  /\ fetched \in [Names -> BOOLEAN]
  /\ request \in [Fetchable -> {"none", "fresh", "stale"}]
  /\ options \in [Fetchable -> {"fresh", "stale", "failed"}]
  /\ effectPending \in BOOLEAN
  /\ moves \in 0 .. MaxMoves

\* The dashboards on which fetching is meant to work: the references have no
\* cycle, so that the order holds every QUERY variable and the descendants
\* are closed under children, and no query mentions a dynamic variable.
Sound(h) ==
  /\ Query \subseteq Elements(h.order)
  /\ \A n \in Names : h.children[n] \subseteq Elements(h.desc[n])
  /\ \A n \in Names : \A d \in Elements(h.desc[n]) :
       h.children[d] \subseteq Elements(h.desc[n]) /\ n # d
  /\ \A d \in Dynamic : Elements(h.desc[d]) = {}

\* No wake-up is lost (variableFetchStore.ts, "otherwise they wait until query
\* vars finish"): a waiting QUERY variable has a parent whose end will start
\* it, a waiting dynamic variable has a QUERY variable to wait for, and one
\* that is being fetched has a request in flight that will settle it.
NoLostWakeup ==
  Sound(g) /\ ~effectPending =>
    /\ \A q \in Query : states[q] = Waiting =>
         \E p \in Parents(q) \cap Query : ~isSettled(states[p])
    /\ \A d \in Dynamic : states[d] = Waiting =>
         ~areAllQueryVariablesSettled(states)
    /\ \A n \in Fetchable : isActive(states[n]) => request[n] # "none"

\* What is shown belongs to the values selected now: options that were loaded
\* for earlier values of the parents, or for an earlier time range, are never
\* the last word on a variable that counts as idle.
IdleIsFresh ==
  Sound(g) /\ ~effectPending =>
    \A n \in Fetchable :
      states[n] = Idle /\ fetched[n] /\ request[n] = "none" =>
        options[n] \in {"fresh", "failed"}

\* Once the user leaves the dashboard alone, every variable settles, whatever
\* fails and however answers and cascades are interleaved.
AllSettle == <>[](Sound(g) => \A n \in Names : isSettled(states[n]))

\* variableFetchStore.ts:239, of any dashboard: a dynamic variable that waits
\* is unlocked when the query variables finish, so one of them is under way.
DynamicsUnlocked ==
  (\E d \in Dynamic : states[d] = Waiting) =>
     effectPending \/ \E q \in Query : isActive(states[q])
=============================================================================
