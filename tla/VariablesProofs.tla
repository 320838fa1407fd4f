-------------------------- MODULE VariablesProofs --------------------------
(***************************************************************************)
(* Proofs about the variables of a dashboard, for every set of names and   *)
(* any number of the user's actions.                                       *)
(*                                                                         *)
(* First VariableFetch, for every set of dependency graphs: no wake-up is  *)
(* lost and no stale options are the last word.  Then DashboardVariables:  *)
(* the loops of buildDependencyGraph compute what they are meant to, and   *)
(* no save brings the first cycle.  Last the two together: the data that   *)
(* the one derives fits the other.                                         *)
(***************************************************************************)
EXTENDS VariableFetch, DashboardVariables, FiniteSetTheorems, SequenceTheorems,
        WellFoundedInduction, TLAPS

\* Variables without a request are never enqueued.
OtherIdle(st) == \A o \in Other : st[o] = Idle

\* The two halves of NoLostWakeup that are about states alone.
QueriesWake(st) ==
  \A q \in Query : st[q] = Waiting =>
    \E p \in Parents(q) \cap Query : ~isSettled(st[p])
DynamicsWake(st) ==
  \A d \in Dynamic : st[d] = Waiting => ~areAllQueryVariablesSettled(st)

\* No request in flight has stale inputs, and an enabled observer without a
\* request shows what belongs to the current values and has settled.
RequestsCurrent(st, was, req, shown) ==
  \A n \in Fetchable :
    /\ req[n] # "stale"
    /\ req[n] = "none" /\ enabled(st, was, n) =>
         shown[n] \in {"fresh", "failed"} /\ ~isActive(st[n])

\* The inductive invariant.
IInv ==
  /\ TypeOK
  /\ OtherIdle(states)
  /\ Sound(g) /\ ~effectPending =>
       /\ QueriesWake(states)
       /\ DynamicsWake(states)
       /\ RequestsCurrent(states, fetched, request, options)

\* An edit that counts: one that changes the order in which variables are
\* fetched, which is what the effect depends on.
EditsReorder == \A e \in Edits : e[1].order # e[2].order

-----------------------------------------------------------------------------
(* The operators keep the types of what they change.                       *)

\* A resolved state is one of the two active ones.
LEMMA ResolveType ==
  ASSUME NEW was, NEW n
  PROVE  /\ resolveFetchState(was, n) \in FetchStates
         /\ isActive(resolveFetchState(was, n))
         /\ ~isSettled(resolveFetchState(was, n))
         /\ resolveFetchState(was, n) # Waiting
BY DEF resolveFetchState, FetchStates, isActive, isSettled, Idle, Loading,
       Revalidating, Waiting, Failed

\* The names of a graph's lists are QUERY variables.
LEMMA GraphFacts ==
  ASSUME NEW h \in Graphs
  PROVE  /\ \A n \in Names : h.children[n] \subseteq Query
         /\ \A n \in Names : Elements(h.desc[n]) \subseteq Query
         /\ Elements(h.order) \subseteq Query
<1>1. h \in GraphType
  BY GraphsAssumption
<1>2. \A s \in Seq(Query) : Elements(s) \subseteq Query
  BY DEF Elements
<1> QED
  BY <1>1, <1>2 DEF GraphType

\* The loop sets only descendants.
LEMMA SetBeforeFacts ==
  ASSUME NEW n, NEW d
  PROVE  SetBefore(n, d) \subseteq Descendants(n)
BY DEF SetBefore, Descendants, Elements

\* enqueueFetchOfAllVariables leaves fetch states.
LEMMA EnqueueType ==
  ASSUME TypeOK
  PROVE  EnqueueAll \in [Names -> FetchStates]
BY ResolveType DEF EnqueueAll, TypeOK, FetchStates, Waiting

\* So does enqueueDescendantsOfVariable.
LEMMA CascadeType ==
  ASSUME NEW n \in Names, NEW st \in [Names -> FetchStates]
  PROVE  Cascade(n, st) \in [Names -> FetchStates]
<1>1. CascadeQueries(n, st) \in [Names -> FetchStates]
  BY ResolveType DEF CascadeQueries, FetchStates, Waiting
<1> QED
  BY <1>1, ResolveType DEF Cascade, FetchStates, Waiting

\* So does unlockWaitingDynamicVariables.
LEMMA UnlockType ==
  ASSUME NEW st \in [Names -> FetchStates], NEW was
  PROVE  unlock(st, was) \in [Names -> FetchStates]
BY ResolveType DEF unlock

\* So does onVariableFetchComplete.
LEMMA CompletedType ==
  ASSUME NEW n \in Names, NEW st \in [Names -> FetchStates]
  PROVE  Completed(n, st) \in [Names -> FetchStates]
<1> DEFINE was == [fetched EXCEPT ![n] = TRUE]
           woken == [d \in Names |->
                       IF d = n THEN Idle
                       ELSE IF d \in g.children[n] /\ st[d] = Waiting
                         THEN resolveFetchState(was, d) ELSE st[d]]
<1>1. woken \in [Names -> FetchStates]
  BY ResolveType DEF FetchStates, Idle
<1>2. unlock(woken, was) \in [Names -> FetchStates]
  BY <1>1, UnlockType
<1>3. Completed(n, st) \in {woken, unlock(woken, was)}
  BY DEF Completed
<1> QED
  BY <1>1, <1>2, <1>3

\* So does onVariableFetchFailure.
LEMMA FailedType ==
  ASSUME NEW n \in Names, NEW st \in [Names -> FetchStates]
  PROVE  FailedFetch(n, st) \in [Names -> FetchStates]
<1> DEFINE rest == [d \in Names |->
                      IF d \in Descendants(n) THEN Idle
                      ELSE IF d = n THEN Failed ELSE st[d]]
<1>1. rest \in [Names -> FetchStates]
  BY DEF FetchStates, Idle, Failed
<1>2. unlock(rest, fetched) \in [Names -> FetchStates]
  BY <1>1, UnlockType
<1>3. FailedFetch(n, st) \in {rest, unlock(rest, fetched)}
  BY DEF FailedFetch
<1> QED
  BY <1>1, <1>2, <1>3

\* A render leaves a request per fetchable variable.
LEMMA RenderType ==
  ASSUME NEW inFlight \in [Fetchable -> {"none", "fresh", "stale"}],
         NEW st, NEW was, NEW bumped, NEW outdated
  PROVE  Render(inFlight, st, was, bumped, outdated)
           \in [Fetchable -> {"none", "fresh", "stale"}]
BY DEF Render

\* The options stay of their type when their inputs change.
LEMMA OutdateType ==
  ASSUME NEW shown \in [Fetchable -> {"fresh", "stale", "failed"}], NEW outdated
  PROVE  Outdate(shown, outdated) \in [Fetchable -> {"fresh", "stale", "failed"}]
BY DEF Outdate

-----------------------------------------------------------------------------
(* Custom and textbox variables stay idle, on any graph.                   *)

\* No operation of the store touches them.
LEMMA OthersStay ==
  ASSUME g \in Graphs, NEW st \in [Names -> FetchStates], OtherIdle(st)
  PROVE  /\ OtherIdle(states) => OtherIdle(EnqueueAll)
         /\ \A n \in Names : OtherIdle(Cascade(n, st))
         /\ \A n \in Fetchable : OtherIdle(Completed(n, st))
         /\ \A n \in Fetchable : OtherIdle(FailedFetch(n, st))
<1> USE GraphFacts, TypesAssumption DEF Names, OtherIdle, Fetchable
<1>1. OtherIdle(states) => OtherIdle(EnqueueAll)
  BY DEF EnqueueAll
<1>2. \A n \in Names : OtherIdle(Cascade(n, st))
  BY DEF Cascade, CascadeQueries, Descendants
<1>3. ASSUME NEW n \in Fetchable PROVE OtherIdle(Completed(n, st))
  <2>1. \A o \in Other : o # n /\ o \notin g.children[n] /\ o \notin Dynamic
    OBVIOUS
  <2> QED
    BY <2>1 DEF Completed, unlock
<1>4. ASSUME NEW n \in Fetchable PROVE OtherIdle(FailedFetch(n, st))
  <2>1. \A o \in Other : o # n /\ o \notin Descendants(n) /\ o \notin Dynamic
    BY DEF Descendants
  <2> QED
    BY <2>1 DEF FailedFetch, unlock
<1> QED
  BY <1>1, <1>2, <1>3, <1>4

-----------------------------------------------------------------------------
(* Every operation on the states keeps whoever waits tied to someone who   *)
(* will wake it.                                                           *)

\* After the effect: a waiting query has a parent that was enqueued with it.
LEMMA EnqueueWakes ==
  ASSUME TypeOK, Sound(g)
  PROVE  /\ QueriesWake(EnqueueAll)
         /\ DynamicsWake(EnqueueAll)
<1> USE ResolveType, GraphFacts, TypesAssumption DEF Names
<1>0. /\ Elements(g.order) = Query
      /\ \A q \in Query : ~isSettled(EnqueueAll[q])
  BY DEF EnqueueAll, Sound, TypeOK, isSettled, Waiting, Idle, Failed
<1>2. QueriesWake(EnqueueAll)
  BY <1>0 DEF EnqueueAll, QueriesWake
<1>3. DynamicsWake(EnqueueAll)
  <2> SUFFICES ASSUME NEW d \in Dynamic, EnqueueAll[d] = Waiting
               PROVE  ~areAllQueryVariablesSettled(EnqueueAll)
    BY DEF DynamicsWake
  <2>1. ~AllSelected
    BY <1>0 DEF EnqueueAll
  <2> QED
    BY <2>1, <1>0 DEF AllSelected, areAllQueryVariablesSettled
<1> QED
  BY <1>2, <1>3

\* A cascade from n: the descendants it makes wait have an unsettled parent,
\* one that was so before or one the loop has just set.
LEMMA CascadeWakes ==
  ASSUME g \in Graphs, Sound(g), NEW n \in Names,
         NEW st \in [Names -> FetchStates], OtherIdle(st), QueriesWake(st)
  PROVE  /\ QueriesWake(Cascade(n, st))
         /\ DynamicsWake(Cascade(n, st))
<1> DEFINE queries == CascadeQueries(n, st)
<1>1. \A q \in Names \ Dynamic : Cascade(n, st)[q] = queries[q]
  BY DEF Cascade, Names
<1>2. \A d \in Descendants(n) : d \in Query /\ ~isSettled(queries[d])
  BY GraphFacts, ResolveType
  DEF CascadeQueries, Descendants, Names, isSettled, Waiting, Idle, Failed
<1>3. \A d \in Names \ Descendants(n) : queries[d] = st[d]
  BY DEF CascadeQueries
<1>5. ASSUME NEW q \in Query, queries[q] = Waiting
      PROVE  \E p \in Parents(q) \cap Query : ~isSettled(queries[p])
  <2>1. CASE q \notin Descendants(n)
    <3>1. PICK p \in Parents(q) \cap Query : ~isSettled(st[p])
      BY <1>3, <1>5, <2>1 DEF QueriesWake, Names
    <3>2. p \notin Descendants(n)
      BY <2>1 DEF Sound, Parents, Descendants
    <3> QED
      BY <3>1, <3>2, <1>3 DEF Names
  <2>2. CASE q \in Descendants(n)
    <3>1. PICK p \in Parents(q) : ~isSettled(st[p]) \/ p \in SetBefore(n, q)
      BY <1>5, <2>2, ResolveType DEF CascadeQueries, Names
    <3>2. p \in Query
      <4>1. p \notin Dynamic
        BY DEF Parents, Sound
      <4>2. p \in Other => p \in Descendants(n)
        BY <3>1, SetBeforeFacts DEF OtherIdle, isSettled
      <4> QED
        BY <4>1, <4>2, <1>2, TypesAssumption DEF Parents, Names
    <3>3. ~isSettled(queries[p])
      BY <3>1, <3>2, <1>2, <1>3, SetBeforeFacts DEF Names
    <3> QED
      BY <3>2, <3>3
  <2> QED
    BY <2>1, <2>2
<1>6. QueriesWake(Cascade(n, st))
  BY <1>1, <1>5, TypesAssumption DEF QueriesWake, Names
<1>7. areAllQueryVariablesSettled(Cascade(n, st)) <=> areAllQueryVariablesSettled(queries)
  BY <1>1, TypesAssumption DEF areAllQueryVariablesSettled, Names
<1>8. DynamicsWake(Cascade(n, st))
  <2> SUFFICES ASSUME NEW d \in Dynamic, Cascade(n, st)[d] = Waiting
               PROVE  ~areAllQueryVariablesSettled(queries)
    BY <1>7 DEF DynamicsWake
  <2> QED
    BY ResolveType DEF Cascade, Names
<1> QED
  BY <1>6, <1>8

\* unlock leaves no dynamic variable waiting and the others as they are.
LEMMA UnlockWakes ==
  ASSUME NEW st \in [Names -> FetchStates], NEW was
  PROVE  /\ \A n \in Names \ Dynamic : unlock(st, was)[n] = st[n]
         /\ \A d \in Dynamic : unlock(st, was)[d] # Waiting
<1>1. ASSUME NEW n \in Names \ Dynamic PROVE unlock(st, was)[n] = st[n]
  BY DEF unlock
<1>2. ASSUME NEW d \in Dynamic PROVE unlock(st, was)[d] # Waiting
  <2>1. d \in Names
    BY DEF Names
  <2> QED
    BY <2>1, ResolveType DEF unlock
<1> QED
  BY <1>1, <1>2

\* The end of a fetch wakes the children that wait, and the dynamic
\* variables with the last query.
LEMMA CompletedWakes ==
  ASSUME g \in Graphs, Sound(g), NEW n \in Fetchable,
         NEW st \in [Names -> FetchStates],
         OtherIdle(st), QueriesWake(st), DynamicsWake(st)
  PROVE  /\ QueriesWake(Completed(n, st))
         /\ DynamicsWake(Completed(n, st))
<1> USE TypesAssumption DEF Names, Fetchable
<1> DEFINE was == [fetched EXCEPT ![n] = TRUE]
           woken == [d \in Names |->
                       IF d = n THEN Idle
                       ELSE IF d \in g.children[n] /\ st[d] = Waiting
                         THEN resolveFetchState(was, d) ELSE st[d]]
<1>1. woken \in [Names -> FetchStates]
  BY ResolveType DEF FetchStates, Idle
<1>3. QueriesWake(woken)
  <2> SUFFICES ASSUME NEW q \in Query, woken[q] = Waiting
               PROVE  \E p \in Parents(q) \cap Query : ~isSettled(woken[p])
    BY DEF QueriesWake
  <2>1. q # n /\ q \notin g.children[n] /\ st[q] = Waiting
    BY ResolveType DEF Idle, Waiting
  <2>2. PICK p \in Parents(q) \cap Query : ~isSettled(st[p])
    BY <2>1 DEF QueriesWake
  <2>3. p # n
    BY <2>1 DEF Parents
  <2>4. ~isSettled(woken[p])
    BY <2>2, <2>3, ResolveType
  <2> QED
    BY <2>4
<1>4. CASE n \in Query /\ areAllQueryVariablesSettled(woken)
  <2>1. Completed(n, st) = unlock(woken, was)
    BY <1>4 DEF Completed
  <2> HIDE DEF woken, was
  <2>2. /\ \A m \in Names \ Dynamic : unlock(woken, was)[m] = woken[m]
        /\ \A d \in Dynamic : unlock(woken, was)[d] # Waiting
    BY <1>1, UnlockWakes
  <2> QED
    BY <1>3, <2>1, <2>2 DEF QueriesWake, DynamicsWake
<1>5. CASE ~(n \in Query /\ areAllQueryVariablesSettled(woken))
  <2>1. Completed(n, st) = woken
    BY <1>5 DEF Completed
  <2>2. DynamicsWake(woken)
    <3>1. CASE n \in Query
      BY <3>1, <1>5 DEF DynamicsWake
    <3>2. CASE n \in Dynamic
      <4>1. g.children[n] = {}
        BY <3>2 DEF Sound
      <4>2. \A m \in Names \ {n} : woken[m] = st[m]
        BY <4>1
      <4>3. woken[n] # Waiting
        BY DEF Idle, Waiting
      <4> HIDE DEF woken
      <4>4. \A q \in Query : woken[q] = st[q]
        BY <4>2, <3>2
      <4> QED
        BY <4>2, <4>3, <4>4 DEF DynamicsWake, areAllQueryVariablesSettled
    <3> QED
      BY <3>1, <3>2
  <2> QED
    BY <1>3, <2>1, <2>2
<1> QED
  BY <1>4, <1>5

\* A failure takes all its descendants out of the wait.
LEMMA FailedWakes ==
  ASSUME g \in Graphs, Sound(g), NEW n \in Fetchable,
         NEW st \in [Names -> FetchStates],
         OtherIdle(st), QueriesWake(st), DynamicsWake(st)
  PROVE  /\ QueriesWake(FailedFetch(n, st))
         /\ DynamicsWake(FailedFetch(n, st))
<1> USE TypesAssumption DEF Names, Fetchable
<1> DEFINE rest == [d \in Names |->
                      IF d \in Descendants(n) THEN Idle
                      ELSE IF d = n THEN Failed ELSE st[d]]
<1>1. rest \in [Names -> FetchStates]
  BY DEF FetchStates, Idle, Failed
<1>3. QueriesWake(rest)
  <2> SUFFICES ASSUME NEW q \in Query, rest[q] = Waiting
               PROVE  \E p \in Parents(q) \cap Query : ~isSettled(rest[p])
    BY DEF QueriesWake
  <2>1. q # n /\ q \notin Descendants(n) /\ st[q] = Waiting
    BY DEF Idle, Waiting, Failed
  <2>2. PICK p \in Parents(q) \cap Query : ~isSettled(st[p])
    BY <2>1 DEF QueriesWake
  <2>3. p # n /\ p \notin Descendants(n)
    BY <2>1 DEF Parents, Sound, Descendants
  <2> QED
    BY <2>2, <2>3
<1>4. CASE n \in Query /\ areAllQueryVariablesSettled(rest)
  <2>1. FailedFetch(n, st) = unlock(rest, fetched)
    BY <1>4 DEF FailedFetch
  <2> HIDE DEF rest
  <2>2. /\ \A m \in Names \ Dynamic : unlock(rest, fetched)[m] = rest[m]
        /\ \A d \in Dynamic : unlock(rest, fetched)[d] # Waiting
    BY <1>1, UnlockWakes
  <2> QED
    BY <1>3, <2>1, <2>2 DEF QueriesWake, DynamicsWake
<1>5. CASE ~(n \in Query /\ areAllQueryVariablesSettled(rest))
  <2>1. FailedFetch(n, st) = rest
    BY <1>5 DEF FailedFetch
  <2>2. DynamicsWake(rest)
    <3>1. CASE n \in Query
      BY <3>1, <1>5 DEF DynamicsWake
    <3>2. CASE n \in Dynamic
      <4>1. Descendants(n) = {}
        BY <3>2 DEF Sound, Descendants
      <4>2. \A m \in Names \ {n} : rest[m] = st[m]
        BY <4>1
      <4>3. rest[n] # Waiting
        BY <4>1 DEF Failed, Waiting
      <4> HIDE DEF rest
      <4>4. \A q \in Query : rest[q] = st[q]
        BY <4>2, <3>2
      <4> QED
        BY <4>2, <4>3, <4>4 DEF DynamicsWake, areAllQueryVariablesSettled
    <3> QED
      BY <3>1, <3>2
  <2> QED
    BY <1>3, <2>1, <2>2
<1> QED
  BY <1>4, <1>5

\* unlock changes waiting variables only.
LEMMA UnlockActivates ==
  ASSUME NEW st \in [Names -> FetchStates], NEW was, NEW m \in Names
  PROVE  /\ st[m] # Waiting => unlock(st, was)[m] = st[m]
         /\ isActive(unlock(st, was)[m]) => st[m] = Waiting \/ isActive(st[m])
BY DEF unlock

\* A failed fetch is no longer active; whoever else becomes
\* active was waiting, and so was not enabled.
LEMMA FailedSettles ==
  ASSUME NEW n \in Fetchable, NEW st \in [Names -> FetchStates]
  PROVE  /\ ~isActive(FailedFetch(n, st)[n])
         /\ \A m \in Names : isActive(FailedFetch(n, st)[m]) =>
              st[m] = Waiting \/ isActive(st[m])
<1> DEFINE rest == [d \in Names |->
                      IF d \in Descendants(n) THEN Idle
                      ELSE IF d = n THEN Failed ELSE st[d]]
<1>1. n \in Names /\ rest \in [Names -> FetchStates]
  BY DEF FetchStates, Idle, Failed, Fetchable, Names
<1>2. rest[n] # Waiting /\ ~isActive(rest[n])
  BY <1>1 DEF Idle, Failed, Waiting, isActive, Loading, Revalidating
<1>3. \A m \in Names : rest[m] = Waiting \/ isActive(rest[m]) => rest[m] = st[m]
  BY DEF Idle, Failed, Waiting, isActive, Loading, Revalidating
<1>4. FailedFetch(n, st) \in {rest, unlock(rest, fetched)}
  BY DEF FailedFetch
<1> HIDE DEF rest
<1>5. CASE FailedFetch(n, st) = rest
  BY <1>1, <1>2, <1>3, <1>5
<1>6. CASE FailedFetch(n, st) = unlock(rest, fetched)
  BY <1>1, <1>2, <1>3, <1>6, UnlockActivates
<1> QED
  BY <1>4, <1>5, <1>6

\* The same of a completed fetch, which ends idle.
LEMMA CompletedSettles ==
  ASSUME NEW n \in Fetchable, NEW st \in [Names -> FetchStates]
  PROVE  /\ Completed(n, st)[n] = Idle
         /\ \A m \in Names : isActive(Completed(n, st)[m]) =>
              st[m] = Waiting \/ isActive(st[m])
<1> DEFINE was == [fetched EXCEPT ![n] = TRUE]
           woken == [d \in Names |->
                       IF d = n THEN Idle
                       ELSE IF d \in g.children[n] /\ st[d] = Waiting
                         THEN resolveFetchState(was, d) ELSE st[d]]
<1>1. n \in Names /\ woken \in [Names -> FetchStates]
  BY ResolveType DEF FetchStates, Idle, Fetchable, Names
<1>2. woken[n] = Idle /\ Idle # Waiting
  BY <1>1 DEF Idle, Waiting
<1>3. \A m \in Names : woken[m] = Waiting \/ isActive(woken[m]) =>
        st[m] = Waiting \/ isActive(st[m])
  BY DEF Idle, Waiting, isActive, Loading, Revalidating
<1>4. Completed(n, st) \in {woken, unlock(woken, was)}
  BY DEF Completed
<1> HIDE DEF woken, was
<1>5. CASE Completed(n, st) = woken
  BY <1>1, <1>2, <1>3, <1>5
<1>6. CASE Completed(n, st) = unlock(woken, was)
  BY <1>1, <1>2, <1>3, <1>6, UnlockActivates
<1> QED
  BY <1>4, <1>5, <1>6

\* A cascade leaves alone whom it does not bump.
LEMMA CascadeLeaves ==
  ASSUME NEW n \in Names, NEW st, NEW m \in Names \ CascadeBumped(n)
  PROVE  Cascade(n, st)[m] = st[m]
<1>1. m \notin Dynamic /\ m \notin Descendants(n)
  BY DEF CascadeBumped
<1>2. Cascade(n, st)[m] = CascadeQueries(n, st)[m]
  BY <1>1 DEF Cascade
<1> QED
  BY <1>1, <1>2 DEF CascadeQueries

-----------------------------------------------------------------------------
(* The requests after a render.                                            *)

\* Whoever is not bumped must not be outdated, and if enabled before and
\* after without a request, must show current options.
LEMMA RenderCurrent ==
  ASSUME NEW inFlight, NEW st, NEW was, NEW bumped, NEW outdated, NEW shown,
         \A m \in Fetchable \ bumped :
           /\ inFlight[m] # "stale"
           /\ m \notin outdated
           /\ inFlight[m] = "none" /\ enabled(st, was, m)
                /\ enabled(states, fetched, m) =>
                  shown[m] \in {"fresh", "failed"} /\ ~isActive(st[m])
  PROVE  RequestsCurrent(st, was, Render(inFlight, st, was, bumped, outdated), shown)
BY DEF RequestsCurrent, Render

\* The parts of the next state's invariant, for a step that leaves the graph.
LEMMA Assemble ==
  ASSUME TypeOK', g' = g, OtherIdle(states'),
         Sound(g) /\ ~effectPending' =>
           /\ QueriesWake(states')
           /\ DynamicsWake(states')
           /\ RequestsCurrent(states', fetched', request', options')
  PROVE  IInv'
<1>1. OtherIdle(states)'
  BY DEF OtherIdle
<1>2. Sound(g)' <=> Sound(g)
  BY DEF Sound
<1>3. QueriesWake(states)' <=> QueriesWake(states')
  BY DEF QueriesWake, Parents
<1>4. DynamicsWake(states)' <=> DynamicsWake(states')
  BY DEF DynamicsWake
<1>5. RequestsCurrent(states, fetched, request, options)' <=>
        RequestsCurrent(states', fetched', request', options')
  BY DEF RequestsCurrent
<1> QED
  BY <1>1, <1>2, <1>3, <1>4, <1>5 DEF IInv

\* Whose inputs a new value of n changes is bumped with it, and is not n.
LEMMA CarriersBumped ==
  ASSUME g \in Graphs, Sound(g), NEW n \in Names
  PROVE  /\ Carriers(n) \subseteq CascadeBumped(n)
         /\ n \notin Carriers(n)
<1>1. g.children[n] \subseteq Descendants(n) /\ n \notin Descendants(n)
  BY DEF Sound, Descendants
<1> QED
  BY <1>1 DEF Carriers, CascadeBumped

\* The user's bound is part of the type.
LEMMA MovesType ==
  ASSUME moves \in 0 .. MaxMoves, UserMoves
  PROVE  moves' \in 0 .. MaxMoves
BY MovesAssumption DEF UserMoves

-----------------------------------------------------------------------------
(* One lemma per action.                                                   *)

\* The effect bumps every fetchable variable of a sound dashboard.
LEMMA RunEffectStep ==
  ASSUME IInv, RunEffect
  PROVE  IInv'
<1> USE DEF IInv
<1>1. TypeOK'
  BY EnqueueType, RenderType DEF TypeOK, RunEffect
<1>2. OtherIdle(states')
  BY OthersStay DEF RunEffect, TypeOK
<1>3. ASSUME Sound(g)
      PROVE  /\ QueriesWake(states')
             /\ DynamicsWake(states')
             /\ RequestsCurrent(states', fetched', request', options')
  <2>1. Fetchable \subseteq AllBumped
    BY <1>3 DEF Sound, Fetchable, AllBumped
  <2>2. RequestsCurrent(EnqueueAll, fetched,
          Render(request, EnqueueAll, fetched, AllBumped, {}), options)
    BY <2>1, RenderCurrent
  <2> QED
    BY <1>3, <2>2, EnqueueWakes DEF RunEffect
<1> QED
  BY <1>1, <1>2, <1>3, Assemble DEF RunEffect

\* The user's value bumps everyone whose inputs it changes.
LEMMA SelectStep ==
  ASSUME IInv, NEW n \in Names, NEW some \in BOOLEAN, Select(n, some)
  PROVE  IInv'
<1> USE DEF IInv
<1>0. g \in Graphs /\ states \in [Names -> FetchStates]
  BY DEF TypeOK
<1>1. TypeOK'
  <2>1. moves' \in 0 .. MaxMoves
    BY MovesType DEF TypeOK, Select
  <2> QED
    BY <2>1, CascadeType, RenderType, OutdateType DEF TypeOK, Select
<1>2. OtherIdle(states')
  BY <1>0, OthersStay DEF Select
<1>3. ASSUME Sound(g), ~effectPending'
      PROVE  /\ QueriesWake(states')
             /\ DynamicsWake(states')
             /\ RequestsCurrent(states', fetched', request', options')
  <2>1. /\ QueriesWake(states)
        /\ RequestsCurrent(states, fetched, request, options)
    BY <1>3 DEF Select
  <2>2. QueriesWake(Cascade(n, states)) /\ DynamicsWake(Cascade(n, states))
    BY <1>0, <1>3, <2>1, CascadeWakes
  <2>3. \A m \in Fetchable \ CascadeBumped(n) :
          /\ m \notin Carriers(n)
          /\ Cascade(n, states)[m] = states[m]
          /\ Outdate(options, Carriers(n))[m] = options[m]
    <3>1. \A m \in Fetchable \ CascadeBumped(n) : m \notin Carriers(n)
      BY <1>0, <1>3, CarriersBumped
    <3> QED
      BY <3>1, CascadeLeaves DEF Outdate, Fetchable, Names
  <2>4. RequestsCurrent(Cascade(n, states), fetched,
          Render(request, Cascade(n, states), fetched, CascadeBumped(n), Carriers(n)),
          Outdate(options, Carriers(n)))
    <3>1. \A m \in Fetchable \ CascadeBumped(n) :
            /\ request[m] # "stale"
            /\ m \notin Carriers(n)
            /\ request[m] = "none" /\ enabled(Cascade(n, states), fetched, m) =>
                 /\ Outdate(options, Carriers(n))[m] \in {"fresh", "failed"}
                 /\ ~isActive(Cascade(n, states)[m])
      BY <2>1, <2>3 DEF RequestsCurrent, enabled
    <3> QED
      BY <3>1, RenderCurrent
  <2> QED
    BY <2>2, <2>4 DEF Select
<1> QED
  BY <1>1, <1>2, <1>3, Assemble DEF Select

\* TimeChange and Reopen leave the effect pending.
LEMMA RestartStep ==
  ASSUME IInv, TimeChange \/ Reopen
  PROVE  IInv'
<1> USE DEF IInv
<1>1. moves' \in 0 .. MaxMoves
  BY MovesType DEF TypeOK, TimeChange, Reopen
<1>2. TypeOK'
  <2>1. request' \in [Fetchable -> {"none", "fresh", "stale"}]
    BY RenderType DEF TypeOK, TimeChange, Reopen
  <2>2. options' \in [Fetchable -> {"fresh", "stale", "failed"}]
    BY OutdateType DEF TypeOK, TimeChange, Reopen
  <2> QED
    BY <1>1, <2>1, <2>2 DEF TypeOK, TimeChange, Reopen
<1>3. OtherIdle(states')
  BY DEF TimeChange, Reopen
<1> QED
  BY <1>2, <1>3, Assemble DEF TimeChange, Reopen

\* A retry only adds a request with current inputs.
LEMMA RetryStep ==
  ASSUME IInv, NEW n \in Fetchable, Retry(n)
  PROVE  IInv'
<1> USE DEF IInv
<1>1. moves' \in 0 .. MaxMoves
  BY MovesType DEF TypeOK, Retry
<1>2. TypeOK'
  BY <1>1 DEF TypeOK, Retry
<1>3. OtherIdle(states')
  BY DEF Retry
<1>4. RequestsCurrent(states, fetched, request, options) =>
        RequestsCurrent(states', fetched', request', options')
  BY DEF RequestsCurrent, Retry, TypeOK
<1> QED
  BY <1>2, <1>3, <1>4, Assemble DEF Retry

\* An edit that changes the order leaves the effect pending.
LEMMA EditStep ==
  ASSUME EditsReorder, IInv, NEW q \in Query, NEW h \in Graphs, EditQuery(q, h)
  PROVE  IInv'
<1> USE DEF IInv
<1>1. moves' \in 0 .. MaxMoves
  BY MovesType DEF TypeOK, EditQuery
<1>2. effectPending' = TRUE
  <2>1. h.order # g.order
    BY DEF EditsReorder, EditQuery
  <2> QED
    BY <2>1 DEF EditQuery
<1>3. TypeOK'
  BY <1>1, <1>2, RenderType, OutdateType DEF TypeOK, EditQuery
<1>4. OtherIdle(states)'
  BY DEF EditQuery, OtherIdle
<1> QED
  BY <1>2, <1>3, <1>4

\* A failure settles its variable and wakes or frees who waited for it.
LEMMA RejectStep ==
  ASSUME IInv, NEW n \in Fetchable, Reject(n)
  PROVE  IInv'
<1> USE DEF IInv
<1> DEFINE st == IF isActive(states[n]) THEN FailedFetch(n, states) ELSE states
           rest == [request EXCEPT ![n] = "none"]
           shown == [options EXCEPT ![n] = "failed"]
<1>0. /\ g \in Graphs /\ states \in [Names -> FetchStates] /\ n \in Names
      /\ rest \in [Fetchable -> {"none", "fresh", "stale"}]
  BY DEF TypeOK, Fetchable, Names
<1>1. TypeOK'
  <2>1. st \in [Names -> FetchStates]
    BY <1>0, FailedType
  <2>2. Render(rest, st, fetched, {}, {}) \in [Fetchable -> {"none", "fresh", "stale"}]
    BY <1>0, RenderType
  <2> QED
    BY <2>1, <2>2 DEF TypeOK, Reject
<1>2. OtherIdle(states')
  BY <1>0, OthersStay DEF Reject
<1>3. ASSUME Sound(g), ~effectPending'
      PROVE  /\ QueriesWake(states')
             /\ DynamicsWake(states')
             /\ RequestsCurrent(states', fetched', request', options')
  <2>1. /\ QueriesWake(states) /\ DynamicsWake(states)
        /\ RequestsCurrent(states, fetched, request, options)
    BY <1>3 DEF Reject
  <2>2. QueriesWake(st) /\ DynamicsWake(st)
    BY <1>0, <1>3, <2>1, FailedWakes
  <2>3. ~isActive(st[n])
    <3>1. CASE isActive(states[n])
      BY <3>1, <1>0, FailedSettles
    <3>2. CASE ~isActive(states[n])
      BY <3>2
    <3> QED
      BY <3>1, <3>2
  <2>4. \A m \in Fetchable : isActive(st[m]) /\ enabled(states, fetched, m) =>
          isActive(states[m])
    BY <1>0, FailedSettles DEF enabled, isActive, Waiting, Idle, Loading,
       Revalidating, Fetchable, Names
  <2>5. \A m \in Fetchable :
          /\ rest[m] # "stale"
          /\ rest[m] = "none" /\ enabled(st, fetched, m)
               /\ enabled(states, fetched, m) =>
                 shown[m] \in {"fresh", "failed"} /\ ~isActive(st[m])
    BY <2>1, <2>3, <2>4 DEF RequestsCurrent, TypeOK
  <2>6. RequestsCurrent(st, fetched, Render(rest, st, fetched, {}, {}), shown)
    <3> HIDE DEF st, rest, shown
    <3> QED
      BY <2>5, RenderCurrent
  <2> QED
    BY <2>2, <2>6 DEF Reject
<1> QED
  BY <1>1, <1>2, <1>3, Assemble DEF Reject

\* An answer cascades, if at all, before it settles its variable.
LEMMA ReceiveStep ==
  ASSUME IInv, NEW n \in Fetchable, NEW update \in BOOLEAN, Receive(n, update)
  PROVE  IInv'
<1> USE DEF IInv
<1> DEFINE cascaded == IF update THEN Cascade(n, states) ELSE states
           settles == isActive(cascaded[n])
           st == IF settles THEN Completed(n, cascaded) ELSE cascaded
           was == IF settles THEN [fetched EXCEPT ![n] = TRUE] ELSE fetched
           bumped == IF update THEN CascadeBumped(n) ELSE {}
           outdated == IF update THEN Carriers(n) ELSE {}
           rest == [request EXCEPT ![n] = "none"]
           taken == [options EXCEPT ![n] = request[n]]
           shown == Outdate(taken, outdated)
<1>0. /\ g \in Graphs /\ states \in [Names -> FetchStates] /\ n \in Names
      /\ rest \in [Fetchable -> {"none", "fresh", "stale"}]
      /\ Fetchable \subseteq Names
  BY DEF TypeOK, Fetchable, Names
<1>r. /\ request[n] \in {"fresh", "stale"}
      /\ taken \in [Fetchable -> {"fresh", "stale", "failed"}]
  BY DEF TypeOK, Receive
<1>n. /\ states' = st /\ fetched' = was /\ g' = g /\ effectPending' = effectPending
      /\ request' = Render(rest, st, was, bumped, outdated)
      /\ options' = shown
  BY DEF Receive
<1>c. cascaded \in [Names -> FetchStates] /\ OtherIdle(cascaded)
  BY <1>0, CascadeType, OthersStay
<1>s. /\ st \in [Names -> FetchStates] /\ OtherIdle(st)
      /\ ~isActive(st[n])
      /\ \A m \in Names : isActive(st[m]) =>
           cascaded[m] = Waiting \/ isActive(cascaded[m])
  <2> HIDE DEF cascaded
  <2>1. CASE settles
    <3>1. Completed(n, cascaded)[n] = Idle /\ ~isActive(Idle)
      BY <1>c, CompletedSettles DEF isActive, Idle, Loading, Revalidating
    <3> QED
      BY <1>0, <1>c, <2>1, <3>1, CompletedType, CompletedSettles, OthersStay
  <2>2. CASE ~settles
    BY <1>c, <2>2
  <2> QED
    BY <2>1, <2>2
<1>1. TypeOK'
  <2>1. was \in [Names -> BOOLEAN]
    BY <1>0 DEF TypeOK
  <2>2. Render(rest, st, was, bumped, outdated) \in [Fetchable -> {"none", "fresh", "stale"}]
    <3> HIDE DEF rest, st, was, bumped, outdated
    <3> QED
      BY <1>0, RenderType
  <2>3. shown \in [Fetchable -> {"fresh", "stale", "failed"}]
    <3> HIDE DEF taken, outdated
    <3> QED
      BY <1>r, OutdateType
  <2>4. selected' \in [Fetchable -> BOOLEAN]
    BY DEF TypeOK, Receive
  <2>5. g' \in Graphs /\ effectPending' \in BOOLEAN /\ moves' \in 0 .. MaxMoves
    BY DEF TypeOK, Receive
  <2> HIDE DEF st, was, shown, rest, bumped, outdated
  <2> QED
    BY <1>n, <1>s, <2>1, <2>2, <2>3, <2>4, <2>5 DEF TypeOK
<1>2. OtherIdle(states')
  BY <1>n, <1>s
<1>3. ASSUME Sound(g), ~effectPending'
      PROVE  /\ QueriesWake(states')
             /\ DynamicsWake(states')
             /\ RequestsCurrent(states', fetched', request', options')
  <2>1. /\ QueriesWake(states) /\ DynamicsWake(states)
        /\ RequestsCurrent(states, fetched, request, options)
    BY <1>3, <1>n
  <2>2. QueriesWake(cascaded) /\ DynamicsWake(cascaded)
    BY <1>0, <1>3, <2>1, CascadeWakes
  <2>3. QueriesWake(st) /\ DynamicsWake(st)
    <3> HIDE DEF cascaded
    <3> QED
      BY <1>0, <1>3, <1>c, <2>2, CompletedWakes
  <2>4. n \notin outdated /\ outdated \subseteq bumped
    BY <1>0, <1>3, CarriersBumped
  <2>5. \A m \in Fetchable \ bumped : cascaded[m] = states[m]
    BY <1>0, CascadeLeaves
  <2>6. ASSUME NEW m \in Fetchable \ bumped
        PROVE  /\ rest[m] # "stale"
               /\ m \notin outdated
               /\ rest[m] = "none" /\ enabled(st, was, m)
                    /\ enabled(states, fetched, m) =>
                      shown[m] \in {"fresh", "failed"} /\ ~isActive(st[m])
    <3>1. m \notin outdated /\ shown[m] = taken[m]
      BY <2>4 DEF Outdate
    <3>2. CASE m = n
      <4>1. taken[m] = "fresh"
        BY <3>2, <1>r, <2>1 DEF TypeOK, RequestsCurrent
      <4>2. rest[m] = "none"
        BY <3>2 DEF TypeOK
      <4> HIDE DEF st, shown, taken, rest, outdated, was
      <4> QED
        BY <3>1, <3>2, <4>1, <4>2, <1>s
    <3>3. CASE m # n
      <4>1. taken[m] = options[m] /\ rest[m] = request[m]
        BY <3>3 DEF TypeOK
      <4>2. isActive(st[m]) => states[m] = Waiting \/ isActive(states[m])
        BY <1>0, <1>s, <2>5
      <4>3. enabled(states, fetched, m) => states[m] # Waiting
        BY DEF enabled, isActive, Waiting, Idle, Loading, Revalidating
      <4> HIDE DEF st, shown, taken, rest, outdated, was
      <4> QED
        BY <3>1, <4>1, <4>2, <4>3, <2>1 DEF RequestsCurrent
    <3> QED
      BY <3>2, <3>3
  <2>7. RequestsCurrent(st, was, Render(rest, st, was, bumped, outdated), shown)
    <3> HIDE DEF st, shown, rest, outdated, was, bumped
    <3> QED
      BY <2>6, RenderCurrent
  <2> HIDE DEF st, was, shown, rest, bumped, outdated
  <2> QED
    BY <1>n, <2>3, <2>7
<1> HIDE DEF st, was, shown, rest, bumped, outdated
<1> QED
  BY <1>n, <1>1, <1>2, <1>3, Assemble

-----------------------------------------------------------------------------
(* The theorems.                                                           *)

\* The invariant holds when the dashboard is opened.
LEMMA InitInv ==
  ASSUME Init
  PROVE  IInv
<1>1. TypeOK
  BY MovesAssumption DEF Init, TypeOK, FetchStates, Idle
<1>2. OtherIdle(states)
  BY DEF Init, OtherIdle, Names
<1> QED
  BY <1>1, <1>2 DEF IInv, Init

\* Every step keeps it.
LEMMA NextInv ==
  ASSUME EditsReorder, IInv, [Next]_vars
  PROVE  IInv'
<1>1. CASE RunEffect
  BY <1>1, RunEffectStep
<1>2. CASE \E n \in Names, some \in BOOLEAN : Select(n, some)
  BY <1>2, SelectStep
<1>3. CASE TimeChange \/ Reopen
  BY <1>3, RestartStep
<1>4. CASE \E n \in Fetchable : Answer(n)
  BY <1>4, RejectStep, ReceiveStep DEF Answer
<1>5. CASE \E n \in Fetchable : Retry(n)
  BY <1>5, RetryStep
<1>6. CASE \E q \in Query, h \in Graphs : EditQuery(q, h)
  BY <1>6, EditStep
<1>7. CASE UNCHANGED vars
  <2>1. TypeOK' /\ g' = g /\ OtherIdle(states')
    BY <1>7 DEF IInv, TypeOK, vars
  <2>2. Sound(g) /\ ~effectPending' =>
          /\ QueriesWake(states')
          /\ DynamicsWake(states')
          /\ RequestsCurrent(states', fetched', request', options')
    BY <1>7 DEF IInv, vars
  <2> QED
    BY <2>1, <2>2, Assemble
<1> QED
  BY <1>1, <1>2, <1>3, <1>4, <1>5, <1>6, <1>7 DEF Next

\* The inductive invariant holds of every reachable state of the stores, the
\* requests and the options.
THEOREM Invariant == EditsReorder => (Spec => []IInv)
<1> SUFFICES ASSUME EditsReorder PROVE Spec => []IInv
  OBVIOUS
<1>1. Init => IInv
  BY InitInv
<1>2. IInv /\ [Next]_vars => IInv'
  BY NextInv
<1> QED
  BY <1>1, <1>2, PTL DEF Spec

\* The stores and the requests keep their types.
THEOREM TypeCorrect == EditsReorder => (Spec => []TypeOK)
<1> SUFFICES ASSUME EditsReorder PROVE Spec => []TypeOK
  OBVIOUS
<1>1. IInv => TypeOK
  BY DEF IInv
<1> QED
  BY <1>1, Invariant, PTL

\* On every sound dashboard, however answers, failures, default values and the
\* user's actions are interleaved, whoever waits has someone to wake it and
\* whoever is being fetched has a request in flight (variableFetchStore.ts).
THEOREM NoLostWakeupHolds == EditsReorder => (Spec => []NoLostWakeup)
<1> SUFFICES ASSUME EditsReorder PROVE Spec => []NoLostWakeup
  OBVIOUS
<1>1. IInv => NoLostWakeup
  BY DEF IInv, NoLostWakeup, QueriesWake, DynamicsWake, RequestsCurrent, enabled
<1> QED
  BY <1>1, Invariant, PTL

\* On every sound dashboard an idle variable that was fetched and has no
\* request in flight shows the options of the current values, or its failure.
THEOREM IdleIsFreshHolds == EditsReorder => (Spec => []IdleIsFresh)
<1> SUFFICES ASSUME EditsReorder PROVE Spec => []IdleIsFresh
  OBVIOUS
<1>1. IInv => IdleIsFresh
  BY DEF IInv, IdleIsFresh, RequestsCurrent, enabled
<1> QED
  BY <1>1, Invariant, PTL

-----------------------------------------------------------------------------
(* The settings page, the store of the variables and the graph.            *)

\* Every member of S has a parent in S.
Looping(rs, S) == \A n \in S : \E m \in S : Edge(rs, m, n)

\* The names that a cycle leads to, its own among them.
Behind(rs) == OnCycle(rs) \cup UNION {Reach(rs, m) : m \in OnCycle(rs)}

-----------------------------------------------------------------------------
(* Reachability.                                                           *)

\* The nodes are names, and edges lead between nodes.
LEMMA EdgeNodes ==
  ASSUME NEW rs \in Seq(Row)
  PROVE  /\ Nodes(rs) \subseteq VariableNames
         /\ \A m, n : Edge(rs, m, n) => m \in Nodes(rs) /\ n \in Nodes(rs)
<1>1. DOMAIN rs = 1 .. Len(rs) /\ \A j \in DOMAIN rs : rs[j] \in Row
  OBVIOUS
<1>2. \A r \in Row : r.name \in VariableNames
  BY DEF Row
<1>3. Nodes(rs) \subseteq VariableNames
  BY <1>1, <1>2 DEF Nodes
<1> QED
  BY <1>3 DEF Edge, Nodes, Dependents

\* A child is reached.
LEMMA ReachChild ==
  ASSUME NEW rs, NEW n, NEW c \in VariableNames, Edge(rs, n, c)
  PROVE  c \in Reach(rs, n)
BY DEF Reach

\* What is reached is closed.
LEMMA ReachClosed ==
  ASSUME NEW rs, NEW n
  PROVE  Reach(rs, n) \in SUBSET VariableNames /\ Closed(rs, Reach(rs, n))
<1>1. Reach(rs, n) \in SUBSET VariableNames
  BY DEF Reach
<1>2. ASSUME NEW m \in Reach(rs, n), NEW c \in VariableNames, Edge(rs, m, c)
      PROVE  c \in Reach(rs, n)
  <2>1. ASSUME NEW S \in SUBSET VariableNames, Closed(rs, S),
               \A d \in VariableNames : Edge(rs, n, d) => d \in S
        PROVE  c \in S
    <3>1. m \in S
      BY <2>1 DEF Reach
    <3> QED
      BY <1>2, <2>1, <3>1 DEF Closed
  <2> QED
    BY <2>1 DEF Reach
<1> QED
  BY <1>1, <1>2 DEF Closed

\* It is the least closed set that holds the children.
LEMMA ReachLeast ==
  ASSUME NEW rs, NEW n, NEW S \in SUBSET VariableNames, Closed(rs, S),
         \A c \in VariableNames : Edge(rs, n, c) => c \in S
  PROVE  Reach(rs, n) \subseteq S
BY DEF Reach

\* What is reached from there is reached from here.
LEMMA ReachTransitive ==
  ASSUME NEW rs, NEW n, NEW m \in Reach(rs, n)
  PROVE  Reach(rs, m) \subseteq Reach(rs, n)
<1>1. Reach(rs, n) \in SUBSET VariableNames /\ Closed(rs, Reach(rs, n))
  BY ReachClosed
<1>2. \A c \in VariableNames : Edge(rs, m, c) => c \in Reach(rs, n)
  BY <1>1 DEF Closed
<1> QED
  BY <1>1, <1>2, ReachLeast

\* What a node reaches is its children and what they reach.
LEMMA ReachSplit ==
  ASSUME NEW rs, NEW n
  PROVE  Reach(rs, n) = {x \in VariableNames : \E c \in VariableNames :
                           Edge(rs, n, c) /\ (x = c \/ x \in Reach(rs, c))}
<1> DEFINE S == {x \in VariableNames : \E c \in VariableNames :
                   Edge(rs, n, c) /\ (x = c \/ x \in Reach(rs, c))}
<1>1. ASSUME NEW x \in S PROVE x \in Reach(rs, n)
  <2>1. PICK c \in VariableNames : Edge(rs, n, c) /\ (x = c \/ x \in Reach(rs, c))
    OBVIOUS
  <2>2. c \in Reach(rs, n)
    BY <2>1, ReachChild
  <2> QED
    BY <2>1, <2>2, ReachTransitive
<1>2. Closed(rs, S)
  <2>1. ASSUME NEW m \in S, NEW d \in VariableNames, Edge(rs, m, d) PROVE d \in S
    <3>1. PICK c \in VariableNames : Edge(rs, n, c) /\ (m = c \/ m \in Reach(rs, c))
      OBVIOUS
    <3>2. CASE m = c
      <4>1. d \in Reach(rs, c)
        BY <2>1, <3>2, ReachChild
      <4> QED
        BY <3>1, <4>1
    <3>3. CASE m \in Reach(rs, c)
      <4>1. d \in Reach(rs, c)
        BY <2>1, <3>3, ReachClosed DEF Closed
      <4> QED
        BY <3>1, <4>1
    <3> QED
      BY <3>1, <3>2, <3>3
  <2> HIDE DEF S
  <2> QED
    BY <2>1 DEF Closed
<1>3. Reach(rs, n) \subseteq S
  <2>1. S \in SUBSET VariableNames /\ \A c \in VariableNames : Edge(rs, n, c) => c \in S
    OBVIOUS
  <2> HIDE DEF S
  <2> QED
    BY <1>2, <2>1, ReachLeast
<1> HIDE DEF S
<1>4. Reach(rs, n) = S
  BY <1>1, <1>3
<1> QED
  BY <1>4 DEF S

\* What is reached from n has a parent that is n or reached from n.
LEMMA ReachParent ==
  ASSUME NEW rs, NEW n \in VariableNames, NEW x \in Reach(rs, n)
  PROVE  \E y \in Reach(rs, n) \cup {n} : Edge(rs, y, x)
<1> DEFINE S == {z \in Reach(rs, n) : \E y \in Reach(rs, n) \cup {n} : Edge(rs, y, z)}
<1>1. Reach(rs, n) \in SUBSET VariableNames /\ Closed(rs, Reach(rs, n))
  BY ReachClosed
<1>2. Closed(rs, S)
  <2>1. ASSUME NEW m \in S, NEW d \in VariableNames, Edge(rs, m, d) PROVE d \in S
    <3>1. d \in Reach(rs, n)
      BY <1>1, <2>1 DEF Closed
    <3> QED
      BY <2>1, <3>1
  <2> HIDE DEF S
  <2> QED
    BY <2>1 DEF Closed
<1>3. \A c \in VariableNames : Edge(rs, n, c) => c \in S
  BY ReachChild
<1>4. S \in SUBSET VariableNames
  BY <1>1
<1>5. x \in S
  <2> HIDE DEF S
  <2> QED
    BY <1>2, <1>3, <1>4, ReachLeast
<1> QED
  BY <1>5

\* More edges reach more.
LEMMA ReachMonotone ==
  ASSUME NEW rs, NEW ts, \A m, n \in VariableNames : Edge(rs, m, n) => Edge(ts, m, n)
  PROVE  /\ \A n \in VariableNames : Reach(rs, n) \subseteq Reach(ts, n)
         /\ Cyclic(rs) => Cyclic(ts)
<1>1. ASSUME NEW n \in VariableNames PROVE Reach(rs, n) \subseteq Reach(ts, n)
  <2>1. Reach(ts, n) \in SUBSET VariableNames /\ Closed(ts, Reach(ts, n))
    BY ReachClosed
  <2>2. Closed(rs, Reach(ts, n))
    BY <2>1 DEF Closed
  <2>3. \A c \in VariableNames : Edge(rs, n, c) => c \in Reach(ts, n)
    BY ReachChild
  <2> QED
    BY <2>1, <2>2, <2>3, ReachLeast
<1> QED
  BY <1>1 DEF Cyclic, OnCycle

-----------------------------------------------------------------------------
(* Cycles.                                                                 *)

\* What a node on a cycle reaches has its parents there.
LEMMA CycleLoops ==
  ASSUME NEW rs, NEW m \in OnCycle(rs)
  PROVE  Looping(rs, Reach(rs, m))
<1>1. m \in VariableNames /\ m \in Reach(rs, m)
  BY DEF OnCycle
<1> QED
  BY <1>1, ReachParent DEF Looping

\* A family of subsets of a finite set has a minimal member.
LEMMA MinimalSet ==
  ASSUME NEW U, IsFiniteSet(U), NEW F, F \subseteq SUBSET U, F # {}
  PROVE  \E X \in F : \A Y \in F : Y \subseteq X => Y = X
<1> DEFINE R == StrictSubsetOrdering(U)
<1>1. IsWellFoundedOn(R, SUBSET U)
  BY FS_StrictSubsetOrderingWellFounded, FS_FiniteSubsetsOfFinite
<1>2. \A X, Y \in SUBSET U : Y \subseteq X /\ Y # X => <<Y, X>> \in R
  BY DEF StrictSubsetOrdering
<1> HIDE DEF R
<1>3. PICK X \in F : \A Y \in F : ~(<<Y, X>> \in R)
  BY <1>1, WFMin
<1> QED
  BY <1>2, <1>3

\* In a finite set in which everyone has a parent, a cycle leads to everyone.
LEMMA LoopHasCycle ==
  ASSUME NEW rs, NEW S \in SUBSET VariableNames, IsFiniteSet(S), Looping(rs, S),
         NEW n \in S
  PROVE  n \in Behind(rs)
<1> DEFINE T == {p \in S : p = n \/ n \in Reach(rs, p)}
           Anc(p) == {a \in T : p \in Reach(rs, a)}
           F == {Anc(p) : p \in T}
<1>1. ASSUME NEW p \in T
      PROVE  \E q \in T : Edge(rs, q, p)
  <2>1. PICK q \in S : Edge(rs, q, p)
    BY DEF Looping
  <2>2. p \in Reach(rs, q)
    BY <2>1, ReachChild
  <2>3. n \in Reach(rs, q)
    BY <2>2, ReachTransitive
  <2> QED
    BY <2>1, <2>3
<1>2. PICK p \in T : \A q \in T : Anc(q) \subseteq Anc(p) => Anc(q) = Anc(p)
  <2>1. F \subseteq SUBSET S /\ Anc(n) \in F
    OBVIOUS
  <2>2. PICK X \in F : \A Y \in F : Y \subseteq X => Y = X
    <3> HIDE DEF F
    <3> QED
      BY <2>1, MinimalSet
  <2>3. PICK p \in T : X = Anc(p)
    OBVIOUS
  <2>4. \A q \in T : Anc(q) \in F
    OBVIOUS
  <2> HIDE DEF F, Anc
  <2> QED
    BY <2>2, <2>3, <2>4
<1>3. PICK q \in T : Edge(rs, q, p)
  BY <1>1
<1>4. p \in Reach(rs, q)
  BY <1>3, ReachChild
<1>5. Anc(q) = Anc(p)
  <2>1. Anc(q) \subseteq Anc(p)
    BY <1>4, ReachTransitive
  <2> QED
    BY <1>2, <2>1
<1>6. q \in Anc(p)
  BY <1>4
<1>7. q \in OnCycle(rs)
  BY <1>5, <1>6 DEF OnCycle
<1> QED
  BY <1>7 DEF Behind

-----------------------------------------------------------------------------
(* Lists and counts.                                                       *)

\* A nonempty set of numbers has a least one.
LEMMA LeastNumber ==
  ASSUME NEW S \in SUBSET Nat, S # {}
  PROVE  \E x \in S : \A y \in S : x <= y
<1> DEFINE R == OpToRel(<, Nat)
<1>1. IsWellFoundedOn(R, Nat)
  BY NatLessThanWellFounded, Zenon
<1>2. \A y, x \in Nat : y < x => <<y, x>> \in R
  BY DEF OpToRel
<1> HIDE DEF R
<1>3. PICK x \in S : \A y \in S : ~(<<y, x>> \in R)
  BY <1>1, WFMin
<1>4. ASSUME NEW y \in S PROVE x <= y
  <2>1. ~(y < x)
    BY <1>2, <1>3
  <2> QED
    BY <2>1
<1> QED
  BY <1>4

\* There are n numbers from 1 to n.
LEMMA IntervalSize ==
  ASSUME NEW n \in Nat
  PROVE  IsFiniteSet(1 .. n) /\ Cardinality(1 .. n) = n
BY FS_Interval

\* The instance counts as its users do.
LEMMA SameCounts == \A S : (IsFiniteSet(S) <=> IsFiniteSet(S)) /\ Cardinality(S) = Cardinality(S)
BY DEF IsFiniteSet, IsFiniteSet, Cardinality, Cardinality

\* An arrangement lists its set, each member once.
LEMMA ArrangedLists ==
  ASSUME NEW Z, IsFiniteSet(Z), NEW pos, NEW s \in Arranged(Z, pos)
  PROVE  /\ s \in Seq(Z)
         /\ Len(s) = Cardinality(Z)
         /\ IsInjective(s)
         /\ ToSet(s) = Z
         /\ \A i, j \in DOMAIN s : i < j => pos[s[i]] < pos[s[j]]
<1> DEFINE n == Cardinality(Z)
<1>1. n \in Nat
  BY FS_CardinalityType
<1>2. /\ s \in [1 .. n -> Z]
      /\ \A i, j \in 1 .. n : i # j => s[i] # s[j]
      /\ \A i, j \in DOMAIN s : i < j => pos[s[i]] < pos[s[j]]
  BY SameCounts DEF Arranged, SetToSeqs, IsInjective
<1> HIDE DEF n
<1>3. s \in Seq(Z) /\ Len(s) = n /\ DOMAIN s = 1 .. n
  BY <1>1, <1>2
<1>4. IsInjective(s)
  BY <1>2, <1>3 DEF IsInjective
<1>5. s \in Injection(1 .. n, Z)
  BY <1>2, <1>4 DEF Injection, IsInjective, IsInjective
<1>6. IsFiniteSet(1 .. n) /\ Cardinality(1 .. n) = n
  BY <1>1, IntervalSize
<1>7. s \in Surjection(1 .. n, Z)
  BY <1>5, <1>6, FS_Injection DEF n
<1>8. ToSet(s) = Z
  BY <1>2, <1>3, <1>7 DEF ToSet, Surjection
<1> QED
  BY <1>2, <1>3, <1>4, <1>8 DEF n

\* The members of a sequence are finitely many, and as many as its length when
\* it holds each once.
LEMMA MembersFinite ==
  ASSUME NEW T, NEW s \in Seq(T)
  PROVE  /\ IsFiniteSet(ToSet(s))
         /\ IsInjective(s) => Cardinality(ToSet(s)) = Len(s)
         /\ ToSet(s) \subseteq T
<1>1. s \in [1 .. Len(s) -> T] /\ DOMAIN s = 1 .. Len(s) /\ Len(s) \in Nat
  OBVIOUS
<1>2. s \in Surjection(1 .. Len(s), ToSet(s))
  BY <1>1 DEF Surjection, ToSet
<1>3. IsFiniteSet(1 .. Len(s)) /\ Cardinality(1 .. Len(s)) = Len(s)
  BY <1>1, IntervalSize
<1>4. /\ IsFiniteSet(ToSet(s))
      /\ Cardinality(ToSet(s)) = Cardinality(1 .. Len(s)) <=>
           s \in Injection(1 .. Len(s), ToSet(s))
  BY <1>2, <1>3, FS_Surjection
<1>5. IsInjective(s) => s \in Injection(1 .. Len(s), ToSet(s))
  BY <1>1 DEF Injection, IsInjective, IsInjective, ToSet
<1>6. ToSet(s) \subseteq T
  BY <1>1 DEF ToSet
<1> QED
  BY <1>3, <1>4, <1>5, <1>6

\* A graph is finite.
LEMMA GraphFinite ==
  ASSUME NEW rs \in Seq(Row)
  PROVE  IsFiniteSet(Nodes(rs)) /\ IsFiniteSet(Links(rs))
<1>1. DOMAIN rs = 1 .. Len(rs) /\ Len(rs) \in Nat
  OBVIOUS
<1>2. IsFiniteSet(DOMAIN rs)
  BY <1>1, FS_Interval
<1> DEFINE f == [j \in DOMAIN rs |-> rs[j].name]
<1>3. f \in Surjection(DOMAIN rs, Nodes(rs))
  BY DEF Surjection, Nodes
<1>4. IsFiniteSet(Nodes(rs))
  BY <1>2, <1>3, FS_Surjection
<1>5. IsFiniteSet(Nodes(rs) \X DOMAIN rs)
  BY <1>2, <1>4, FS_Product
<1>6. Links(rs) \in SUBSET (Nodes(rs) \X DOMAIN rs)
  BY DEF Links
<1> QED
  BY <1>4, <1>5, <1>6, FS_Subset

\* The in-degree counts parents: it is zero when there are none.
LEMMA DegreeCounts ==
  ASSUME NEW rs \in Seq(Row), NEW S \in SUBSET Nodes(rs), NEW n
  PROVE  /\ inDegree(rs, S, n) \in Nat
         /\ inDegree(rs, S, n) = 0 <=> \A p \in S : ~Edge(rs, p, n)
<1> DEFINE L == {l \in Links(rs) : l[1] \in S /\ rs[l[2]].name = n}
<1>1. IsFiniteSet(L)
  BY GraphFinite, FS_Subset
<1>2. Cardinality(L) \in Nat /\ (Cardinality(L) = 0 <=> L = {})
  <2> HIDE DEF L
  <2> QED
    BY <1>1, FS_CardinalityType, FS_EmptySet
<1>3. ASSUME NEW l \in L PROVE \E p \in S : Edge(rs, p, n)
  BY DEF Links, Edge
<1>4. ASSUME NEW p \in S, Edge(rs, p, n) PROVE \E l : l \in L
  <2>1. PICK j \in Dependents(rs, p) : rs[j].name = n
    BY <1>4 DEF Edge
  <2>2. <<p, j>> \in L
    BY <2>1 DEF Links, Dependents
  <2> QED
    BY <2>2
<1>5. inDegree(rs, S, n) = Cardinality(L)
  BY SameCounts DEF inDegree
<1> HIDE DEF L
<1> QED
  BY <1>2, <1>3, <1>4, <1>5

\* Its share of a node is what the visit of the node takes off.
LEMMA DegreeDrops ==
  ASSUME NEW rs \in Seq(Row), NEW S \in SUBSET Nodes(rs), NEW c \in S, NEW n
  PROVE  inDegree(rs, S, n) - inDegree(rs, {c}, n) = inDegree(rs, S \ {c}, n)
<1> DEFINE L == {l \in Links(rs) : l[1] \in S /\ rs[l[2]].name = n}
           C == {l \in Links(rs) : l[1] \in {c} /\ rs[l[2]].name = n}
           M == {l \in Links(rs) : l[1] \in S \ {c} /\ rs[l[2]].name = n}
<1>1. IsFiniteSet(L)
  BY GraphFinite, FS_Subset
<1>2. M = L \ C /\ L \cap C = C
  OBVIOUS
<1>3. inDegree(rs, S, n) = Cardinality(L) /\ inDegree(rs, {c}, n) = Cardinality(C)
      /\ inDegree(rs, S \ {c}, n) = Cardinality(M)
  BY SameCounts DEF inDegree
<1> HIDE DEF L, C, M
<1>4. Cardinality(M) = Cardinality(L) - Cardinality(C)
  <2>1. Cardinality(L \ C) = Cardinality(L) - Cardinality(L \cap C)
    BY <1>1, FS_Difference
  <2> QED
    BY <1>2, <2>1
<1> QED
  BY <1>3, <1>4

-----------------------------------------------------------------------------
(* The inductive invariant.                                                *)

\* The nodes that the search has entered and left.
Searched == visited \ ToSet(stack)

\* The degrees when the nodes of S have been ordered.
DegreeWithout(S) == [n \in Nodes(rows) |-> inDegree(rows, Nodes(rows) \ S, n)]

GraphTypeOK ==
  /\ rows \in Seq(Row)
  /\ phase \in {"idle", "search", "seed", "sort", "walk"}
  /\ visited \in SUBSET Nodes(rows)
  /\ stack \in Seq(Nodes(rows))
  /\ queue \in Seq(Nodes(rows))
  /\ order \in Seq(Nodes(rows))
  /\ left \in 0 .. Len(order)
  /\ desc \in [Nodes(rows) -> Seq(Nodes(rows))]

\* The stack is a path; what has been searched leads only to what has been
\* searched, and holds no cycle.
SearchInv ==
  phase = "search" =>
    /\ found = <<>>
    /\ order = <<>>
    /\ degree = DegreeWithout({})
    /\ IsInjective(stack)
    /\ ToSet(stack) \subseteq visited
    /\ \A i, j \in DOMAIN stack : i < j => stack[j] \in Reach(rows, stack[i])
    /\ \A m \in Searched, n \in VariableNames : Edge(rows, m, n) => n \in Searched
    /\ \A S \in SUBSET Searched : Looping(rows, S) => S = {}

\* What the search came to.
FoundInv ==
  phase \in {"seed", "sort", "walk"} =>
    /\ found # <<>> <=> Cyclic(rows)
    /\ Cyclic(rows) =>
         /\ Edge(rows, found[1], found[2])
         /\ found[1] = found[2] \/ found[1] \in Reach(rows, found[2])

SeedInv == phase = "seed" => order = <<>> /\ degree = DegreeWithout({})

\* The parents of an ordered node come before it.
ParentsFirst ==
  \A i \in DOMAIN order : \A p \in Nodes(rows) :
    Edge(rows, p, order[i]) => \E j \in DOMAIN order : j < i /\ order[j] = p

SortInv ==
  phase = "sort" =>
    /\ IsInjective(order)
    /\ IsInjective(queue)
    /\ ToSet(order) \cap ToSet(queue) = {}
    /\ degree = DegreeWithout(ToSet(order))
    /\ \A n \in Nodes(rows) : degree[n] = 0 <=> n \in ToSet(order) \cup ToSet(queue)
    /\ ParentsFirst

WalkInv ==
  phase = "walk" =>
    /\ IsInjective(order)
    /\ ToSet(order) = Nodes(rows) \ Behind(rows)
    /\ ParentsFirst
    /\ ~Cyclic(rows) => \A i \in DOMAIN order : i > left =>
         /\ IsInjective(desc[order[i]])
         /\ ToSet(desc[order[i]]) = Reach(rows, order[i])

GraphInv == /\ GraphTypeOK /\ SearchInv /\ FoundInv /\ SeedInv /\ SortInv /\ WalkInv

\* Every row of ts is a row of rs.
Within(ts, rs) == ToSet(ts) \subseteq ToSet(rs)

\* If the user is patient, the list that is checked holds the rows of the list
\* that may be sent, and the list on its way to the store has no first cycle.
JobInv ==
  /\ variables \in Seq(Row) /\ target \in Seq(Row) /\ table \in Seq(Row)
  /\ job \in {"load", "check", "store", "none"}
  /\ phase = "idle" <=> job = "none"
  /\ job = "load" => rows = variables
  /\ Patient /\ job = "check" => Within(target, rows)
  /\ Patient /\ job = "store" => (~Cyclic(variables) => ~Cyclic(rows))

\* Such a user has at most one request under way.
RequestsInv ==
  /\ requests \in Seq(Seq(Row))
  /\ Patient =>
       \/ requests = <<>>
       \/ /\ phase = "idle"
          /\ \E r \in Seq(Row) : requests = <<r>> /\ (~Cyclic(variables) => ~Cyclic(r))

\* What the data d says of the list rs: the edges, the order and the
\* descendants, and the cycle.
EdgesExact(rs, d) ==
  /\ d.graph = [n \in Nodes(rs) |-> {rs[j].name : j \in Dependents(rs, n)}]
  /\ d.desc \in [Nodes(rs) -> Seq(Nodes(rs))]
  /\ d.order \in Seq(Nodes(rs))

OrderExact(rs, d) ==
  /\ IsInjective(d.order)
  /\ ToSet(d.order) =
       {rs[j].name : j \in {j \in DOMAIN rs : rs[j].query}} \ Behind(rs)
  /\ \A i, j \in DOMAIN d.order : d.order[j] \in Reach(rs, d.order[i]) => i < j
  /\ ~Cyclic(rs) => \A n \in Nodes(rs) :
       IsInjective(d.desc[n]) /\ ToSet(d.desc[n]) = Reach(rs, n)

CycleExact(rs, d) ==
  /\ d.hasCycle <=> Cyclic(rs)
  /\ d.cycle # <<>> <=> Cyclic(rs)
  /\ Cyclic(rs) =>
       /\ Edge(rs, d.cycle[1], d.cycle[2])
       /\ d.cycle[1] = d.cycle[2] \/ d.cycle[1] \in Reach(rs, d.cycle[2])

DataInv ==
  job # "load" =>
    /\ EdgesExact(variables, dependencyData)
    /\ OrderExact(variables, dependencyData)
    /\ CycleExact(variables, dependencyData)

PageInv == GraphInv /\ JobInv /\ RequestsInv /\ DataInv

-----------------------------------------------------------------------------
(* The depth-first search.                                                 *)

\* Appending, as far as the members are concerned.
LEMMA AppendMembers ==
  ASSUME NEW T, NEW s \in Seq(T), NEW e \in T
  PROVE  /\ Append(s, e) \in Seq(T)
         /\ DOMAIN s = 1 .. Len(s) /\ Len(s) \in Nat
         /\ DOMAIN Append(s, e) = 1 .. Len(s) + 1
         /\ \A i \in 1 .. Len(s) : Append(s, e)[i] = s[i]
         /\ Append(s, e)[Len(s) + 1] = e
         /\ ToSet(Append(s, e)) = ToSet(s) \cup {e}
         /\ IsInjective(s) /\ e \notin ToSet(s) => IsInjective(Append(s, e))
<1> DEFINE a == Append(s, e)
<1>1. /\ a \in Seq(T)
      /\ DOMAIN s = 1 .. Len(s) /\ Len(s) \in Nat
      /\ DOMAIN a = 1 .. Len(s) + 1
      /\ \A i \in 1 .. Len(s) : a[i] = s[i]
      /\ a[Len(s) + 1] = e
  BY AppendProperties
<1> HIDE DEF a
<1>2. \A i \in DOMAIN a : i \in 1 .. Len(s) \/ i = Len(s) + 1
  BY <1>1
<1>3. ToSet(a) = ToSet(s) \cup {e}
  <2>1. ASSUME NEW x \in ToSet(a) PROVE x \in ToSet(s) \cup {e}
    BY <1>1, <1>2 DEF ToSet
  <2>2. ToSet(s) \subseteq ToSet(a)
    BY <1>1 DEF ToSet
  <2>3. e \in ToSet(a)
    BY <1>1 DEF ToSet
  <2> QED
    BY <2>1, <2>2, <2>3
<1>4. ASSUME IsInjective(s), e \notin ToSet(s) PROVE IsInjective(a)
  <2>1. \A i \in 1 .. Len(s) : s[i] # e
    BY <1>1, <1>4 DEF ToSet
  <2>2. ASSUME NEW i \in DOMAIN a, NEW j \in DOMAIN a, a[i] = a[j] PROVE i = j
    <3>1. CASE i \in 1 .. Len(s) /\ j \in 1 .. Len(s)
      BY <1>1, <1>4, <2>2, <3>1 DEF IsInjective
    <3>2. CASE i = Len(s) + 1
      BY <1>1, <1>2, <2>1, <2>2, <3>2
    <3>3. CASE j = Len(s) + 1
      BY <1>1, <1>2, <2>1, <2>2, <3>3
    <3> QED
      BY <1>2, <3>1, <3>2, <3>3
  <2> QED
    BY <2>2 DEF IsInjective
<1> QED
  BY <1>1, <1>3, <1>4 DEF a

\* A node is entered that every node on the stack reaches.
LEMMA EnterKeeps ==
  ASSUME GraphInv, phase = "search", NEW n \in Nodes(rows), n \notin visited,
         \A i \in DOMAIN stack : n \in Reach(rows, stack[i]), Enter(n)
  PROVE  GraphInv'
<1>1. /\ stack' = Append(stack, n) /\ visited' = visited \cup {n}
      /\ rows' = rows /\ phase' = phase /\ found' = found /\ degree' = degree
      /\ queue' = queue /\ order' = order /\ left' = left /\ desc' = desc
  BY DEF Enter
<1>2. GraphTypeOK /\ SearchInv
  BY DEF GraphInv
<1>3. stack \in Seq(Nodes(rows)) /\ visited \in SUBSET Nodes(rows)
  BY <1>2 DEF GraphTypeOK
<1>4. /\ Append(stack, n) \in Seq(Nodes(rows))
      /\ DOMAIN stack = 1 .. Len(stack) /\ Len(stack) \in Nat
      /\ DOMAIN Append(stack, n) = 1 .. Len(stack) + 1
      /\ \A i \in 1 .. Len(stack) : Append(stack, n)[i] = stack[i]
      /\ Append(stack, n)[Len(stack) + 1] = n
      /\ ToSet(Append(stack, n)) = ToSet(stack) \cup {n}
      /\ IsInjective(stack) /\ n \notin ToSet(stack) => IsInjective(Append(stack, n))
  BY <1>3, AppendMembers
<1>5. ToSet(stack) \subseteq visited /\ IsInjective(stack)
  BY <1>2 DEF SearchInv
<1>6. GraphTypeOK'
  BY <1>1, <1>2, <1>4 DEF GraphTypeOK
<1>7. Searched' = Searched
  BY <1>1, <1>4, <1>5 DEF Searched
<1>8. ASSUME NEW i \in DOMAIN stack', NEW j \in DOMAIN stack', i < j
      PROVE  stack'[j] \in Reach(rows, stack'[i])
  <2>1. i \in 1 .. Len(stack) /\ stack'[i] = stack[i]
    BY <1>1, <1>4, <1>8
  <2>2. CASE j = Len(stack) + 1
    BY <1>1, <1>4, <2>1, <2>2
  <2>3. CASE j \in 1 .. Len(stack)
    BY <1>1, <1>2, <1>4, <1>8, <2>1, <2>3 DEF SearchInv
  <2> QED
    BY <1>1, <1>4, <2>2, <2>3
<1>9. SearchInv'
  <2>1. /\ found' = <<>> /\ order' = <<>> /\ degree' = DegreeWithout({})'
        /\ \A m \in Searched', k \in VariableNames : Edge(rows', m, k) => k \in Searched'
        /\ \A S \in SUBSET Searched' : Looping(rows', S) => S = {}
    BY <1>1, <1>2, <1>7 DEF SearchInv, DegreeWithout
  <2>2. IsInjective(stack') /\ ToSet(stack') \subseteq visited'
    BY <1>1, <1>4, <1>5
  <2>3. \A i, j \in DOMAIN stack' : i < j => stack'[j] \in Reach(rows', stack'[i])
    BY <1>1, <1>8
  <2> QED
    BY <2>1, <2>2, <2>3 DEF SearchInv
<1> QED
  BY <1>1, <1>6, <1>9 DEF GraphInv, FoundInv, SeedInv, SortInv, WalkInv

\* The search of a new root.
LEMMA SearchRootKeeps ==
  ASSUME GraphInv, SearchRoot
  PROVE  GraphInv'
<1>1. PICK j \in DOMAIN rows : First(j, Fresh) /\ Enter(rows[j].name)
  BY DEF SearchRoot
<1>2. rows[j].name \in Nodes(rows) /\ rows[j].name \notin visited
  BY <1>1 DEF First, Fresh, Nodes
<1>3. phase = "search" /\ DOMAIN stack = {}
  BY DEF SearchRoot
<1> QED
  BY <1>1, <1>2, <1>3, EnterKeeps

\* The top of the stack.
LEMMA TopOfStack ==
  ASSUME GraphInv, stack # <<>>
  PROVE  /\ Len(stack) \in Nat \ {0} /\ DOMAIN stack = 1 .. Len(stack)
         /\ Last(stack) = stack[Len(stack)]
         /\ Last(stack) \in Nodes(rows) /\ Last(stack) \in VariableNames
         /\ \A j \in Dependents(rows, Last(stack)) :
              Edge(rows, Last(stack), rows[j].name) /\ rows[j].name \in VariableNames
<1>1. stack \in Seq(Nodes(rows)) /\ rows \in Seq(Row)
  BY DEF GraphInv, GraphTypeOK
<1>2. Len(stack) \in Nat \ {0} /\ DOMAIN stack = 1 .. Len(stack)
  BY <1>1, EmptySeq
<1>3. Last(stack) = stack[Len(stack)] /\ Last(stack) \in Nodes(rows)
  BY <1>1, <1>2 DEF Last
<1>4. Nodes(rows) \subseteq VariableNames
  BY <1>1, EdgeNodes
<1>5. \A j \in Dependents(rows, Last(stack)) :
         Edge(rows, Last(stack), rows[j].name) /\ rows[j].name \in Nodes(rows)
  BY <1>3 DEF Edge, Dependents, Nodes
<1> QED
  BY <1>2, <1>3, <1>4, <1>5

\* Every node on the stack reaches the children of the top.
LEMMA StackReaches ==
  ASSUME GraphInv, phase = "search", stack # <<>>,
         NEW n \in VariableNames, Edge(rows, Last(stack), n), NEW i \in DOMAIN stack
  PROVE  n \in Reach(rows, stack[i])
<1>1. /\ Len(stack) \in Nat \ {0} /\ DOMAIN stack = 1 .. Len(stack)
      /\ Last(stack) = stack[Len(stack)]
  BY TopOfStack
<1>2. \A k, j \in DOMAIN stack : k < j => stack[j] \in Reach(rows, stack[k])
  BY DEF GraphInv, SearchInv
<1>3. CASE i = Len(stack)
  BY <1>1, <1>3, ReachChild
<1>4. CASE i < Len(stack)
  <2>1. Last(stack) \in Reach(rows, stack[i])
    BY <1>1, <1>2, <1>4
  <2> QED
    BY <2>1, ReachClosed DEF Closed
<1> QED
  BY <1>1, <1>3, <1>4

\* The search of a neighbour: the new top is reached from all below it.
LEMMA SearchNeighbourKeeps ==
  ASSUME GraphInv, SearchNeighbour
  PROVE  GraphInv'
<1>1. phase = "search" /\ stack # <<>>
  BY DEF SearchNeighbour
<1>2. PICK j \in DOMAIN rows :
        First(j, Ahead) /\ rows[j].name \notin visited /\ Enter(rows[j].name)
  BY DEF SearchNeighbour
<1>3. j \in Dependents(rows, Last(stack))
  BY <1>2 DEF First, Ahead
<1>4. Edge(rows, Last(stack), rows[j].name) /\ rows[j].name \in VariableNames
  BY <1>1, <1>3, TopOfStack
<1>5. rows[j].name \in Nodes(rows)
  BY DEF Nodes
<1>6. \A i \in DOMAIN stack : rows[j].name \in Reach(rows, stack[i])
  BY <1>1, <1>4, StackReaches
<1> QED
  BY <1>1, <1>2, <1>5, <1>6, EnterKeeps

\* The edge found closes a cycle.
LEMMA SearchFindsKeeps ==
  ASSUME GraphInv, SearchFinds
  PROVE  GraphInv'
<1>1. /\ phase = "search" /\ stack # <<>> /\ phase' = "seed" /\ rows' = rows
      /\ visited' = visited /\ stack' = stack /\ degree' = degree /\ queue' = queue
      /\ order' = order /\ left' = left /\ desc' = desc
  BY DEF SearchFinds
<1>2. PICK j \in DOMAIN rows :
        /\ First(j, Ahead)
        /\ rows[j].name \in visited
        /\ found' = <<Last(stack), rows[j].name>>
  BY DEF SearchFinds
<1> DEFINE n == rows[j].name
           t == Last(stack)
<1>3. j \in Dependents(rows, t) /\ OnStack(n)
  BY <1>2 DEF First, Ahead
<1>4. PICK i \in DOMAIN stack : stack[i] = n
  BY <1>3 DEF OnStack
<1>5. Edge(rows, t, n) /\ n \in VariableNames /\ t \in VariableNames
  BY <1>1, <1>3, TopOfStack
<1>6. n \in OnCycle(rows)
  BY <1>1, <1>4, <1>5, StackReaches DEF OnCycle
<1>7. t = n \/ t \in Reach(rows, n)
  <2>1. /\ Len(stack) \in Nat \ {0} /\ DOMAIN stack = 1 .. Len(stack)
        /\ t = stack[Len(stack)]
    BY <1>1, TopOfStack
  <2>2. \A k, l \in DOMAIN stack : k < l => stack[l] \in Reach(rows, stack[k])
    BY <1>1 DEF GraphInv, SearchInv
  <2>3. i = Len(stack) \/ (i < Len(stack) /\ Len(stack) \in DOMAIN stack)
    BY <2>1
  <2> HIDE DEF n, t
  <2> QED
    BY <1>4, <2>1, <2>2, <2>3
<1>8. FoundInv'
  <2>1. found' = <<t, n>> /\ rows' = rows
    BY <1>1, <1>2
  <2> HIDE DEF n, t
  <2>2. found' # <<>> /\ found'[1] = t /\ found'[2] = n
    BY <2>1
  <2>3. Cyclic(rows')
    BY <1>6, <2>1 DEF Cyclic
  <2> QED
    BY <1>5, <1>7, <2>1, <2>2, <2>3 DEF FoundInv
<1>9. SeedInv'
  BY <1>1 DEF GraphInv, SearchInv, SeedInv, DegreeWithout
<1>10. GraphTypeOK'
  BY <1>1 DEF GraphInv, GraphTypeOK
<1> QED
  BY <1>1, <1>8, <1>9, <1>10 DEF GraphInv, SearchInv, SortInv, WalkInv

\* Taking the last entry off.
LEMMA FrontMembers ==
  ASSUME NEW T, NEW s \in Seq(T), s # <<>>, IsInjective(s)
  PROVE  /\ Front(s) \in Seq(T)
         /\ DOMAIN Front(s) = 1 .. Len(s) - 1
         /\ \A i \in 1 .. Len(s) - 1 : Front(s)[i] = s[i]
         /\ IsInjective(Front(s))
         /\ ToSet(Front(s)) = ToSet(s) \ {Last(s)}
         /\ Last(s) \in ToSet(s)
<1> DEFINE f == Front(s)
           k == Len(s)
<1>1. k \in Nat \ {0} /\ DOMAIN s = 1 .. k
  BY EmptySeq
<1>2. 1 \in Nat /\ k - 1 \in Nat /\ k - 1 <= k
  BY <1>1
<1>3. f \in Seq(T) /\ Len(f) = k - 1 /\ \A i \in 1 .. k - 1 : f[i] = s[i]
  BY <1>1, SubSeqProperties DEF Front
<1>4. DOMAIN f = 1 .. k - 1
  BY <1>2, <1>3
<1>5. Last(s) = s[k]
  BY DEF Last
<1> HIDE DEF f, k
<1>6. IsInjective(f)
  BY <1>1, <1>3, <1>4 DEF IsInjective
<1>7. \A i \in 1 .. k - 1 : i \in DOMAIN s /\ k \in DOMAIN s /\ i # k
  BY <1>1
<1>8. \A i \in DOMAIN s : i \in 1 .. k - 1 \/ i = k
  BY <1>1
<1>9. ToSet(f) = ToSet(s) \ {s[k]}
  BY <1>3, <1>4, <1>7, <1>8 DEF ToSet, IsInjective
<1>10. s[k] \in ToSet(s)
  BY <1>1 DEF ToSet
<1> QED
  BY <1>3, <1>4, <1>5, <1>6, <1>9, <1>10 DEF f, k

\* A node that is left leads only to nodes that were left before: it closes no
\* cycle among them.
LEMMA SearchReturnsKeeps ==
  ASSUME GraphInv, SearchReturns
  PROVE  GraphInv'
<1>1. /\ phase = "search" /\ stack # <<>> /\ Ahead = {} /\ stack' = Front(stack)
      /\ rows' = rows /\ phase' = phase /\ visited' = visited /\ found' = found
      /\ degree' = degree /\ queue' = queue /\ order' = order /\ left' = left
      /\ desc' = desc
  BY DEF SearchReturns
<1>2. GraphTypeOK /\ SearchInv
  BY DEF GraphInv
<1>3. stack \in Seq(Nodes(rows)) /\ visited \in SUBSET Nodes(rows) /\ rows \in Seq(Row)
  BY <1>2 DEF GraphTypeOK
<1>4. IsInjective(stack) /\ ToSet(stack) \subseteq visited
  BY <1>1, <1>2 DEF SearchInv
<1> DEFINE t == Last(stack)
<1>5. /\ Front(stack) \in Seq(Nodes(rows))
      /\ DOMAIN Front(stack) = 1 .. Len(stack) - 1
      /\ \A i \in 1 .. Len(stack) - 1 : Front(stack)[i] = stack[i]
      /\ IsInjective(Front(stack))
      /\ ToSet(Front(stack)) = ToSet(stack) \ {t}
      /\ t \in ToSet(stack)
  BY <1>1, <1>3, <1>4, FrontMembers
<1>6. Len(stack) \in Nat \ {0} /\ DOMAIN stack = 1 .. Len(stack)
  BY <1>1, TopOfStack
<1>7. GraphTypeOK'
  BY <1>1, <1>2, <1>5 DEF GraphTypeOK
<1>8. Searched' = Searched \cup {t} /\ t \notin Searched
  BY <1>1, <1>4, <1>5 DEF Searched
<1>9. ASSUME NEW n \in VariableNames, Edge(rows, t, n) PROVE n \in Searched
  <2>1. PICK j \in Dependents(rows, t) : rows[j].name = n
    BY <1>9 DEF Edge
  <2>2. rows[j].name \in visited /\ ~OnStack(rows[j].name)
    BY <1>1, <2>1 DEF Ahead
  <2> QED
    BY <2>1, <2>2 DEF Searched, OnStack, ToSet
<1>10. \A m \in Searched, n \in VariableNames : Edge(rows, m, n) => n \in Searched
  BY <1>1, <1>2 DEF SearchInv
<1> HIDE DEF t
<1>11. \A m \in Searched', n \in VariableNames : Edge(rows', m, n) => n \in Searched'
  BY <1>1, <1>8, <1>9, <1>10
<1>12. ASSUME NEW S \in SUBSET Searched', Looping(rows, S) PROVE S = {}
  <2>1. t \notin S
    <3>1. SUFFICES ASSUME t \in S PROVE FALSE
      OBVIOUS
    <3>2. PICK m \in S : Edge(rows, m, t)
      BY <1>12, <3>1 DEF Looping
    <3>3. t \in VariableNames
      BY <1>3, <3>2, EdgeNodes
    <3> QED
      BY <1>8, <1>9, <1>10, <3>2, <3>3
  <2>2. S \in SUBSET Searched
    BY <1>8, <2>1
  <2> QED
    BY <1>1, <1>2, <1>12, <2>2 DEF SearchInv
<1>13. \A i, j \in DOMAIN stack' : i < j => stack'[j] \in Reach(rows', stack'[i])
  <2>1. ASSUME NEW i \in DOMAIN stack', NEW j \in DOMAIN stack', i < j
        PROVE  stack'[j] \in Reach(rows', stack'[i])
    <3>1. i \in DOMAIN stack /\ j \in DOMAIN stack
          /\ stack'[i] = stack[i] /\ stack'[j] = stack[j]
      BY <1>1, <1>5, <1>6
    <3> QED
      BY <1>1, <1>2, <2>1, <3>1 DEF SearchInv
  <2> QED
    BY <2>1
<1>14. /\ found' = <<>> /\ order' = <<>> /\ degree' = DegreeWithout({})'
  BY <1>1, <1>2 DEF SearchInv, DegreeWithout
<1>15. IsInjective(stack') /\ ToSet(stack') \subseteq visited'
  BY <1>1, <1>4, <1>5
<1>16. \A S \in SUBSET Searched' : Looping(rows', S) => S = {}
  BY <1>1, <1>12
<1>17. SearchInv'
  BY <1>11, <1>13, <1>14, <1>15, <1>16 DEF SearchInv
<1> QED
  BY <1>1, <1>7, <1>17 DEF GraphInv, FoundInv, SeedInv, SortInv, WalkInv

\* What is on a cycle or behind one is a node.
LEMMA BehindNodes ==
  ASSUME NEW rs \in Seq(Row)
  PROVE  /\ \A n \in VariableNames : Reach(rs, n) \subseteq Nodes(rs)
         /\ OnCycle(rs) \subseteq Nodes(rs)
         /\ Behind(rs) \subseteq Nodes(rs)
<1>1. ASSUME NEW n \in VariableNames PROVE Reach(rs, n) \subseteq Nodes(rs)
  BY ReachParent, EdgeNodes
<1> QED
  BY <1>1 DEF OnCycle, Behind

\* The search comes to its end: no loop is left, so there is no cycle.
LEMMA SearchEndsKeeps ==
  ASSUME GraphInv, SearchEnds
  PROVE  GraphInv'
<1>1. /\ phase = "search" /\ stack = <<>> /\ Fresh = {} /\ phase' = "seed"
      /\ rows' = rows /\ visited' = visited /\ stack' = stack /\ found' = found
      /\ degree' = degree /\ queue' = queue /\ order' = order /\ left' = left
      /\ desc' = desc
  BY DEF SearchEnds
<1>2. GraphTypeOK /\ SearchInv
  BY DEF GraphInv
<1>3. Nodes(rows) \subseteq Searched
  BY <1>1 DEF Fresh, Nodes, Searched, ToSet
<1>4. ~Cyclic(rows)
  <2>1. SUFFICES ASSUME NEW m \in OnCycle(rows) PROVE FALSE
    BY DEF Cyclic
  <2>2. Looping(rows, Reach(rows, m))
    BY CycleLoops
  <2>3. m \in VariableNames /\ m \in Reach(rows, m)
    BY DEF OnCycle
  <2>4. Reach(rows, m) \in SUBSET Searched
    BY <1>2, <1>3, <2>3, BehindNodes DEF GraphTypeOK
  <2> QED
    BY <1>1, <1>2, <2>2, <2>3, <2>4 DEF SearchInv
<1>5. FoundInv'
  BY <1>1, <1>2, <1>4 DEF SearchInv, FoundInv
<1>6. SeedInv'
  BY <1>1, <1>2 DEF SearchInv, SeedInv, DegreeWithout
<1>7. GraphTypeOK'
  BY <1>1, <1>2 DEF GraphTypeOK
<1> QED
  BY <1>1, <1>5, <1>6, <1>7 DEF GraphInv, SearchInv, SortInv, WalkInv

-----------------------------------------------------------------------------
(* Kahn's algorithm.                                                       *)

\* Taking the head off.
LEMMA TailMembers ==
  ASSUME NEW T, NEW s \in Seq(T), s # <<>>, IsInjective(s)
  PROVE  /\ Tail(s) \in Seq(T)
         /\ Head(s) \in T /\ Head(s) \in ToSet(s)
         /\ IsInjective(Tail(s))
         /\ ToSet(Tail(s)) = ToSet(s) \ {Head(s)}
<1> DEFINE f == Tail(s)
           k == Len(s)
<1>1. k \in Nat \ {0} /\ DOMAIN s = 1 .. k /\ \A i \in 1 .. k : s[i] \in T
  BY EmptySeq
<1>2. f \in Seq(T) /\ Len(f) = k - 1 /\ \A i \in 1 .. k - 1 : f[i] = s[i + 1]
  BY <1>1, HeadTailProperties
<1>3. DOMAIN f = 1 .. k - 1
  BY <1>1, <1>2
<1>4. Head(s) = s[1]
  OBVIOUS
<1> HIDE DEF f, k
<1>5. IsInjective(f)
  <2>1. ASSUME NEW i \in DOMAIN f, NEW j \in DOMAIN f, f[i] = f[j] PROVE i = j
    <3>1. i + 1 \in DOMAIN s /\ j + 1 \in DOMAIN s /\ s[i + 1] = s[j + 1]
      BY <1>1, <1>2, <1>3, <2>1
    <3>2. i + 1 = j + 1 /\ i \in Nat /\ j \in Nat
      BY <1>1, <1>3, <3>1 DEF IsInjective
    <3> QED
      BY <3>2
  <2> QED
    BY <2>1 DEF IsInjective
<1>6. ASSUME NEW x \in ToSet(f) PROVE x \in ToSet(s) /\ x # s[1]
  <2>1. PICK i \in 1 .. k - 1 : x = f[i]
    BY <1>3 DEF ToSet
  <2>2. i + 1 \in DOMAIN s /\ 1 \in DOMAIN s /\ i + 1 # 1 /\ x = s[i + 1]
    BY <1>1, <1>2, <2>1
  <2> QED
    BY <2>2 DEF ToSet, IsInjective
<1>7. ASSUME NEW x \in ToSet(s), x # s[1] PROVE x \in ToSet(f)
  <2>1. PICK i \in DOMAIN s : x = s[i]
    BY DEF ToSet
  <2>2. i - 1 \in 1 .. k - 1 /\ (i - 1) + 1 = i
    BY <1>1, <1>7, <2>1
  <2>3. f[i - 1] = x
    BY <1>2, <2>1, <2>2
  <2> QED
    BY <1>3, <2>2, <2>3 DEF ToSet
<1>8. s[1] \in ToSet(s) /\ s[1] \in T
  BY <1>1 DEF ToSet
<1>9. ToSet(f) = ToSet(s) \ {s[1]}
  BY <1>6, <1>7
<1> QED
  BY <1>2, <1>4, <1>5, <1>8, <1>9 DEF f

\* Putting two lists together.
LEMMA ConcatMembers ==
  ASSUME NEW T, NEW s \in Seq(T), NEW u \in Seq(T)
  PROVE  /\ s \o u \in Seq(T)
         /\ ToSet(s \o u) = ToSet(s) \cup ToSet(u)
         /\ IsInjective(s) /\ IsInjective(u) /\ ToSet(s) \cap ToSet(u) = {}
              => IsInjective(s \o u)
<1> DEFINE c == s \o u
           k == Len(s)
           l == Len(u)
<1>1. k \in Nat /\ l \in Nat /\ DOMAIN s = 1 .. k /\ DOMAIN u = 1 .. l
  OBVIOUS
<1>2. c \in Seq(T) /\ Len(c) = k + l
      /\ \A i \in 1 .. k + l : c[i] = IF i <= k THEN s[i] ELSE u[i - k]
  BY ConcatProperties
<1>3. DOMAIN c = 1 .. k + l
  BY <1>1, <1>2
<1> HIDE DEF c, k, l
<1>4. \A i \in 1 .. k : i \in DOMAIN c /\ c[i] = s[i]
  BY <1>1, <1>2, <1>3
<1>5. \A i \in 1 .. l : k + i \in DOMAIN c /\ c[k + i] = u[i]
  <2>1. ASSUME NEW i \in 1 .. l PROVE k + i \in DOMAIN c /\ c[k + i] = u[i]
    <3>1. k + i \in 1 .. k + l /\ ~(k + i <= k) /\ (k + i) - k = i
      BY <1>1
    <3> QED
      BY <1>2, <1>3, <3>1
  <2> QED
    BY <2>1
<1>6. \A i \in DOMAIN c : i \in 1 .. k \/ (i - k \in 1 .. l /\ i = k + (i - k))
  BY <1>1, <1>3
<1>7. ToSet(c) = ToSet(s) \cup ToSet(u)
  <2>1. ASSUME NEW x \in ToSet(c) PROVE x \in ToSet(s) \cup ToSet(u)
    <3>1. PICK i \in DOMAIN c : x = c[i]
      BY DEF ToSet
    <3>2. CASE i \in 1 .. k
      BY <1>1, <1>4, <3>1, <3>2 DEF ToSet
    <3>3. CASE i - k \in 1 .. l /\ i = k + (i - k)
      <4>1. x = u[i - k]
        BY <1>5, <3>1, <3>3
      <4> QED
        BY <1>1, <3>3, <4>1 DEF ToSet
    <3> QED
      BY <1>6, <3>2, <3>3
  <2>2. ToSet(s) \subseteq ToSet(c)
    BY <1>1, <1>4 DEF ToSet
  <2>3. ASSUME NEW x \in ToSet(u) PROVE x \in ToSet(c)
    <3>1. PICK i \in 1 .. l : x = u[i]
      BY <1>1 DEF ToSet
    <3> QED
      BY <1>5, <3>1 DEF ToSet
  <2> QED
    BY <2>1, <2>2, <2>3
<1>8. ASSUME IsInjective(s), IsInjective(u), ToSet(s) \cap ToSet(u) = {}
      PROVE  IsInjective(c)
  <2>1. ASSUME NEW i \in DOMAIN c, NEW j \in DOMAIN c, c[i] = c[j] PROVE i = j
    <3>1. CASE i \in 1 .. k /\ j \in 1 .. k
      BY <1>1, <1>4, <1>8, <2>1, <3>1 DEF IsInjective
    <3>2. ASSUME NEW a \in 1 .. k, NEW b \in 1 .. l PROVE c[a] # c[k + b]
      <4>1. c[a] \in ToSet(s) /\ c[k + b] \in ToSet(u)
        BY <1>1, <1>4, <1>5 DEF ToSet
      <4> QED
        BY <1>8, <4>1
    <3>3. CASE i - k \in 1 .. l /\ i = k + (i - k) /\ j - k \in 1 .. l /\ j = k + (j - k)
      <4>1. u[i - k] = u[j - k]
        BY <1>5, <2>1, <3>3
      <4>2. i - k = j - k
        BY <1>1, <1>8, <3>3, <4>1 DEF IsInjective
      <4> QED
        BY <3>3, <4>2
    <3> QED
      BY <1>6, <2>1, <3>1, <3>2, <3>3
  <2> QED
    BY <2>1 DEF IsInjective
<1> QED
  BY <1>2, <1>7, <1>8 DEF c

\* The loop starts with the nodes that have no parents.
LEMMA SeedKeeps ==
  ASSUME GraphInv, Seed
  PROVE  GraphInv'
<1> DEFINE zero == {n \in Nodes(rows) : degree[n] = 0}
           at == [n \in zero |-> Min({j \in DOMAIN rows : rows[j].name = n})]
<1>1. /\ phase = "seed" /\ phase' = "sort" /\ queue' \in Arranged(zero, at)
      /\ visited' = {} /\ stack' = <<>> /\ rows' = rows /\ found' = found
      /\ degree' = degree /\ order' = order /\ left' = left /\ desc' = desc
  BY DEF Seed
<1>2. GraphTypeOK /\ SeedInv /\ FoundInv
  BY DEF GraphInv
<1>3. zero \subseteq Nodes(rows) /\ IsFiniteSet(zero)
  BY <1>2, GraphFinite, FS_Subset DEF GraphTypeOK
<1>4. \A n \in Nodes(rows) : degree[n] = 0 <=> n \in zero
  OBVIOUS
<1> HIDE DEF zero, at
<1>5. queue' \in Seq(zero) /\ IsInjective(queue') /\ ToSet(queue') = zero
  BY <1>1, <1>3, ArrangedLists
<1>6. queue' \in Seq(Nodes(rows))
  BY <1>3, <1>5
<1>7. GraphTypeOK'
  BY <1>1, <1>2, <1>6 DEF GraphTypeOK
<1>8. order' = <<>> /\ degree' = DegreeWithout({})' /\ ToSet(order') = {}
  BY <1>1, <1>2 DEF SeedInv, DegreeWithout, ToSet
<1>9. IsInjective(order') /\ ParentsFirst'
  BY <1>8 DEF IsInjective, ParentsFirst
<1>10. SortInv'
  BY <1>1, <1>4, <1>5, <1>8, <1>9 DEF SortInv
<1> QED
  BY <1>1, <1>2, <1>7, <1>10 DEF GraphInv, SearchInv, FoundInv, SeedInv, WalkInv

\* A visit: the head has no parents left, and what it frees joins the queue.
LEMMA VisitKeeps ==
  ASSUME GraphInv, Visit
  PROVE  GraphInv'
<1> DEFINE current == Head(queue)
           lowered == [n \in Nodes(rows) |-> degree[n] - inDegree(rows, {current}, n)]
           freed == {n \in Nodes(rows) : degree[n] # 0 /\ lowered[n] = 0}
           at == [n \in freed |->
                    Max({j \in Dependents(rows, current) : rows[j].name = n})]
           rest == Nodes(rows) \ ToSet(order)
<1>1. /\ phase = "sort" /\ queue # <<>> /\ order' = Append(order, current)
      /\ degree' = lowered
      /\ \E s \in Arranged(freed, at) : queue' = Tail(queue) \o s
      /\ rows' = rows /\ phase' = phase /\ visited' = visited /\ stack' = stack
      /\ found' = found /\ left' = left /\ desc' = desc
  BY DEF Visit
<1>2. GraphTypeOK /\ SortInv /\ FoundInv
  BY DEF GraphInv
<1>3. rows \in Seq(Row) /\ queue \in Seq(Nodes(rows)) /\ order \in Seq(Nodes(rows))
      /\ left \in 0 .. Len(order)
  BY <1>2 DEF GraphTypeOK
<1>4. /\ IsInjective(order) /\ IsInjective(queue) /\ ToSet(order) \cap ToSet(queue) = {}
      /\ degree = DegreeWithout(ToSet(order))
      /\ \A n \in Nodes(rows) : degree[n] = 0 <=> n \in ToSet(order) \cup ToSet(queue)
      /\ ParentsFirst
  BY <1>1, <1>2 DEF SortInv
<1>5. /\ Tail(queue) \in Seq(Nodes(rows))
      /\ current \in Nodes(rows) /\ current \in ToSet(queue)
      /\ IsInjective(Tail(queue))
      /\ ToSet(Tail(queue)) = ToSet(queue) \ {current}
  BY <1>1, <1>3, <1>4, TailMembers
<1>6. freed \subseteq Nodes(rows) /\ IsFiniteSet(freed)
  BY <1>3, GraphFinite, FS_Subset
<1>7. \A n \in Nodes(rows) : n \in freed <=> (degree[n] # 0 /\ lowered[n] = 0)
  OBVIOUS
<1>8. rest \in SUBSET Nodes(rows) /\ current \in rest
  BY <1>4, <1>5
<1>9. \A n \in Nodes(rows) : lowered[n] = inDegree(rows, rest \ {current}, n)
  <2>1. ASSUME NEW n \in Nodes(rows)
        PROVE  lowered[n] = inDegree(rows, rest \ {current}, n)
    <3>1. degree[n] = inDegree(rows, rest, n)
      BY <1>4 DEF DegreeWithout
    <3>2. lowered[n] = degree[n] - inDegree(rows, {current}, n)
      OBVIOUS
    <3> HIDE DEF lowered, rest, current
    <3>3. inDegree(rows, rest, n) - inDegree(rows, {current}, n)
            = inDegree(rows, rest \ {current}, n)
      BY <1>3, <1>8, DegreeDrops
    <3> QED
      BY <3>1, <3>2, <3>3
  <2> QED
    BY <2>1
<1>10. DOMAIN lowered = Nodes(rows) /\ lowered = [n \in Nodes(rows) |-> lowered[n]]
  OBVIOUS
<1>11. \A n \in Nodes(rows) : degree[n] = inDegree(rows, rest, n)
  BY <1>4 DEF DegreeWithout
<1>12. rest \ {current} = Nodes(rows) \ (ToSet(order) \cup {current})
  OBVIOUS
<1>13. PICK s \in Arranged(freed, at) : queue' = Tail(queue) \o s
  BY <1>1
<1> HIDE DEF current, lowered, freed, at, rest
<1>14. s \in Seq(freed) /\ IsInjective(s) /\ ToSet(s) = freed
  BY <1>6, ArrangedLists
<1>15. s \in Seq(Nodes(rows))
  BY <1>6, <1>14
<1>16. \A n \in freed : n \notin ToSet(order) \cup ToSet(queue)
  BY <1>4, <1>6, <1>7
<1>17. /\ queue' \in Seq(Nodes(rows)) /\ IsInjective(queue')
       /\ ToSet(queue') = (ToSet(queue) \ {current}) \cup freed
  <2>1. ToSet(Tail(queue)) \cap ToSet(s) = {}
    BY <1>5, <1>14, <1>16
  <2> DEFINE u == Tail(queue)
  <2>2. /\ u \in Seq(Nodes(rows)) /\ IsInjective(u) /\ ToSet(u) \cap ToSet(s) = {}
        /\ queue' = u \o s /\ ToSet(u) = ToSet(queue) \ {current}
    BY <1>5, <1>13, <2>1
  <2> HIDE DEF u
  <2>3. /\ u \o s \in Seq(Nodes(rows)) /\ IsInjective(u \o s)
        /\ ToSet(u \o s) = ToSet(u) \cup ToSet(s)
    BY <1>14, <1>15, <2>2, ConcatMembers
  <2> QED
    BY <1>14, <2>2, <2>3
<1>18. current \notin ToSet(order)
  BY <1>4, <1>5
<1>19. /\ order' \in Seq(Nodes(rows))
       /\ DOMAIN order = 1 .. Len(order) /\ Len(order) \in Nat
       /\ DOMAIN order' = 1 .. Len(order) + 1
       /\ \A i \in 1 .. Len(order) : order'[i] = order[i]
       /\ order'[Len(order) + 1] = current
       /\ ToSet(order') = ToSet(order) \cup {current}
       /\ IsInjective(order')
  BY <1>1, <1>3, <1>4, <1>5, <1>18, AppendMembers
<1>20. left' \in 0 .. Len(order')
  BY <1>1, <1>3, <1>19
<1>21. GraphTypeOK'
  BY <1>1, <1>2, <1>17, <1>19, <1>20 DEF GraphTypeOK
<1>22. degree' = DegreeWithout(ToSet(order))'
  <2>1. DegreeWithout(ToSet(order))'
          = [n \in Nodes(rows) |-> inDegree(rows, Nodes(rows) \ ToSet(order'), n)]
    BY <1>1 DEF DegreeWithout
  <2>2. \A n \in Nodes(rows) : lowered[n] = inDegree(rows, Nodes(rows) \ ToSet(order'), n)
    BY <1>9, <1>12, <1>19
  <2> QED
    BY <1>1, <1>10, <2>1, <2>2
<1>23. \A n \in Nodes(rows') : degree'[n] = 0 <=> n \in ToSet(order') \cup ToSet(queue')
  <2>1. ASSUME NEW n \in Nodes(rows)
        PROVE  lowered[n] = 0 <=> n \in ToSet(order') \cup ToSet(queue')
    <3>1. degree[n] = 0 => lowered[n] = 0
      <4>1. degree[n] = 0 <=> \A p \in rest : ~Edge(rows, p, n)
        BY <1>3, <1>8, <1>11, DegreeCounts
      <4>2. lowered[n] = 0 <=> \A p \in rest \ {current} : ~Edge(rows, p, n)
        <5>1. rest \ {current} \in SUBSET Nodes(rows)
          BY <1>8
        <5>2. inDegree(rows, rest \ {current}, n) = 0
                <=> \A p \in rest \ {current} : ~Edge(rows, p, n)
          BY <1>3, <5>1, DegreeCounts
        <5> QED
          BY <1>9, <5>2
      <4> QED
        BY <4>1, <4>2
    <3>2. ToSet(order') \cup ToSet(queue') = (ToSet(order) \cup ToSet(queue)) \cup freed
      BY <1>5, <1>17, <1>19
    <3>3. degree[n] = 0 <=> n \in ToSet(order) \cup ToSet(queue)
      BY <1>4
    <3>4. n \in freed <=> (degree[n] # 0 /\ lowered[n] = 0)
      BY <1>7
    <3> QED
      BY <3>1, <3>2, <3>3, <3>4
  <2> QED
    BY <1>1, <2>1
<1>24. ParentsFirst'
  <2>1. ASSUME NEW i \in DOMAIN order', NEW p \in Nodes(rows), Edge(rows, p, order'[i])
        PROVE  \E j \in DOMAIN order' : j < i /\ order'[j] = p
    <3>1. CASE i \in 1 .. Len(order)
      <4>1. Edge(rows, p, order[i])
        BY <1>19, <2>1, <3>1
      <4>2. PICK j \in DOMAIN order : j < i /\ order[j] = p
        BY <1>4, <1>19, <3>1, <4>1 DEF ParentsFirst
      <4> QED
        BY <1>19, <4>2
    <3>2. CASE i = Len(order) + 1
      <4>1. Edge(rows, p, current)
        BY <1>19, <2>1, <3>2
      <4>2. inDegree(rows, rest, current) = 0
        BY <1>4, <1>5, <1>11
      <4>3. p \notin rest
        BY <1>3, <1>8, <4>1, <4>2, DegreeCounts
      <4>4. p \in ToSet(order)
        BY <4>3 DEF rest
      <4>5. PICK j \in DOMAIN order : order[j] = p
        BY <4>4 DEF ToSet
      <4> QED
        BY <1>19, <3>2, <4>5
    <3> QED
      BY <1>19, <3>1, <3>2
  <2> QED
    BY <1>1, <2>1 DEF ParentsFirst
<1>25. ToSet(order') \cap ToSet(queue') = {}
  BY <1>4, <1>16, <1>17, <1>18, <1>19, <1>5
<1>26. SortInv'
  BY <1>17, <1>19, <1>22, <1>23, <1>24, <1>25 DEF SortInv
<1>27. FoundInv'
  BY <1>1, <1>2 DEF FoundInv
<1> QED
  BY <1>1, <1>21, <1>26, <1>27 DEF GraphInv, SearchInv, SeedInv, WalkInv

\* A set in which everyone has a parent holds no ordered node.
LEMMA LoopsUnordered ==
  ASSUME GraphTypeOK, ParentsFirst, NEW S \in SUBSET Nodes(rows), Looping(rows, S)
  PROVE  S \cap ToSet(order) = {}
<1> DEFINE I == {i \in DOMAIN order : order[i] \in S}
<1>1. SUFFICES ASSUME NEW n \in S, n \in ToSet(order) PROVE FALSE
  OBVIOUS
<1>2. DOMAIN order = 1 .. Len(order) /\ Len(order) \in Nat
  BY DEF GraphTypeOK
<1>3. I \in SUBSET Nat /\ I # {}
  BY <1>1, <1>2 DEF ToSet
<1>4. PICK i \in I : \A k \in I : i <= k
  <2> HIDE DEF I
  <2> QED
    BY <1>3, LeastNumber
<1>5. PICK p \in S : Edge(rows, p, order[i])
  BY DEF Looping
<1>6. PICK j \in DOMAIN order : j < i /\ order[j] = p
  BY <1>5 DEF ParentsFirst
<1>7. j \in I /\ i \in Nat /\ j \in Nat
  BY <1>2, <1>6
<1> QED
  BY <1>4, <1>6, <1>7

\* When the queue is empty the order holds exactly what no cycle leads to.
LEMMA SortEndsKeeps ==
  ASSUME GraphInv, SortEnds
  PROVE  GraphInv'
<1>1. /\ phase = "sort" /\ queue = <<>> /\ phase' = "walk" /\ left' = Len(order)
      /\ rows' = rows /\ visited' = visited /\ stack' = stack /\ found' = found
      /\ degree' = degree /\ queue' = queue /\ order' = order /\ desc' = desc
  BY DEF SortEnds
<1>2. GraphTypeOK /\ SortInv /\ FoundInv
  BY DEF GraphInv
<1>3. rows \in Seq(Row) /\ order \in Seq(Nodes(rows)) /\ ToSet(queue) = {}
  BY <1>1, <1>2 DEF GraphTypeOK, ToSet
<1>4. /\ IsInjective(order) /\ ParentsFirst /\ degree = DegreeWithout(ToSet(order))
      /\ \A n \in Nodes(rows) : degree[n] = 0 <=> n \in ToSet(order)
  BY <1>1, <1>2, <1>3 DEF SortInv
<1> DEFINE rest == Nodes(rows) \ ToSet(order)
<1>5. Looping(rows, rest)
  <2>1. ASSUME NEW n \in rest PROVE \E p \in rest : Edge(rows, p, n)
    <3>1. inDegree(rows, rest, n) # 0
      BY <1>4 DEF DegreeWithout
    <3>2. rest \in SUBSET Nodes(rows)
      OBVIOUS
    <3> HIDE DEF rest
    <3> QED
      BY <1>3, <3>1, <3>2, DegreeCounts
  <2> HIDE DEF rest
  <2> QED
    BY <2>1 DEF Looping
<1>6. rest \subseteq Behind(rows)
  <2>1. IsFiniteSet(rest) /\ rest \in SUBSET VariableNames
    BY <1>3, GraphFinite, FS_Subset, EdgeNodes
  <2> HIDE DEF rest
  <2> QED
    BY <1>5, <2>1, LoopHasCycle
<1>7. ASSUME NEW n \in Behind(rows) PROVE n \notin ToSet(order)
  <2>1. PICK m \in OnCycle(rows) : n \in Reach(rows, m)
    BY DEF Behind, OnCycle
  <2>2. Looping(rows, Reach(rows, m))
    BY CycleLoops
  <2>3. Reach(rows, m) \in SUBSET Nodes(rows)
    BY <1>3, BehindNodes DEF OnCycle
  <2> QED
    BY <1>2, <1>4, <2>1, <2>2, <2>3, LoopsUnordered
<1>8. ToSet(order) \subseteq Nodes(rows)
  BY <1>3, MembersFinite
<1>9. ToSet(order) = Nodes(rows) \ Behind(rows)
  BY <1>6, <1>7, <1>8
<1>10. Len(order) \in Nat /\ DOMAIN order = 1 .. Len(order)
  BY <1>3
<1>11. GraphTypeOK'
  BY <1>1, <1>2, <1>10 DEF GraphTypeOK
<1>12. \A i \in DOMAIN order' : ~(i > left')
  BY <1>1, <1>10
<1>13. WalkInv'
  <2>1. IsInjective(order') /\ ToSet(order') = Nodes(rows') \ Behind(rows')
    BY <1>1, <1>4, <1>9
  <2>2. ParentsFirst'
    BY <1>1, <1>4 DEF ParentsFirst
  <2> QED
    BY <1>12, <2>1, <2>2 DEF WalkInv
<1>14. FoundInv'
  BY <1>1, <1>2 DEF FoundInv
<1> QED
  BY <1>1, <1>11, <1>13, <1>14 DEF GraphInv, SearchInv, SeedInv, SortInv

-----------------------------------------------------------------------------
(* The walk, and the ends of a computation.                                *)

\* What a node collects: its children and their lists.
LEMMA CollectedLists ==
  ASSUME GraphTypeOK, NEW n \in Nodes(rows), NEW s \in Collected(n)
  PROVE  /\ s \in Seq(Nodes(rows)) /\ IsInjective(s)
         /\ \A x : x \in ToSet(s) <=> \E c \in Nodes(rows) :
              Edge(rows, n, c) /\ (x = c \/ x \in ToSet(desc[c]))
<1> DEFINE all == UNION {ToSet(Below(j)) : j \in Dependents(rows, n)}
           span == Len(rows) + 2
           at == [z \in all |->
                    Min(UNION {{j * span + i : i \in {i \in DOMAIN Below(j) : Below(j)[i] = z}} :
                                 j \in Dependents(rows, n)})]
<1>1. s \in Arranged(all, at)
  BY DEF Collected
<1>2. rows \in Seq(Row) /\ desc \in [Nodes(rows) -> Seq(Nodes(rows))]
  BY DEF GraphTypeOK
<1>3. ASSUME NEW j \in Dependents(rows, n)
      PROVE  /\ rows[j].name \in Nodes(rows) /\ Edge(rows, n, rows[j].name)
             /\ ToSet(Below(j)) = {rows[j].name} \cup ToSet(desc[rows[j].name])
             /\ ToSet(Below(j)) \subseteq Nodes(rows)
  <2> DEFINE c == rows[j].name
  <2>1. c \in Nodes(rows) /\ Edge(rows, n, c)
    BY DEF Nodes, Dependents, Edge
  <2>2. Below(j) = <<c>> \o desc[c]
    BY DEF Below
  <2> HIDE DEF c
  <2>3. <<c>> \in Seq(Nodes(rows)) /\ desc[c] \in Seq(Nodes(rows))
    BY <1>2, <2>1
  <2>4. Below(j) \in Seq(Nodes(rows)) /\ ToSet(Below(j)) = ToSet(<<c>>) \cup ToSet(desc[c])
    <3> DEFINE u == <<c>>
               v == desc[c]
    <3>1. u \in Seq(Nodes(rows)) /\ v \in Seq(Nodes(rows)) /\ Below(j) = u \o v
      BY <2>2, <2>3
    <3> HIDE DEF u, v
    <3>2. u \o v \in Seq(Nodes(rows)) /\ ToSet(u \o v) = ToSet(u) \cup ToSet(v)
      BY <3>1, ConcatMembers
    <3>3. Below(j) \in Seq(Nodes(rows)) /\ ToSet(Below(j)) = ToSet(u) \cup ToSet(v)
      BY <3>1, <3>2
    <3> QED
      BY <3>3 DEF u, v
  <2>5. ToSet(<<c>>) = {c}
    BY DEF ToSet
  <2>6. ToSet(Below(j)) \subseteq Nodes(rows)
    BY <2>4, MembersFinite
  <2> QED
    BY <2>1, <2>4, <2>5, <2>6 DEF c
<1>4. all \subseteq Nodes(rows)
  BY <1>3
<1>5. IsFiniteSet(all)
  <2> HIDE DEF all
  <2> QED
    BY <1>2, <1>4, GraphFinite, FS_Subset
<1>6. s \in Seq(all) /\ IsInjective(s) /\ ToSet(s) = all
  <2>1. s \in Arranged(all, at) /\ IsFiniteSet(all)
    BY <1>1, <1>5
  <2> HIDE DEF all, at
  <2> QED
    BY <2>1, ArrangedLists
<1>7. s \in Seq(Nodes(rows))
  <2> HIDE DEF all
  <2> QED
    BY <1>4, <1>6
<1>8. ASSUME NEW x \in all
      PROVE  \E c \in Nodes(rows) : Edge(rows, n, c) /\ (x = c \/ x \in ToSet(desc[c]))
  <2>1. PICK j \in Dependents(rows, n) : x \in ToSet(Below(j))
    OBVIOUS
  <2>2. x = rows[j].name \/ x \in ToSet(desc[rows[j].name])
    BY <1>3, <2>1
  <2> QED
    BY <1>3, <2>2
<1>9. ASSUME NEW x, NEW c \in Nodes(rows), Edge(rows, n, c), x = c \/ x \in ToSet(desc[c])
      PROVE  x \in all
  <2>1. PICK j \in Dependents(rows, n) : rows[j].name = c
    BY <1>9 DEF Edge
  <2>2. x \in ToSet(Below(j))
    BY <1>3, <1>9, <2>1
  <2> QED
    BY <2>2
<1> HIDE DEF all
<1> QED
  BY <1>6, <1>7, <1>8, <1>9

\* A walked node's list is what it reaches: its children come after it in the
\* order and have been walked.
LEMMA WalkKeeps ==
  ASSUME GraphInv, Walk
  PROVE  GraphInv'
<1> DEFINE node == order[left]
<1>1. /\ phase = "walk" /\ left > 0 /\ left' = left - 1
      /\ \E s \in Collected(node) : desc' = [desc EXCEPT ![node] = s]
      /\ rows' = rows /\ phase' = phase /\ visited' = visited /\ stack' = stack
      /\ found' = found /\ degree' = degree /\ queue' = queue /\ order' = order
  BY DEF Walk
<1>2. GraphTypeOK /\ WalkInv /\ FoundInv
  BY DEF GraphInv
<1>3. rows \in Seq(Row) /\ order \in Seq(Nodes(rows)) /\ left \in 0 .. Len(order)
      /\ desc \in [Nodes(rows) -> Seq(Nodes(rows))]
  BY <1>2 DEF GraphTypeOK
<1>4. left \in DOMAIN order /\ DOMAIN order = 1 .. Len(order) /\ Len(order) \in Nat
  BY <1>1, <1>3
<1>5. node \in Nodes(rows)
  BY <1>3, <1>4
<1>6. PICK s \in Collected(node) : desc' = [desc EXCEPT ![node] = s]
  BY <1>1
<1>7. /\ s \in Seq(Nodes(rows)) /\ IsInjective(s)
      /\ \A x : x \in ToSet(s) <=> \E c \in Nodes(rows) :
           Edge(rows, node, c) /\ (x = c \/ x \in ToSet(desc[c]))
  BY <1>2, <1>5, CollectedLists
<1>8. left' \in 0 .. Len(order)
  BY <1>1, <1>3
<1>9. /\ IsInjective(order) /\ ToSet(order) = Nodes(rows) \ Behind(rows)
      /\ ParentsFirst
      /\ ~Cyclic(rows) => \A i \in DOMAIN order : i > left =>
           /\ IsInjective(desc[order[i]])
           /\ ToSet(desc[order[i]]) = Reach(rows, order[i])
  BY <1>1, <1>2 DEF WalkInv
<1>10. node = order[left]
  OBVIOUS
<1> HIDE DEF node
<1>11. GraphTypeOK'
  <2>1. desc' \in [Nodes(rows) -> Seq(Nodes(rows))]
    BY <1>3, <1>6, <1>7
  <2> QED
    BY <1>1, <1>2, <1>8, <2>1 DEF GraphTypeOK
<1>12. ASSUME ~Cyclic(rows) PROVE ToSet(s) = Reach(rows, node)
  <2>1. ToSet(order) = Nodes(rows)
    BY <1>9, <1>12 DEF Cyclic, Behind
  <2>2. ASSUME NEW c \in Nodes(rows), Edge(rows, node, c)
        PROVE  ToSet(desc[c]) = Reach(rows, c)
    <3>1. PICK k \in DOMAIN order : order[k] = c
      BY <2>1 DEF ToSet
    <3>2. PICK j \in DOMAIN order : j < k /\ order[j] = node
      BY <1>5, <1>9, <2>2, <3>1 DEF ParentsFirst
    <3>3. j = left
      BY <1>4, <1>9, <1>10, <3>2 DEF IsInjective
    <3>4. k > left
      BY <1>4, <3>2, <3>3
    <3> QED
      BY <1>9, <1>12, <3>1, <3>4
  <2>3. Nodes(rows) \subseteq VariableNames /\ \A c : Edge(rows, node, c) => c \in Nodes(rows)
    BY <1>3, EdgeNodes
  <2>4. Reach(rows, node) = {x \in VariableNames : \E c \in VariableNames :
                               Edge(rows, node, c) /\ (x = c \/ x \in Reach(rows, c))}
    BY ReachSplit
  <2>5. \A c : Reach(rows, c) \subseteq VariableNames
    BY DEF Reach
  <2>6. \A x : x \in ToSet(s) <=> \E c \in Nodes(rows) :
           Edge(rows, node, c) /\ (x = c \/ x \in Reach(rows, c))
    BY <1>7, <2>2
  <2> QED
    BY <2>3, <2>4, <2>5, <2>6
<1>13. ASSUME ~Cyclic(rows), NEW i \in DOMAIN order, i > left'
       PROVE  IsInjective(desc'[order[i]]) /\ ToSet(desc'[order[i]]) = Reach(rows, order[i])
  <2>1. CASE i = left
    <3>1. desc'[order[i]] = s
      BY <1>3, <1>5, <1>6, <1>10, <2>1
    <3> QED
      BY <1>7, <1>10, <1>12, <1>13, <2>1, <3>1
  <2>2. CASE i > left
    <3>1. order[i] # node
      BY <1>4, <1>9, <1>10, <2>2 DEF IsInjective
    <3>2. order[i] \in Nodes(rows)
      BY <1>3
    <3>3. desc'[order[i]] = desc[order[i]]
      BY <1>3, <1>6, <3>1, <3>2
    <3> QED
      BY <1>9, <1>13, <2>2, <3>3
  <2> QED
    BY <1>1, <1>3, <1>4, <1>13, <2>1, <2>2
<1>14. WalkInv'
  <2>1. ParentsFirst'
    BY <1>1, <1>9 DEF ParentsFirst
  <2>2. ~Cyclic(rows') => \A i \in DOMAIN order' : i > left' =>
           /\ IsInjective(desc'[order'[i]])
           /\ ToSet(desc'[order'[i]]) = Reach(rows', order'[i])
    BY <1>1, <1>13
  <2>3. IsInjective(order') /\ ToSet(order') = Nodes(rows') \ Behind(rows')
    BY <1>1, <1>9
  <2> QED
    BY <2>1, <2>2, <2>3 DEF WalkInv
<1>15. FoundInv'
  BY <1>1, <1>2 DEF FoundInv
<1> QED
  BY <1>1, <1>11, <1>14, <1>15 DEF GraphInv, SearchInv, SeedInv, SortInv

\* A computation that has just begun.
Begun ==
  /\ rows \in Seq(Row)
  /\ phase \in {"idle", "search"}
  /\ visited = {} /\ stack = <<>> /\ found = <<>> /\ queue = <<>> /\ order = <<>>
  /\ left = 0
  /\ degree = [n \in Nodes(rows) |-> inDegree(rows, Nodes(rows), n)]
  /\ desc = [n \in Nodes(rows) |-> <<>>]

\* A computation begins well.
LEMMA BegunHolds == Begun => GraphInv
<1> SUFFICES ASSUME Begun PROVE GraphInv
  OBVIOUS
<1>1. GraphTypeOK
  BY DEF Begun, GraphTypeOK
<1>2. Searched = {}
  BY DEF Begun, Searched
<1>3. degree = DegreeWithout({})
  <2>1. Nodes(rows) \ {} = Nodes(rows)
    OBVIOUS
  <2> QED
    BY <2>1 DEF Begun, DegreeWithout
<1>4. IsInjective(stack) /\ ToSet(stack) \subseteq visited /\ DOMAIN stack = {}
  BY DEF Begun, IsInjective, ToSet
<1>5. SearchInv
  BY <1>2, <1>3, <1>4 DEF Begun, SearchInv
<1> QED
  BY <1>1, <1>5 DEF Begun, GraphInv, FoundInv, SeedInv, SortInv, WalkInv

\* A call, and the return.
LEMMA StartKeeps ==
  ASSUME NEW rs \in Seq(Row), Reset(rs), phase' \in {"idle", "search"}
  PROVE  GraphInv'
<1>1. Begun'
  BY DEF Reset, Begun
<1>2. Begun' => GraphInv'
  BY BegunHolds, PTL
<1> QED
  BY <1>1, <1>2

\* A step of the computation.
LEMMA ComputeKeeps ==
  ASSUME GraphInv, Compute
  PROVE  GraphInv' /\ rows' = rows /\ phase # "idle" /\ phase' # "idle"
<1>1. GraphInv'
  BY SearchRootKeeps, SearchNeighbourKeeps, SearchFindsKeeps, SearchReturnsKeeps,
     SearchEndsKeeps, SeedKeeps, VisitKeeps, SortEndsKeeps, WalkKeeps DEF Compute
<1>2. rows' = rows /\ phase # "idle" /\ phase' # "idle"
  BY DEF Compute, SearchRoot, SearchNeighbour, SearchFinds, SearchReturns, SearchEnds,
         Seed, Visit, SortEnds, Walk, Enter
<1> QED
  BY <1>1, <1>2

-----------------------------------------------------------------------------
(* The settings page.                                                      *)

\* A list of rows of rs has no edges but those of rs.
LEMMA WithinAcyclic ==
  ASSUME NEW rs, NEW ts, Within(ts, rs), ~Cyclic(rs)
  PROVE  ~Cyclic(ts)
<1>1. \A i \in DOMAIN ts : \E j \in DOMAIN rs : ts[i] = rs[j]
  BY DEF Within, ToSet
<1>2. ASSUME NEW m, NEW n, Edge(ts, m, n) PROVE Edge(rs, m, n)
  <2>1. m \in Nodes(rs)
    BY <1>1, <1>2 DEF Edge, Nodes
  <2>2. PICK i \in DOMAIN ts : m \in ts[i].mentions /\ ts[i].name = n
    BY <1>2 DEF Edge, Dependents
  <2> QED
    BY <1>1, <2>1, <2>2 DEF Edge, Dependents
<1> QED
  BY <1>2, ReachMonotone

\* A part of a list.
LEMMA SubSeqMembers ==
  ASSUME NEW T, NEW s \in Seq(T), NEW a \in 1 .. Len(s) + 1, NEW b \in 0 .. Len(s)
  PROVE  SubSeq(s, a, b) \in Seq(T) /\ ToSet(SubSeq(s, a, b)) \subseteq ToSet(s)
<1> DEFINE u == SubSeq(s, a, b)
           k == IF a <= b THEN b - a + 1 ELSE 0
<1>1. DOMAIN s = 1 .. Len(s) /\ Len(s) \in Nat /\ a \in Nat /\ b \in Nat
  OBVIOUS
<1>2. u = [i \in 1 .. (1 + b - a) |-> s[i + a - 1]]
  BY <1>1
<1>3. k \in Nat /\ 1 .. (1 + b - a) = 1 .. k
  BY <1>1
<1>4. \A i \in 1 .. k : i + a - 1 \in 1 .. Len(s)
  BY <1>1
<1>5. u = [i \in 1 .. k |-> s[i + a - 1]]
  BY <1>2, <1>3
<1> HIDE DEF u, k
<1>6. \A i \in 1 .. k : s[i + a - 1] \in T /\ s[i + a - 1] \in ToSet(s)
  BY <1>1, <1>4 DEF ToSet
<1>7. u \in Seq(T)
  BY <1>3, <1>5, <1>6
<1>8. DOMAIN u = 1 .. k /\ \A i \in 1 .. k : u[i] = s[i + a - 1]
  BY <1>5
<1>9. ToSet(u) \subseteq ToSet(s)
  BY <1>6, <1>8 DEF ToSet
<1> QED
  BY <1>7, <1>9 DEF u

\* A list without one of its rows.
LEMMA RemoveMembers ==
  ASSUME NEW T, NEW s \in Seq(T), NEW i \in DOMAIN s
  PROVE  /\ RemoveAt(s, i) \in Seq(T) /\ ToSet(RemoveAt(s, i)) \subseteq ToSet(s)
         /\ Len(RemoveAt(s, i)) = Len(s) - 1
<1> DEFINE a == SubSeq(s, 1, i - 1)
           b == SubSeq(s, i + 1, Len(s))
<1>1. Len(s) \in Nat /\ i \in 1 .. Len(s)
  OBVIOUS
<1>2. a \in Seq(T) /\ ToSet(a) \subseteq ToSet(s) /\ Len(a) = i - 1
  <2>1. 1 \in 1 .. Len(s) + 1 /\ i - 1 \in 0 .. Len(s)
    BY <1>1
  <2>2. Len(SubSeq(s, 1, i - 1)) = i - 1
    BY <1>1, SubSeqProperties
  <2> QED
    BY <2>1, <2>2, SubSeqMembers
<1>3. b \in Seq(T) /\ ToSet(b) \subseteq ToSet(s) /\ Len(b) = Len(s) - i
  <2>1. i + 1 \in 1 .. Len(s) + 1 /\ Len(s) \in 0 .. Len(s)
    BY <1>1
  <2>2. Len(SubSeq(s, i + 1, Len(s))) = Len(s) - i
    BY <1>1, SubSeqProperties
  <2> QED
    BY <2>1, <2>2, SubSeqMembers
<1>4. RemoveAt(s, i) = a \o b
  BY DEF RemoveAt
<1> HIDE DEF a, b
<1>5. a \o b \in Seq(T) /\ ToSet(a \o b) = ToSet(a) \cup ToSet(b)
  BY <1>2, <1>3, ConcatMembers
<1>6. Len(a \o b) = Len(a) + Len(b)
  BY <1>2, <1>3, ConcatProperties
<1> QED
  BY <1>1, <1>2, <1>3, <1>4, <1>5, <1>6

\* A list with a row put in.
LEMMA InsertMembers ==
  ASSUME NEW T, NEW s \in Seq(T), NEW j \in 1 .. Len(s) + 1, NEW e \in T
  PROVE  /\ InsertAt(s, j, e) \in Seq(T)
         /\ ToSet(InsertAt(s, j, e)) \subseteq ToSet(s) \cup {e}
<1> DEFINE a == SubSeq(s, 1, j - 1)
           m == <<e>>
           b == SubSeq(s, j, Len(s))
<1>1. Len(s) \in Nat
  OBVIOUS
<1>2. a \in Seq(T) /\ ToSet(a) \subseteq ToSet(s)
  <2>1. 1 \in 1 .. Len(s) + 1 /\ j - 1 \in 0 .. Len(s)
    BY <1>1
  <2> QED
    BY <2>1, SubSeqMembers
<1>3. b \in Seq(T) /\ ToSet(b) \subseteq ToSet(s)
  <2>1. j \in 1 .. Len(s) + 1 /\ Len(s) \in 0 .. Len(s)
    BY <1>1
  <2> QED
    BY <2>1, SubSeqMembers
<1>4. m \in Seq(T) /\ ToSet(m) = {e}
  BY DEF ToSet
<1>5. InsertAt(s, j, e) = (a \o m) \o b
  BY DEF InsertAt
<1> HIDE DEF a, b, m
<1>6. a \o m \in Seq(T) /\ ToSet(a \o m) = ToSet(a) \cup ToSet(m)
  BY <1>2, <1>4, ConcatMembers
<1> DEFINE c == a \o m
<1>7. c \in Seq(T) /\ ToSet(c) = ToSet(a) \cup ToSet(m)
  BY <1>6
<1> HIDE DEF c
<1>8. c \o b \in Seq(T) /\ ToSet(c \o b) = ToSet(c) \cup ToSet(b)
  BY <1>3, <1>7, ConcatMembers
<1>9. InsertAt(s, j, e) = c \o b
  BY <1>5 DEF c
<1> QED
  BY <1>2, <1>3, <1>4, <1>7, <1>8, <1>9

\* What is reached from an ordered node comes after it.
LEMMA ReachLater ==
  ASSUME GraphTypeOK, ParentsFirst, IsInjective(order),
         NEW a \in DOMAIN order, NEW b \in DOMAIN order, order[b] \in Reach(rows, order[a])
  PROVE  a < b
<1> DEFINE S == {y \in VariableNames : \A k \in DOMAIN order : order[k] = y => a < k}
<1>1. rows \in Seq(Row) /\ DOMAIN order = 1 .. Len(order) /\ Len(order) \in Nat
  BY DEF GraphTypeOK
<1>2. \A m, n : Edge(rows, m, n) => m \in Nodes(rows)
  BY <1>1, EdgeNodes
<1>3. ASSUME NEW m \in S, NEW n \in VariableNames, Edge(rows, m, n)
      PROVE  n \in S
  <2>1. ASSUME NEW k \in DOMAIN order, order[k] = n
        PROVE  a < k
    <3>1. PICK j \in DOMAIN order : j < k /\ order[j] = m
      BY <1>2, <1>3, <2>1 DEF ParentsFirst
    <3>2. a < j
      BY <1>3, <3>1
    <3> QED
      BY <1>1, <3>1, <3>2
  <2> QED
    BY <2>1
<1>4. ASSUME NEW c \in VariableNames, Edge(rows, order[a], c)
      PROVE  c \in S
  <2>1. ASSUME NEW k \in DOMAIN order, order[k] = c
        PROVE  a < k
    <3>1. PICK j \in DOMAIN order : j < k /\ order[j] = order[a]
      BY <1>2, <1>4, <2>1 DEF ParentsFirst
    <3>2. j = a
      BY <3>1 DEF IsInjective
    <3> QED
      BY <3>1, <3>2
  <2> QED
    BY <2>1
<1>5. S \in SUBSET VariableNames /\ Closed(rows, S)
  BY <1>3 DEF Closed
<1>6. Reach(rows, order[a]) \subseteq S
  <2> HIDE DEF S
  <2> QED
    BY <1>4, <1>5, ReachLeast
<1> QED
  BY <1>6

\* Kahn's count tells whether there is a cycle.
LEMMA CountDecides ==
  ASSUME GraphInv, Computed
  PROVE  hasCycle <=> Cyclic(rows)
<1>1. /\ rows \in Seq(Row)
      /\ order \in Seq(Nodes(rows))
      /\ IsInjective(order)
      /\ ToSet(order) = Nodes(rows) \ Behind(rows)
  BY DEF GraphInv, GraphTypeOK, WalkInv, Computed
<1>2. IsFiniteSet(Nodes(rows)) /\ OnCycle(rows) \subseteq Nodes(rows)
  BY <1>1, GraphFinite, BehindNodes
<1>3. Cardinality(ToSet(order)) = Len(order) /\ ToSet(order) \subseteq Nodes(rows)
  BY <1>1, MembersFinite
<1>4. Cardinality(ToSet(order)) = Cardinality(Nodes(rows)) <=> ToSet(order) = Nodes(rows)
  BY <1>2, <1>3, FS_Subset
<1>5. ToSet(order) = Nodes(rows) <=> OnCycle(rows) = {}
  <2>1. ASSUME OnCycle(rows) = {} PROVE ToSet(order) = Nodes(rows)
    BY <1>1, <2>1 DEF Behind
  <2>2. ASSUME NEW n \in OnCycle(rows) PROVE ToSet(order) # Nodes(rows)
    BY <1>1, <1>2, <2>2 DEF Behind
  <2> QED
    BY <2>1, <2>2
<1> QED
  BY <1>3, <1>4, <1>5, SameCounts DEF hasCycle, Cyclic

\* What is stored is exact.
LEMMA StoreExact ==
  ASSUME GraphInv, Store
  PROVE  /\ EdgesExact(variables', dependencyData')
         /\ OrderExact(variables', dependencyData')
         /\ CycleExact(variables', dependencyData')
<1> DEFINE queries == {n \in ToSet(order) : \E j \in DOMAIN rows : rows[j].name = n /\ rows[j].query}
           at == [n \in queries |-> CHOOSE i \in DOMAIN order : order[i] = n]
<1>1. /\ rows \in Seq(Row)
      /\ order \in Seq(Nodes(rows))
      /\ DOMAIN order = 1 .. Len(order) /\ Len(order) \in Nat
      /\ GraphTypeOK /\ ParentsFirst /\ IsInjective(order)
      /\ ToSet(order) = Nodes(rows) \ Behind(rows)
      /\ ~Cyclic(rows) => \A i \in DOMAIN order :
           /\ IsInjective(desc[order[i]])
           /\ ToSet(desc[order[i]]) = Reach(rows, order[i])
  <2>1. phase = "walk" /\ left = 0 /\ GraphTypeOK
    BY DEF Store, Computed, GraphInv
  <2>2. order \in Seq(Nodes(rows)) /\ rows \in Seq(Row)
    BY <2>1 DEF GraphTypeOK
  <2>3. DOMAIN order = 1 .. Len(order) /\ Len(order) \in Nat
    BY <2>2
  <2> QED
    BY <2>1, <2>2, <2>3 DEF GraphInv, WalkInv
<1>2. /\ variables' = rows
      /\ \E s \in Arranged(queries, at) :
           dependencyData' =
             [graph |-> [n \in Nodes(rows) |-> {rows[j].name : j \in Dependents(rows, n)}],
              order |-> s, desc |-> desc, hasCycle |-> hasCycle, cycle |-> found]
  BY DEF Store
<1>3. PICK s \in Arranged(queries, at) :
           dependencyData' =
             [graph |-> [n \in Nodes(rows) |-> {rows[j].name : j \in Dependents(rows, n)}],
              order |-> s, desc |-> desc, hasCycle |-> hasCycle, cycle |-> found]
  BY <1>2
<1>4. IsFiniteSet(queries)
  <2>1. IsFiniteSet(ToSet(order)) /\ queries \subseteq ToSet(order)
    BY <1>1, MembersFinite
  <2> HIDE DEF queries
  <2> QED
    BY <2>1, FS_Subset
<1>5. /\ s \in Seq(queries)
      /\ IsInjective(s)
      /\ ToSet(s) = queries
      /\ \A i, j \in DOMAIN s : i < j => at[s[i]] < at[s[j]]
  <2> HIDE DEF queries, at
  <2> QED
    BY <1>4, ArrangedLists
<1>6. /\ dependencyData'.order = s
      /\ dependencyData'.desc = desc
      /\ dependencyData'.hasCycle = hasCycle
      /\ dependencyData'.cycle = found
  BY <1>3
<1>7. queries = {rows[j].name : j \in {j \in DOMAIN rows : rows[j].query}} \ Behind(rows)
  BY <1>1 DEF Nodes
<1>8. \A n \in queries : at[n] \in DOMAIN order /\ order[at[n]] = n
  BY DEF ToSet
<1>9. ASSUME NEW i \in DOMAIN s, NEW j \in DOMAIN s, s[j] \in Reach(rows, s[i])
      PROVE  i < j
  <2>1. DOMAIN s = 1 .. Len(s) /\ Len(s) \in Nat /\ s[i] \in queries /\ s[j] \in queries
    <3> HIDE DEF queries
    <3> QED
      BY <1>5
  <2>2. at[s[i]] \in DOMAIN order /\ order[at[s[i]]] = s[i]
    BY <1>8, <2>1
  <2>3. at[s[j]] \in DOMAIN order /\ order[at[s[j]]] = s[j]
    BY <1>8, <2>1
  <2> HIDE DEF at, queries
  <2>4. at[s[i]] < at[s[j]]
    BY <1>1, <1>9, <2>2, <2>3, ReachLater
  <2>5. CASE i < j
    BY <2>5
  <2>6. CASE i = j
    BY <1>1, <2>2, <2>4, <2>6
  <2>7. CASE j < i
    <3>1. at[s[j]] < at[s[i]]
      BY <1>5, <2>7
    <3> QED
      BY <1>1, <2>2, <2>3, <2>4, <3>1
  <2> QED
    BY <2>1, <2>5, <2>6, <2>7
<1>10. ~Cyclic(rows) => \A n \in Nodes(rows) :
         IsInjective(desc[n]) /\ ToSet(desc[n]) = Reach(rows, n)
  <2> SUFFICES ASSUME ~Cyclic(rows), NEW n \in Nodes(rows)
               PROVE  IsInjective(desc[n]) /\ ToSet(desc[n]) = Reach(rows, n)
    OBVIOUS
  <2>1. Behind(rows) = {}
    BY DEF Behind, Cyclic
  <2>2. PICK i \in DOMAIN order : order[i] = n
    BY <1>1, <2>1 DEF ToSet
  <2> QED
    BY <1>1, <2>2
<1>11. OrderExact(rows, dependencyData')
  <2> HIDE DEF queries, at
  <2> QED
    BY <1>5, <1>6, <1>7, <1>9, <1>10 DEF OrderExact
<1>12. CycleExact(rows, dependencyData')
  <2>1. hasCycle <=> Cyclic(rows)
    BY CountDecides DEF Store
  <2>2. /\ found # <<>> <=> Cyclic(rows)
        /\ Cyclic(rows) =>
             /\ Edge(rows, found[1], found[2])
             /\ found[1] = found[2] \/ found[1] \in Reach(rows, found[2])
    BY DEF Store, Computed, GraphInv, FoundInv
  <2> QED
    BY <1>6, <2>1, <2>2 DEF CycleExact
<1>13. EdgesExact(rows, dependencyData')
  <2>1. desc \in [Nodes(rows) -> Seq(Nodes(rows))]
    BY <1>1 DEF GraphTypeOK
  <2>2. s \in Seq(Nodes(rows))
    <3>1. queries \subseteq Nodes(rows)
      BY <1>1
    <3> HIDE DEF queries
    <3> QED
      BY <1>5, <3>1
  <2>3. dependencyData'.graph = [n \in Nodes(rows) |-> {rows[j].name : j \in Dependents(rows, n)}]
    BY <1>3
  <2> HIDE DEF queries, at
  <2> QED
    BY <1>6, <2>1, <2>2, <2>3 DEF EdgesExact
<1> QED
  BY <1>2, <1>11, <1>12, <1>13

\* The data stays exact while the list and the data stay.
LEMMA DataKeeps ==
  ASSUME DataInv, job # "load", UNCHANGED <<variables, dependencyData>>
  PROVE  DataInv'
BY DEF DataInv, EdgesExact, OrderExact, CycleExact

\* The graph is left alone.
LEMMA GraphStutters ==
  ASSUME GraphInv, UNCHANGED graphVars
  PROVE  GraphInv' /\ UNCHANGED <<rows, phase>>
<1>1. UNCHANGED <<rows, phase, visited, stack, found, degree, queue, order, left, desc>>
  BY DEF graphVars
<1>2. GraphTypeOK'
  BY <1>1 DEF GraphInv, GraphTypeOK
<1>3. SearchInv'
  BY <1>1 DEF GraphInv, SearchInv, Searched, DegreeWithout
<1>4. FoundInv' /\ SeedInv'
  BY <1>1 DEF GraphInv, FoundInv, SeedInv, DegreeWithout
<1>5. SortInv'
  BY <1>1 DEF GraphInv, SortInv, ParentsFirst, DegreeWithout
<1>6. WalkInv'
  BY <1>1 DEF GraphInv, WalkInv, ParentsFirst
<1> QED
  BY <1>1, <1>2, <1>3, <1>4, <1>5, <1>6 DEF GraphInv

\* The user acts on an idle page.
LEMMA ActsIdle ==
  ASSUME PageInv, MayAct
  PROVE  /\ phase = "idle" /\ job = "none"
         /\ variables \in Seq(Row) /\ table \in Seq(Row) /\ target \in Seq(Row)
         /\ requests \in Seq(Seq(Row))
         /\ Patient => requests = <<>> /\ table = variables
BY DEF PageInv, JobInv, RequestsInv, MayAct

\* A save starts its check: the list to be sent is within the list checked.
LEMMA SaveKeeps ==
  ASSUME PageInv, MayAct, NEW row \in Row, NEW list \in Seq(Row),
         Patient => Within(list, Append(variables, row)), handleSave(row, list)
  PROVE  PageInv'
<1>1. /\ variables \in Seq(Row) /\ table \in Seq(Row) /\ job = "none"
      /\ requests \in Seq(Seq(Row)) /\ (Patient => requests = <<>>)
  BY ActsIdle
<1> DEFINE new == Append(variables, row)
<1>2. new \in Seq(Row)
  BY <1>1
<1>3. Reset(new) /\ phase' = "search" /\ job' = "check" /\ target' = list
  BY DEF handleSave, Start
<1>4. UNCHANGED <<variables, dependencyData, table, requests>>
  BY DEF handleSave
<1>5. Patient => Within(list, new)
  OBVIOUS
<1> HIDE DEF new
<1>6. GraphInv'
  BY <1>2, <1>3, StartKeeps
<1>7. rows' = new
  BY <1>3 DEF Reset
<1>8. JobInv'
  BY <1>1, <1>3, <1>4, <1>5, <1>7 DEF JobInv, Within
<1>9. RequestsInv'
  BY <1>1, <1>4 DEF RequestsInv
<1>10. DataInv'
  BY <1>1, <1>4, DataKeeps DEF PageInv
<1> QED
  BY <1>6, <1>8, <1>9, <1>10 DEF PageInv

\* The new list is the list checked.
LEMMA AddKeeps ==
  ASSUME PageInv, NEW row \in Row, Add(row)
  PROVE  PageInv'
<1> DEFINE list == Append(table, row)
<1>1. MayAct /\ handleSave(row, list)
  BY DEF Add
<1>2. table \in Seq(Row) /\ (Patient => table = variables)
  BY <1>1, ActsIdle
<1>3. list \in Seq(Row)
  BY <1>2
<1>4. Patient => Within(list, Append(variables, row))
  BY <1>2 DEF Within
<1> HIDE DEF list
<1> QED
  BY <1>1, <1>3, <1>4, SaveKeeps

\* The edited list has its rows from the old one, and the new version.
LEMMA EditKeeps ==
  ASSUME PageInv, NEW i \in DOMAIN table, NEW row \in Row, Edit(i, row)
  PROVE  PageInv'
<1> DEFINE list == [table EXCEPT ![i] = row]
<1>1. MayAct /\ handleSave(row, list)
  BY DEF Edit
<1>2. table \in Seq(Row) /\ variables \in Seq(Row) /\ (Patient => table = variables)
  BY <1>1, ActsIdle
<1>3. list \in Seq(Row) /\ DOMAIN list = DOMAIN table
  BY <1>2
<1>4. \A j \in DOMAIN table : list[j] = row \/ list[j] = table[j]
  BY <1>2
<1> HIDE DEF list
<1>5. ToSet(Append(variables, row)) = ToSet(variables) \cup {row}
  BY <1>2, AppendMembers
<1>6. Patient => Within(list, Append(variables, row))
  BY <1>2, <1>3, <1>4, <1>5 DEF Within, ToSet
<1> QED
  BY <1>1, <1>3, <1>6, SaveKeeps

\* The verdict on the list checked holds for the list to be sent.
LEMMA VerdictRight ==
  ASSUME PageInv, Patient, job = "check", Computed, ~hasCycle
  PROVE  ~Cyclic(target)
<1>1. Within(target, rows)
  BY DEF PageInv, JobInv
<1>2. ~Cyclic(rows)
  BY CountDecides DEF PageInv
<1> QED
  BY <1>1, <1>2, WithinAcyclic

\* The check ends.
LEMMA CheckedKeeps ==
  ASSUME PageInv, Checked
  PROVE  PageInv'
<1>1. /\ job = "check" /\ Computed /\ target' = <<>> /\ job' = "none"
      /\ Reset(<<>>) /\ phase' = "idle"
      /\ UNCHANGED <<variables, dependencyData>>
  BY DEF Checked, Rest
<1>2. /\ variables \in Seq(Row) /\ target \in Seq(Row) /\ table \in Seq(Row)
      /\ requests \in Seq(Seq(Row))
      /\ Patient => requests = <<>>
  BY <1>1 DEF PageInv, JobInv, RequestsInv, Computed
<1>3. DataInv'
  BY <1>1, DataKeeps DEF PageInv
<1>4. GraphInv'
  <2>1. <<>> \in Seq(Row)
    OBVIOUS
  <2> QED
    BY <1>1, <2>1, StartKeeps
<1>5. CASE hasCycle
  <2>1. UNCHANGED <<table, requests>>
    BY <1>5 DEF Checked
  <2>2. JobInv' /\ RequestsInv'
    BY <1>1, <1>2, <2>1 DEF JobInv, RequestsInv
  <2> QED
    BY <1>3, <1>4, <2>2 DEF PageInv
<1>6. CASE ~hasCycle
  <2>1. table' = target /\ requests' = Append(requests, target)
    BY <1>6 DEF Checked
  <2>2. JobInv'
    BY <1>1, <1>2, <2>1 DEF JobInv
  <2>3. requests' \in Seq(Seq(Row))
    BY <1>2, <2>1
  <2>4. Patient => requests' = <<target>> /\ ~Cyclic(target)
    BY <1>1, <1>2, <1>6, <2>1, VerdictRight
  <2>5. RequestsInv'
    BY <1>1, <1>2, <2>3, <2>4 DEF RequestsInv
  <2> QED
    BY <1>3, <1>4, <2>2, <2>5 DEF PageInv
<1> QED
  BY <1>5, <1>6

\* A list that needs no check is within the table.
LEMMA SendKeeps ==
  ASSUME PageInv, MayAct, NEW list \in Seq(Row), Within(list, table),
         requests' = Append(requests, list), table' \in {table, list},
         UNCHANGED <<variables, dependencyData, job, target, graphVars>>
  PROVE  PageInv'
<1>1. /\ phase = "idle" /\ job = "none"
      /\ variables \in Seq(Row) /\ table \in Seq(Row) /\ target \in Seq(Row)
      /\ requests \in Seq(Seq(Row))
      /\ Patient => requests = <<>> /\ table = variables
  BY ActsIdle
<1>2. GraphInv' /\ UNCHANGED <<rows, phase>>
  BY GraphStutters DEF PageInv
<1>3. JobInv'
  BY <1>1, <1>2 DEF JobInv
<1>4. requests' \in Seq(Seq(Row))
  BY <1>1
<1>5. Patient => requests' = <<list>> /\ (~Cyclic(variables) => ~Cyclic(list))
  BY <1>1, WithinAcyclic
<1>6. RequestsInv'
  BY <1>1, <1>2, <1>4, <1>5 DEF RequestsInv
<1>7. DataInv'
  BY <1>1, DataKeeps DEF PageInv
<1> QED
  BY <1>2, <1>3, <1>6, <1>7 DEF PageInv

\* A deletion.
LEMMA DeleteKeeps ==
  ASSUME PageInv, NEW i \in DOMAIN table, Delete(i)
  PROVE  PageInv'
<1> DEFINE list == RemoveAt(table, i)
<1>1. /\ MayAct /\ requests' = Append(requests, list) /\ table' = table
      /\ UNCHANGED <<variables, dependencyData, job, target, graphVars>>
  BY DEF Delete
<1>2. table \in Seq(Row)
  BY <1>1, ActsIdle
<1>3. list \in Seq(Row) /\ ToSet(list) \subseteq ToSet(table)
  BY <1>2, RemoveMembers
<1> HIDE DEF list
<1>4. Within(list, table)
  BY <1>3 DEF Within
<1> QED
  BY <1>1, <1>3, <1>4, SendKeeps

\* A move.
LEMMA MoveKeeps ==
  ASSUME PageInv, NEW i \in DOMAIN table, NEW j \in DOMAIN table, Move(i, j)
  PROVE  PageInv'
<1> DEFINE rest == RemoveAt(table, i)
           list == InsertAt(rest, j, table[i])
<1>1. /\ MayAct /\ requests' = Append(requests, list) /\ table' = list
      /\ UNCHANGED <<variables, dependencyData, job, target, graphVars>>
  BY DEF Move
<1>2. table \in Seq(Row)
  BY <1>1, ActsIdle
<1>3. rest \in Seq(Row) /\ ToSet(rest) \subseteq ToSet(table) /\ Len(rest) = Len(table) - 1
  BY <1>2, RemoveMembers
<1>4. table[i] \in Row /\ table[i] \in ToSet(table)
  BY <1>2 DEF ToSet
<1>5. j \in 1 .. Len(rest) + 1
  <2>1. DOMAIN table = 1 .. Len(table) /\ Len(table) \in Nat
    BY <1>2
  <2> HIDE DEF rest
  <2> QED
    BY <1>3, <2>1
<1>6. list \in Seq(Row) /\ ToSet(list) \subseteq ToSet(rest) \cup {table[i]}
  <2> HIDE DEF rest
  <2> QED
    BY <1>3, <1>4, <1>5, InsertMembers
<1>7. Within(list, table)
  <2> HIDE DEF rest, list
  <2> QED
    BY <1>3, <1>4, <1>6 DEF Within
<1> HIDE DEF list
<1> QED
  BY <1>1, <1>6, <1>7, SendKeeps

\* The table is brought back to what is stored.
LEMMA ReopenKeeps ==
  ASSUME PageInv, OpenAgain
  PROVE  PageInv'
<1>1. /\ phase = "idle" /\ table' = variables
      /\ UNCHANGED <<variables, dependencyData, requests, job, target, graphVars>>
  BY DEF OpenAgain
<1>2. GraphInv' /\ UNCHANGED <<rows, phase>>
  BY <1>1, GraphStutters DEF PageInv
<1>3. JobInv'
  BY <1>1, <1>2 DEF PageInv, JobInv
<1>4. RequestsInv'
  BY <1>1, <1>2 DEF PageInv, RequestsInv
<1>5. DataInv'
  BY <1>1, DataKeeps DEF PageInv, JobInv
<1> QED
  BY <1>2, <1>3, <1>4, <1>5 DEF PageInv

\* Once the only request is taken away there is none.
LEMMA RequestTaken ==
  ASSUME PageInv, NEW i \in DOMAIN requests
  PROVE  /\ requests[i] \in Seq(Row)
         /\ RemoveAt(requests, i) \in Seq(Seq(Row))
         /\ Patient => /\ RemoveAt(requests, i) = <<>>
                       /\ ~Cyclic(variables) => ~Cyclic(requests[i])
<1>1. requests \in Seq(Seq(Row))
  BY DEF PageInv, RequestsInv
<1> DEFINE T == Seq(Row)
           u == RemoveAt(requests, i)
<1>2. requests \in Seq(T)
  BY <1>1
<1>3. requests[i] \in T
  <2> HIDE DEF T
  <2> QED
    BY <1>2
<1>4. u \in Seq(T) /\ Len(u) = Len(requests) - 1
  <2> HIDE DEF T
  <2> QED
    BY <1>2, RemoveMembers
<1>5. ASSUME Patient
      PROVE  u = <<>> /\ (~Cyclic(variables) => ~Cyclic(requests[i]))
  <2>1. requests # <<>>
    OBVIOUS
  <2>2. PICK r \in Seq(Row) : requests = <<r>> /\ (~Cyclic(variables) => ~Cyclic(r))
    BY <1>5, <2>1 DEF PageInv, RequestsInv
  <2>3. Len(requests) = 1 /\ requests[i] = r
    BY <2>2
  <2>4. u = <<>>
    <3> HIDE DEF u, T
    <3> QED
      BY <1>4, <2>3
  <2> QED
    BY <2>2, <2>3, <2>4
<1> QED
  BY <1>3, <1>4, <1>5

\* An answer: the store derives the data of the list.
LEMMA AnswerKeeps ==
  ASSUME PageInv, NEW i \in DOMAIN requests, Succeed(i)
  PROVE  PageInv'
<1> DEFINE list == requests[i]
           others == RemoveAt(requests, i)
<1>1. /\ phase = "idle" /\ Reset(list) /\ phase' = "search" /\ job' = "store"
      /\ requests' = others
      /\ UNCHANGED <<variables, dependencyData, table, target>>
  BY DEF Succeed, Start
<1>2. /\ list \in Seq(Row) /\ others \in Seq(Seq(Row))
      /\ Patient => others = <<>> /\ (~Cyclic(variables) => ~Cyclic(list))
  BY RequestTaken
<1> HIDE DEF list, others
<1>3. job = "none" /\ variables \in Seq(Row) /\ target \in Seq(Row) /\ table \in Seq(Row)
  BY <1>1 DEF PageInv, JobInv
<1>4. GraphInv'
  BY <1>1, <1>2, StartKeeps
<1>5. rows' = list
  BY <1>1 DEF Reset
<1>6. JobInv'
  BY <1>1, <1>2, <1>3, <1>5 DEF JobInv
<1>7. RequestsInv'
  BY <1>1, <1>2 DEF RequestsInv
<1>8. DataInv'
  BY <1>1, <1>3, DataKeeps DEF PageInv
<1> QED
  BY <1>4, <1>6, <1>7, <1>8 DEF PageInv

\* A request fails.
LEMMA FailKeeps ==
  ASSUME PageInv, NEW i \in DOMAIN requests, Fail(i)
  PROVE  PageInv'
<1> DEFINE others == RemoveAt(requests, i)
<1>1. /\ phase = "idle" /\ requests' = others
      /\ UNCHANGED <<variables, dependencyData, table, job, target, graphVars>>
  BY DEF Fail
<1>2. others \in Seq(Seq(Row)) /\ (Patient => others = <<>>)
  BY RequestTaken
<1> HIDE DEF others
<1>3. GraphInv' /\ UNCHANGED <<rows, phase>>
  BY <1>1, GraphStutters DEF PageInv
<1>4. JobInv'
  BY <1>1, <1>3 DEF PageInv, JobInv
<1>5. RequestsInv'
  BY <1>1, <1>2 DEF RequestsInv
<1>6. DataInv'
  BY <1>1, DataKeeps DEF PageInv, JobInv
<1> QED
  BY <1>3, <1>4, <1>5, <1>6 DEF PageInv

\* The data stored belongs to the list stored with it.
LEMMA StoreKeeps ==
  ASSUME PageInv, Store
  PROVE  PageInv'
<1>1. /\ variables' = rows /\ job' = "none" /\ target' = target
      /\ table' \in {rows, table} /\ requests' = requests
      /\ Reset(<<>>) /\ phase' = "idle"
  BY DEF Store, Rest
<1>2. /\ rows \in Seq(Row) /\ target \in Seq(Row) /\ table \in Seq(Row)
      /\ requests \in Seq(Seq(Row))
      /\ Patient => requests = <<>>
  BY DEF PageInv, JobInv, RequestsInv, GraphInv, GraphTypeOK, Store, Computed
<1>3. GraphInv'
  <2>1. <<>> \in Seq(Row)
    OBVIOUS
  <2> QED
    BY <1>1, <2>1, StartKeeps
<1>4. JobInv' /\ RequestsInv'
  BY <1>1, <1>2 DEF JobInv, RequestsInv
<1>5. DataInv'
  <2>1. /\ EdgesExact(variables', dependencyData')
        /\ OrderExact(variables', dependencyData')
        /\ CycleExact(variables', dependencyData')
    BY StoreExact DEF PageInv
  <2>2. /\ EdgesExact(variables, dependencyData)'
        /\ OrderExact(variables, dependencyData)'
        /\ CycleExact(variables, dependencyData)'
    BY <2>1 DEF EdgesExact, OrderExact, CycleExact
  <2> QED
    BY <2>2 DEF DataInv
<1> QED
  BY <1>3, <1>4, <1>5 DEF PageInv

\* A step of the computation leaves the page alone.
LEMMA PageComputes ==
  ASSUME PageInv, Compute,
         UNCHANGED <<variables, dependencyData, table, requests, job, target>>
  PROVE  PageInv'
<1>1. GraphInv' /\ rows' = rows /\ phase # "idle" /\ phase' # "idle"
  BY ComputeKeeps DEF PageInv
<1>2. JobInv' /\ RequestsInv'
  BY <1>1 DEF PageInv, JobInv, RequestsInv
<1>3. DataInv'
  BY DataKeeps DEF PageInv, DataInv
<1> QED
  BY <1>1, <1>2, <1>3 DEF PageInv

\* A dashboard is opened.
LEMMA PageStarts == PageInit => PageInv
<1> SUFFICES ASSUME PageInit PROVE PageInv
  OBVIOUS
<1>1. variables \in Seq(Row)
  <2>1. PICK S \in SUBSET VariableNames :
          /\ IsFiniteSet(S)
          /\ variables \in {rs \in [1 .. Cardinality(S) -> Row] : Nodes(rs) = S}
    BY SameCounts DEF PageInit
  <2>2. Cardinality(S) \in Nat /\ variables \in [1 .. Cardinality(S) -> Row]
    BY <2>1, FS_CardinalityType
  <2> QED
    BY <2>2
<1>2. Begun
  BY <1>1 DEF PageInit, Begun
<1>3. GraphInv
  BY <1>2, BegunHolds
<1>4. JobInv /\ RequestsInv
  BY <1>1 DEF PageInit, JobInv, RequestsInv
<1> QED
  BY <1>3, <1>4 DEF PageInv, DataInv, PageInit

\* A step that changes nothing.
LEMMA PageStutters ==
  ASSUME PageInv, UNCHANGED pageVars
  PROVE  PageInv'
<1>1. UNCHANGED <<variables, dependencyData, table, requests, job, target, graphVars>>
  BY DEF pageVars
<1>2. GraphInv' /\ UNCHANGED <<rows, phase>>
  BY <1>1, GraphStutters DEF PageInv
<1>3. JobInv' /\ RequestsInv'
  BY <1>1, <1>2 DEF PageInv, JobInv, RequestsInv
<1>4. DataInv'
  BY <1>1, DataKeeps DEF PageInv, DataInv
<1> QED
  BY <1>2, <1>3, <1>4 DEF PageInv

\* The invariant of the settings page and of the loops of buildDependencyGraph
\* that it starts, for every list of variables and every sequence of edits.
THEOREM PageInvariant == PageSpec => []PageInv
<1>1. ASSUME PageInv, [PageNext]_pageVars PROVE PageInv'
  <2>1. CASE Compute /\ UNCHANGED <<variables, dependencyData, table, requests, job, target>>
    BY <1>1, <2>1, PageComputes
  <2>2. CASE Checked
    BY <1>1, <2>2, CheckedKeeps
  <2>3. CASE Store
    BY <1>1, <2>3, StoreKeeps
  <2>4. CASE \E row \in Row : Add(row)
    BY <1>1, <2>4, AddKeeps
  <2>5. CASE \E i \in DOMAIN table, row \in Row : Edit(i, row)
    BY <1>1, <2>5, EditKeeps
  <2>6. CASE \E i \in DOMAIN table : Delete(i)
    BY <1>1, <2>6, DeleteKeeps
  <2>7. CASE \E i, j \in DOMAIN table : Move(i, j)
    BY <1>1, <2>7, MoveKeeps
  <2>8. CASE OpenAgain
    BY <1>1, <2>8, ReopenKeeps
  <2>9. CASE \E i \in DOMAIN requests : Succeed(i) \/ Fail(i)
    BY <1>1, <2>9, AnswerKeeps, FailKeeps
  <2>10. CASE UNCHANGED pageVars
    BY <1>1, <2>10, PageStutters
  <2> QED
    BY <1>1, <2>1, <2>2, <2>3, <2>4, <2>5, <2>6, <2>7, <2>8, <2>9, <2>10 DEF PageNext
<1> QED
  BY PageStarts, <1>1, PTL DEF PageSpec

\* Kahn's order and the walk that collects the descendants
\* (buildDependencyGraph, buildDependencyData) are exact whenever the store has
\* derived its data, for any number of variables and references.
THEOREM OrderAndReach == PageSpec => []OrderAndReachExact
<1>1. PageInv => OrderAndReachExact
  BY DEF PageInv, JobInv, DataInv, OrderExact, OrderAndReachExact, Behind
<1> QED
  BY <1>1, PageInvariant, PTL

\* Kahn's count and the depth-first search (detectCycle) both find a cycle
\* exactly when there is one, and the search reports an edge of one.
THEOREM CycleFound == PageSpec => []CycleFoundExactly
<1>1. PageInv => CycleFoundExactly
  BY DEF PageInv, JobInv, DataInv, CycleExact, CycleFoundExactly
<1> QED
  BY <1>1, PageInvariant, PTL

\* A list that handleSave lets through has no cycle, if the user waits for the
\* success of each save (the check sees the store, the save takes the table).
THEOREM VerdictIsRight == Patient => (PageSpec => []VerdictHolds)
<1> SUFFICES ASSUME Patient PROVE PageSpec => []VerdictHolds
  OBVIOUS
<1>1. PageInv => VerdictHolds
  BY VerdictRight DEF VerdictHolds
<1> QED
  BY <1>1, PageInvariant, PTL

\* The check of handleSave on both versions of an edited variable lets no edit,
\* rename, deletion or move bring the first cycle, if the user waits for the
\* success of each.
THEOREM FirstCycleRefused == Patient => (PageSpec => NoFirstCycle)
<1> SUFFICES ASSUME Patient PROVE PageSpec => NoFirstCycle
  OBVIOUS
<1>1. PageInv /\ [PageNext]_pageVars => [~Cyclic(variables) => ~Cyclic(variables')]_variables
  <2> SUFFICES ASSUME PageInv, [PageNext]_pageVars, variables' # variables, ~Cyclic(variables)
               PROVE  ~Cyclic(variables')
    OBVIOUS
  <2>1. Store
    BY DEF PageNext, Checked, Add, Edit, Delete, Move, OpenAgain, Succeed, Fail,
           handleSave, pageVars
  <2>2. job \in {"load", "store"} /\ variables' = rows
    BY <2>1 DEF Store
  <2> QED
    BY <2>2 DEF PageInv, JobInv
<1> QED
  BY <1>1, PageInvariant, PTL DEF PageSpec, NoFirstCycle

-----------------------------------------------------------------------------
(* What the store derives, fetching takes.                                 *)

\* The data as the fetch store reads it.  A name that no variable has now has
\* neither children nor descendants.
Derived ==
  [children |-> [n \in Names |-> IF n \in Nodes(variables) THEN dependencyData.graph[n] ELSE {}],
   desc |-> [n \in Names |-> IF n \in Nodes(variables) THEN dependencyData.desc[n] ELSE <<>>],
   order |-> dependencyData.order]

\* The dashboards fetching is meant for: Query holds the names of their QUERY
\* variables, their references have no cycle and no query mentions a name in
\* Dynamic.
MeantFor ==
  /\ {variables[j].name : j \in {j \in DOMAIN variables : variables[j].query}} = Query
  /\ ~Cyclic(variables)
  /\ \A j \in DOMAIN variables : variables[j].mentions \cap Dynamic = {}

\* The two modules are about the same variables.
SameVariables == VariableNames = Names

DerivedSound == phase = "idle" /\ MeantFor => Derived \in GraphType /\ Sound(Derived)

\* A child is a QUERY variable, and so is whatever is reached.
LEMMA ReachedQueries ==
  ASSUME NEW rs \in Seq(Row), NEW n \in VariableNames
  PROVE  Reach(rs, n) \subseteq {rs[j].name : j \in {j \in DOMAIN rs : rs[j].query}}
<1>1. ASSUME NEW x \in Reach(rs, n)
      PROVE  \E j \in DOMAIN rs : rs[j].query /\ rs[j].name = x
  <2>1. PICK y : Edge(rs, y, x)
    BY <1>1, ReachParent
  <2>2. PICK j \in DOMAIN rs : y \in rs[j].mentions /\ rs[j].name = x
    BY <2>1 DEF Edge, Dependents
  <2>3. rs[j] \in Row
    BY <2>2
  <2> QED
    BY <2>2, <2>3 DEF Row
<1> QED
  BY <1>1

\* The data derived is well formed, and sound.
LEMMA DerivedFits ==
  ASSUME SameVariables, PageInv, phase = "idle", MeantFor
  PROVE  Derived \in GraphType /\ Sound(Derived)
<1> DEFINE d == dependencyData
           N == Nodes(variables)
           h == Derived
<1>1. /\ variables \in Seq(Row)
      /\ EdgesExact(variables, d)
      /\ OrderExact(variables, d)
  BY DEF PageInv, JobInv, DataInv
<1>2. N \subseteq VariableNames /\ \A m, c : Edge(variables, m, c) => m \in N /\ c \in N
  BY <1>1, EdgeNodes
<1>3. /\ h.children = [n \in VariableNames |-> IF n \in N THEN d.graph[n] ELSE {}]
      /\ h.desc = [n \in VariableNames |-> IF n \in N THEN d.desc[n] ELSE <<>>]
      /\ h.order = d.order
  BY DEF Derived, SameVariables
<1>4. OnCycle(variables) = {} /\ Behind(variables) = {}
  BY DEF MeantFor, Cyclic, Behind
<1>5. \A n \in VariableNames, c \in VariableNames : c \in h.children[n] <=> Edge(variables, n, c)
  <2>1. \A n \in N : d.graph[n] = {variables[j].name : j \in Dependents(variables, n)}
    BY <1>1 DEF EdgesExact
  <2> HIDE DEF N, h, d
  <2> QED
    BY <1>2, <1>3, <2>1 DEF Edge, N
<1>6. \A n \in N : h.children[n] \subseteq N
  <2>1. \A n \in N : d.graph[n] = {variables[j].name : j \in Dependents(variables, n)}
    BY <1>1 DEF EdgesExact
  <2>2. \A n \in N : d.graph[n] \subseteq N
    BY <2>1 DEF Nodes, Dependents
  <2> HIDE DEF N, h, d
  <2> QED
    BY <1>2, <1>3, <2>2
<1>7. \A n \in VariableNames : Reach(variables, n) \subseteq Query
  BY <1>1, ReachedQueries DEF MeantFor
<1>8. \A n \in VariableNames : h.children[n] \subseteq Reach(variables, n)
  <2>1. ASSUME NEW n \in VariableNames, NEW c \in h.children[n]
        PROVE  c \in Reach(variables, n)
    <3>1. n \in N /\ c \in VariableNames
      <4> HIDE DEF N, h, d
      <4> QED
        BY <1>2, <1>3, <1>6, <2>1
    <3>2. Edge(variables, n, c)
      <4> HIDE DEF h
      <4> QED
        BY <1>5, <2>1, <3>1
    <3> QED
      BY <3>1, <3>2, ReachChild
  <2> QED
    BY <2>1
<1>9. \A n \in VariableNames : Elements(h.desc[n]) = Reach(variables, n) /\ h.desc[n] \in Seq(Query)
  <2>1. ASSUME NEW n \in VariableNames, n \in N
        PROVE  Elements(h.desc[n]) = Reach(variables, n) /\ h.desc[n] \in Seq(Query)
    <3> DEFINE s == d.desc[n]
    <3>1. s \in Seq(N) /\ ToSet(s) = Reach(variables, n)
      BY <1>1, <1>4, <2>1 DEF EdgesExact, OrderExact, Cyclic
    <3>2. h.desc[n] = s
      BY <1>3, <2>1
    <3> HIDE DEF s, N, h, d
    <3>3. DOMAIN s = 1 .. Len(s) /\ Len(s) \in Nat
      BY <3>1
    <3>4. Elements(s) = Reach(variables, n)
      BY <3>1, <3>3 DEF Elements, ToSet
    <3>5. \A i \in 1 .. Len(s) : s[i] \in Query
      BY <1>7, <3>4 DEF Elements
    <3>6. s \in Seq(Query)
      BY <3>1, <3>3, <3>5
    <3> QED
      BY <3>2, <3>4, <3>6
  <2>2. ASSUME NEW n \in VariableNames, n \notin N
        PROVE  Elements(h.desc[n]) = Reach(variables, n) /\ h.desc[n] \in Seq(Query)
    <3>1. h.desc[n] = <<>>
      BY <1>3, <2>2
    <3>2. Reach(variables, n) = {}
      <4>1. {} \in SUBSET VariableNames /\ Closed(variables, {})
        BY DEF Closed
      <4>2. \A c \in VariableNames : Edge(variables, n, c) => c \in {}
        BY <1>2, <2>2
      <4>3. Reach(variables, n) \subseteq {}
        BY <4>1, <4>2, ReachLeast
      <4> QED
        BY <4>3
    <3>3. Elements(<<>>) = {} /\ <<>> \in Seq(Query)
      BY DEF Elements
    <3> HIDE DEF h
    <3> QED
      BY <3>1, <3>2, <3>3
  <2> QED
    BY <2>1, <2>2
<1>10. Elements(h.order) = Query /\ h.order \in Seq(Query)
  <2> DEFINE s == d.order
  <2>1. s \in Seq(N) /\ ToSet(s) = Query
    BY <1>1, <1>4 DEF EdgesExact, OrderExact, MeantFor
  <2>2. h.order = s
    BY <1>3
  <2> HIDE DEF s, N, h, d
  <2>3. DOMAIN s = 1 .. Len(s) /\ Len(s) \in Nat
    BY <2>1
  <2>4. Elements(s) = Query
    BY <2>1, <2>3 DEF Elements, ToSet
  <2>5. \A i \in 1 .. Len(s) : s[i] \in Query
    BY <2>4 DEF Elements
  <2>6. s \in Seq(Query)
    BY <2>1, <2>3, <2>5
  <2> QED
    BY <2>2, <2>4, <2>6
<1>11. h \in GraphType
  <2>1. h.children \in [VariableNames -> SUBSET Query]
    <3>1. \A n \in VariableNames : h.children[n] \in SUBSET Query
      <4> HIDE DEF h
      <4> QED
        BY <1>7, <1>8
    <3> HIDE DEF N, d
    <3> QED
      BY <1>3, <3>1
  <2>2. h.desc \in [VariableNames -> Seq(Query)]
    <3>1. \A n \in VariableNames : h.desc[n] \in Seq(Query)
      BY <1>9
    <3> HIDE DEF N, d
    <3> QED
      BY <1>3, <3>1
  <2>3. h = [children |-> h.children, desc |-> h.desc, order |-> h.order]
    BY DEF Derived
  <2> HIDE DEF h
  <2> QED
    BY <1>10, <2>1, <2>2, <2>3 DEF GraphType, SameVariables
<1>12. \A n \in VariableNames : n \notin Reach(variables, n)
  BY <1>4 DEF OnCycle
<1>13. \A n \in VariableNames : \A c \in Reach(variables, n) : h.children[c] \subseteq Reach(variables, n)
  <2>1. ASSUME NEW n \in VariableNames, NEW c \in Reach(variables, n)
        PROVE  h.children[c] \subseteq Reach(variables, n)
    <3>1. c \in VariableNames
      BY <2>1, ReachClosed
    <3>2. h.children[c] \subseteq Reach(variables, c)
      <4> HIDE DEF h
      <4> QED
        BY <1>8, <3>1
    <3>3. Reach(variables, c) \subseteq Reach(variables, n)
      BY <2>1, ReachTransitive
    <3> HIDE DEF h
    <3> QED
      BY <3>2, <3>3
  <2> HIDE DEF h
  <2> QED
    BY <2>1
<1>14. \A x \in Dynamic : Reach(variables, x) = {}
  <2>1. ASSUME NEW x \in Dynamic PROVE Reach(variables, x) \subseteq {}
    <3>1. {} \in SUBSET VariableNames /\ Closed(variables, {})
      BY DEF Closed
    <3>2. \A c \in VariableNames : Edge(variables, x, c) => c \in {}
      BY DEF MeantFor, Edge, Dependents
    <3> QED
      BY <3>1, <3>2, ReachLeast
  <2> QED
    BY <2>1
<1>15. Sound(h)
  <2>1. \A n \in VariableNames : Elements(h.desc[n]) = Reach(variables, n)
    BY <1>9
  <2>2. Query \subseteq Elements(h.order)
    BY <1>10
  <2>3. \A x \in Dynamic : Elements(h.desc[x]) = {}
    <3>1. Dynamic \subseteq VariableNames
      BY DEF Names, SameVariables
    <3> HIDE DEF h
    <3> QED
      BY <1>14, <2>1, <3>1
  <2> HIDE DEF h
  <2> QED
    BY <1>8, <1>12, <1>13, <2>1, <2>2, <2>3 DEF Sound, SameVariables
<1> QED
  BY <1>11, <1>15

\* On every dashboard that fetching is meant for, the data that the variables
\* store derives (buildDependencyData) is of the kind that the theorems about
\* the fetch store take for granted: its order holds every QUERY variable and
\* its descendants are closed under children and never hold the name itself.
THEOREM StoreFeedsFetching == SameVariables => (PageSpec => []DerivedSound)
<1> SUFFICES ASSUME SameVariables PROVE PageSpec => []DerivedSound
  OBVIOUS
<1>1. PageInv => DerivedSound
  BY DerivedFits DEF DerivedSound
<1> QED
  BY <1>1, PageInvariant, PTL
=============================================================================
