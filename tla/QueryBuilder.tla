---------------------------- MODULE QueryBuilder ----------------------------
(***************************************************************************)
(* The provider of the query builder (frontend/src/providers/              *)
(* QueryBuilder.tsx) with the pages that use it: an explorer, a dashboard  *)
(* and the panel editor.                                                   *)
(*                                                                         *)
(* A query lives in four places: `current', which the user edits;          *)
(* `superset', which the panel editor keeps so that a field only one panel *)
(* type has survives a visit to another type; the URL, which Stage & Run   *)
(* writes and which Back and Forward bring back; and `staged', the one     *)
(* that is executed.  Effects carry the URL to staged and to current.      *)
(*                                                                         *)
(* A builder query is its name, a filter, which every panel type has, and  *)
(* a group, which the list panel has not.  Formulas and PromQL queries are *)
(* their names.  A click or a popstate event finds the effects of the one  *)
(* before it done: React 18 flushes them with the commit of such an event. *)
(***************************************************************************)
EXTENDS Integers, FiniteSets, SequencesExt

CONSTANTS MaxQueries,   \* MAX_QUERIES: builder queries, or PromQL queries
          MaxFormulas,  \* MAX_FORMULAS
          MaxHistory,   \* bound: entries the browser keeps
          MaxEdits,     \* bound: edits of the query
          MaxMoves      \* bound: runs, navigations and reloads

ASSUME BuilderBounds ==
  /\ MaxQueries \in Nat \ {0} /\ MaxFormulas \in Nat \ {0}
  /\ MaxHistory \in Nat \ {0, 1} /\ MaxEdits \in Nat /\ MaxMoves \in Nat

VARIABLES current,   \* the query on the screen: [id, c]
          superset,  \* its superset: content only
          staged,    \* the query that is executed, or NoQuery
          history,   \* the browser's entries: [page, panel, view, q]
          pos,       \* the entry shown
          pathRef,   \* currentPathnameRef
          mounted,   \* the panel editor is on the screen
          widget,    \* the panel as the dashboard stores it: [panel, q]
          shown,     \* the panel as the dashboard was when its page opened
          saving,    \* the panel of the save under way, or NoSave
          awaits,    \* the editor on the screen waits for that save
          strayed,   \* Back or Forward was used inside the panel editor
          from,      \* where the last Back started, 0 after another move
          edits, moves

vars == <<current, superset, staged, history, pos, pathRef, mounted, widget,
          shown, saving, awaits, strayed, from, edits, moves>>
browser == <<history, pos, mounted, awaits>>
stores == <<widget, shown, saving>>
counters == <<edits, moves>>

NoQuery == [id |-> -1]
NoSave == [panel |-> "none", q |-> NoQuery]

Pages == {"explorer", "dashboard", "editor"}
Panels == {"graph", "list"}
Values == {0, 1}

Name == 1..MaxQueries
Item == [name : Name, filter : Values, group : Values]
Content == [queryData : Seq(Item), queryFormulas : Seq(1..MaxFormulas),
            promql : Seq(Name), trace : BOOLEAN]
Query == [id : Nat, valid : BOOLEAN, c : Content]

\* The fields a panel type has, beside the name (panelTypeDataSourceFormValuesMap).
PanelFields(panel) == IF panel = "list" THEN {"filter"} ELSE {"filter", "group"}

\* initialQueryBuilderFormValues, and the state a builder starts from.
initialQuery(name) == [name |-> name, filter |-> 0, group |-> 0]
initialContent == [queryData |-> <<initialQuery(1)>>, queryFormulas |-> <<>>,
                   promql |-> <<1>>, trace |-> FALSE]

\* A query stored somewhere else: a saved view, or the panel of the dashboard.
StoredContent == [initialContent EXCEPT
                    !.queryData = <<[initialQuery(MaxQueries) EXCEPT !.group = 1]>>]

here == history[pos]

-----------------------------------------------------------------------------
(***************************************************************************)
(* Names and edits of a content.                                           *)
(***************************************************************************)
queryNames(c) == [i \in DOMAIN c.queryData |-> c.queryData[i].name]

\* A mutant: the last name is never given.
NameLastSkipped(existNames, max) ==
  LET free == {n \in 1..(max - 1) : n \notin existNames}
  IN  IF free = {} THEN 0 ELSE Min(free)

\* A mutant: the number of entries names the next one.
NameByCount(existNames, max) == Cardinality(existNames) + 1

\* The first of the names 1..max not in use; 0 is the empty name.
createNewBuilderItemName(existNames, max) ==
  LET free == {n \in 1..max : n \notin existNames}
  IN  IF free = {} THEN 0 ELSE Min(free)

addQuery(c, query) ==
  IF Len(c.queryData) >= MaxQueries THEN c
  ELSE [c EXCEPT !.queryData = Append(@,
          [query EXCEPT !.name =
             createNewBuilderItemName(Range(queryNames(c)), MaxQueries)])]

addNewFormula(c) ==
  IF Len(c.queryFormulas) >= MaxFormulas THEN c
  ELSE [c EXCEPT !.queryFormulas =
          Append(@, createNewBuilderItemName(Range(@), MaxFormulas))]

addNewQueryItem(c) ==
  IF Len(c.promql) >= MaxQueries THEN c
  ELSE [c EXCEPT !.promql = Append(@, createNewBuilderItemName(Range(@), MaxQueries))]

removeByIndex(c, type, index) ==
  [c EXCEPT ![type] = IF index \in DOMAIN @ THEN RemoveAt(@, index) ELSE @]

updateQueryBuilderData(c, index, newQueryItem) ==
  [c EXCEPT !.queryData =
     [i \in DOMAIN @ |-> IF i = index THEN newQueryItem ELSE @[i]]]

\* A mutant: the edit does not reach the superset.
SupersetTakesNothing(c, index, newQueryItem) == c

\* The superset takes from the edited item the fields of the panel type.
updateSuperSetQueryBuilderData(c, index, newQueryItem) ==
  [c EXCEPT !.queryData =
     [i \in DOMAIN @ |->
        IF i = index
        THEN [f \in DOMAIN @[i] |-> IF f \in PanelFields(here.panel) \cup {"name"}
                                    THEN newQueryItem[f] ELSE @[i][f]]
        ELSE @[i]]]

\* The query of another panel type, made from the superset.
handleQueryChange(newPanelType, c) ==
  [c EXCEPT
     !.queryData = [i \in DOMAIN @ |->
        [f \in DOMAIN @[i] |-> IF f \in PanelFields(newPanelType) \cup {"name"}
                               THEN @[i][f] ELSE 0]],
     !.trace = @ /\ newPanelType # "list"]

-----------------------------------------------------------------------------
(***************************************************************************)
(* Navigation.                                                             *)
(***************************************************************************)
\* A mutant: every navigation adds an entry.
NeverDefault(target) == FALSE

\* The page stays and the URL gains a parameter it had not: the composite query,
\* or the key of a saved view.
isDefaultNavigation(target) ==
  /\ here.page = target.page
  /\ \/ here.q = NoQuery /\ target.q # NoQuery
     \/ ~here.view /\ target.view

\* The browser shows a new entry; the entries after the old one are gone.
push(target) ==
  LET h == Append(SubSeq(history, 1, pos), target)
      k == IF Len(h) > MaxHistory THEN 1 ELSE 0
  IN  /\ history' = SubSeq(h, 1 + k, Len(h))
      /\ pos' = Len(h) - k

safeNavigate(target) ==
  /\ IF isDefaultNavigation(target)
     THEN history' = [history EXCEPT ![pos] = target] /\ pos' = pos
     ELSE push(target)
  /\ mounted' = (mounted /\ target.page = "editor")
  /\ awaits' = (awaits /\ mounted')

\* uuid(): an id that no query in sight has.
uuid == LET used == {history[i].q.id : i \in DOMAIN history}
                      \cup {staged.id, current.id}
                      \cup {widget.q.id, shown.q.id, saving.q.id}
        IN  Min({n \in 1..(MaxHistory + 6) : n \notin used})

redirectWithQueryBuilderData(c, panel, view) ==
  LET builder == IF c.queryData = <<>>
                 THEN [initialContent EXCEPT !.promql = c.promql] ELSE c
      filled  == IF builder.promql = <<>>
                 THEN [builder EXCEPT !.promql = initialContent.promql] ELSE builder
  IN  safeNavigate([here EXCEPT !.panel = panel, !.view = view,
                      !.q = [id |-> uuid, valid |-> TRUE, c |-> filled]])

-----------------------------------------------------------------------------
(***************************************************************************)
(* Effects: the hooks that run after a commit, children before the         *)
(* provider, and the path effect of the provider before the other.         *)
(***************************************************************************)
PathChanged == here.page # pathRef
NeedsDefault == here.q = NoQuery /\ here.page # "dashboard"
NeedsInit == here.q # NoQuery /\ (staged = NoQuery \/ staged.id # here.q.id)

Settled == ~PathChanged /\ ~NeedsDefault /\ ~NeedsInit

\* A mutant: the page changes and the query of the last one stays staged.
StagedStays == staged

\* What the path effect makes of the staged query.
stagedAfterPath == IF PathChanged THEN NoQuery ELSE staged

\* A mutant: the staged query loses its id.
InitialisedWithoutId(q) == [q EXCEPT !.id = 0]

\* What initQueryBuilderData stages.
initialised(q) == q

Effects ==
  /\ ~Settled
  /\ pathRef' = here.page
  /\ \/ /\ NeedsDefault
        /\ staged' = NoQuery
        /\ current' = [id |-> 0, c |-> initialContent]
        /\ superset' = initialContent
        /\ redirectWithQueryBuilderData(initialContent, here.panel, here.view)
     \/ /\ NeedsInit /\ here.q.valid
        /\ staged' = initialised(here.q)
        /\ current' = [id |-> here.q.id, c |-> here.q.c]
        /\ UNCHANGED <<superset, browser>>
     \/ /\ NeedsInit /\ ~here.q.valid
        /\ staged' = stagedAfterPath
        /\ redirectWithQueryBuilderData(here.q.c, here.panel, here.view)
        /\ UNCHANGED <<current, superset>>
     \/ /\ ~NeedsDefault /\ ~NeedsInit
        /\ staged' = stagedAfterPath
        /\ UNCHANGED <<current, superset, browser>>
  /\ UNCHANGED <<stores, strayed, from, counters>>

\* The dashboard's answer puts the editor on the screen.
MountEditor ==
  /\ here.page = "editor" /\ ~mounted /\ Settled
  /\ mounted' = TRUE
  /\ superset' = current.c
  /\ UNCHANGED <<current, staged, history, pos, awaits, pathRef, stores, strayed,
                 from, counters>>

-----------------------------------------------------------------------------
(***************************************************************************)
(* Edits: each is applied to the current query and to the superset.        *)
(***************************************************************************)
OnScreen == Settled /\ (here.page = "explorer" \/ mounted)

Edit(newCurrent, newSuperset) ==
  /\ OnScreen /\ edits < MaxEdits
  /\ edits' = edits + 1
  /\ current' = [current EXCEPT !.c = newCurrent]
  /\ superset' = newSuperset
  /\ UNCHANGED <<staged, browser, pathRef, stores, strayed, from, moves>>

AddNewBuilderQuery == Edit(addQuery(current.c, initialQuery(0)),
                           addQuery(superset, initialQuery(0)))
CloneQuery == \E i \in DOMAIN current.c.queryData :
  LET query == current.c.queryData[i]
  IN  Edit(addQuery(current.c, query), addQuery(superset, query))
HandleDeleteQuery == \E i \in DOMAIN current.c.queryData :
  /\ Len(current.c.queryData) > 1
  /\ Edit(removeByIndex(current.c, "queryData", i),
          removeByIndex(superset, "queryData", i))
HandleSetQueryData ==
  \E i \in DOMAIN current.c.queryData, f \in PanelFields(here.panel), v \in Values :
     LET newQueryData == [current.c.queryData[i] EXCEPT ![f] = v]
     IN  Edit(updateQueryBuilderData(current.c, i, newQueryData),
              updateSuperSetQueryBuilderData(superset, i, newQueryData))
AddNewFormula == Edit(addNewFormula(current.c), addNewFormula(superset))
RemoveFormula == \E i \in DOMAIN current.c.queryFormulas :
  Edit(removeByIndex(current.c, "queryFormulas", i),
       removeByIndex(superset, "queryFormulas", i))
AddNewQueryItem == Edit(addNewQueryItem(current.c), addNewQueryItem(superset))
RemoveQueryTypeItem == \E i \in DOMAIN current.c.promql :
  /\ Len(current.c.promql) > 1
  /\ Edit(removeByIndex(current.c, "promql", i), removeByIndex(superset, "promql", i))
SetTraceOperator == \E present \in BOOLEAN :
  Edit([current.c EXCEPT !.trace = present], [superset EXCEPT !.trace = present])

-----------------------------------------------------------------------------
(***************************************************************************)
(* Moves: what changes the URL.                                            *)
(***************************************************************************)
Move == Settled /\ moves < MaxMoves /\ moves' = moves + 1
KeepsQueries == UNCHANGED <<current, superset, staged, pathRef, edits>>
KeepsPanel == shown' = widget /\ UNCHANGED <<widget, saving, strayed>>

HandleRunQuery ==
  /\ Move /\ OnScreen
  /\ redirectWithQueryBuilderData(current.c, here.panel, here.view)
  /\ from' = 0
  /\ KeepsQueries /\ KeepsPanel

\* handleExplorerTabChange with a saved view: its query, its panel type, its key.
SelectView ==
  /\ Move /\ here.page = "explorer"
  /\ redirectWithQueryBuilderData(StoredContent, "graph", TRUE)
  /\ from' = 0
  /\ KeepsQueries /\ KeepsPanel

\* handleExplorerTabChange with a tab: the query on the screen, run or not, with
\* other operators.  The key of the view is set, be it empty.  The tab that does
\* nothing is that of the provider's panelType, which Back leaves behind.
ChangeExplorerTab(panel) ==
  /\ Move /\ here.page = "explorer"
  /\ redirectWithQueryBuilderData(current.c, panel, TRUE)
  /\ from' = 0
  /\ KeepsQueries /\ KeepsPanel

SetGraphHandler(panel) ==
  /\ Move /\ mounted /\ panel # here.panel
  /\ redirectWithQueryBuilderData(handleQueryChange(panel, superset), panel, here.view)
  /\ from' = 0
  /\ KeepsQueries /\ KeepsPanel

OpenPage(page) ==
  /\ Move /\ page # here.page
  /\ safeNavigate([page |-> page, panel |-> "graph", view |-> FALSE, q |-> NoQuery])
  /\ from' = 0
  /\ KeepsQueries /\ KeepsPanel

\* The dashboard on the screen may have been fetched before a late save.
OnEditHandler(w) ==
  /\ Move /\ here.page = "dashboard"
  /\ safeNavigate([page |-> "editor", panel |-> w.panel, view |-> FALSE, q |-> w.q])
  /\ from' = 0
  /\ KeepsQueries /\ KeepsPanel

\* The panel is sent with the query on the screen, run or not, under its id.
\* The buttons of this editor do nothing while it waits for the answer; that a
\* later editor waits for the save of an earlier one too is a bound.
OnClickSaveHandler ==
  /\ Move /\ mounted /\ saving = NoSave
  /\ saving' = [panel |-> here.panel,
                q |-> [id |-> current.id, valid |-> TRUE, c |-> current.c]]
  /\ awaits' = TRUE
  /\ from' = 0
  /\ KeepsQueries /\ UNCHANGED <<history, pos, mounted, widget, shown, strayed>>

\* The dashboard is stored, and the editor, if it is still there, is left for the
\* dashboard (onSuccess is not called for an editor that has been unmounted).
SaveSucceeds ==
  /\ saving # NoSave
  /\ saving' = NoSave /\ widget' = saving
  /\ \/ /\ awaits /\ Settled
        /\ safeNavigate([page |-> "dashboard", panel |-> "graph", view |-> FALSE, q |-> NoQuery])
        /\ shown' = saving /\ from' = 0
     \/ ~awaits /\ UNCHANGED <<browser, shown, from>>
  /\ KeepsQueries /\ UNCHANGED <<strayed, moves>>

\* onError shows the error; the editor stays as it is.
SaveFails ==
  /\ saving # NoSave
  /\ saving' = NoSave /\ awaits' = FALSE
  /\ KeepsQueries
  /\ UNCHANGED <<history, pos, mounted, widget, shown, strayed, from, moves>>

\* The browser's Back and Forward buttons.
Travel(to) ==
  /\ Move /\ to \in DOMAIN history
  /\ pos' = to
  /\ mounted' = (mounted /\ history[to].page = "editor")
  /\ awaits' = (awaits /\ mounted')
  /\ strayed' = (strayed \/ mounted')
  /\ from' = IF to < pos /\ (history[to].q = NoQuery \/ history[to].q.valid)
             THEN pos ELSE 0
  /\ KeepsQueries /\ shown' = widget /\ UNCHANGED <<history, widget, saving>>
Back == Travel(pos - 1)
Forward == Travel(pos + 1)

\* The query a provider starts with: the URL's, or initialQueriesMap.metrics.
providerQuery(entry) ==
  IF entry.q = NoQuery THEN [id |-> 0, c |-> initialContent]
  ELSE [id |-> entry.q.id, c |-> entry.q.c]

Reload ==
  /\ Move
  /\ current' = providerQuery(here) /\ superset' = current'.c
  /\ staged' = NoQuery /\ pathRef' = here.page /\ mounted' = FALSE /\ awaits' = FALSE
  /\ from' = 0
  /\ KeepsPanel /\ UNCHANGED <<history, pos, edits>>

-----------------------------------------------------------------------------
\* A link with a whole query, one of an older version without its PromQL part, or none.
Links == {NoQuery, [id |-> 1, valid |-> TRUE, c |-> initialContent],
          [id |-> 1, valid |-> FALSE, c |-> [initialContent EXCEPT !.promql = <<>>]]}

Init ==
  /\ \/ \E q \in Links :
          history = <<[page |-> "explorer", panel |-> "graph", view |-> FALSE, q |-> q]>>
     \/ history = <<[page |-> "dashboard", panel |-> "graph", view |-> FALSE, q |-> NoQuery]>>
  /\ pos = 1
  /\ current = providerQuery(history[1]) /\ superset = current.c
  /\ staged = NoQuery /\ pathRef = here.page /\ mounted = FALSE
  /\ widget = [panel |-> "graph", q |-> [id |-> 2, valid |-> TRUE, c |-> StoredContent]]
  /\ shown = widget /\ saving = NoSave /\ awaits = FALSE
  /\ strayed = FALSE /\ from = 0
  /\ edits = 0 /\ moves = 0

Edits == \/ AddNewBuilderQuery \/ CloneQuery \/ HandleDeleteQuery
         \/ HandleSetQueryData \/ AddNewFormula \/ RemoveFormula
         \/ AddNewQueryItem \/ RemoveQueryTypeItem \/ SetTraceOperator

Moves == \/ HandleRunQuery \/ SelectView
         \/ \E panel \in Panels : ChangeExplorerTab(panel) \/ SetGraphHandler(panel)
         \/ \E page \in {"explorer", "dashboard"} : OpenPage(page)
         \/ \E w \in {shown, widget} : OnEditHandler(w)
         \/ OnClickSaveHandler \/ Back \/ Forward \/ Reload

Next == Effects \/ MountEditor \/ Edits \/ Moves \/ SaveSucceeds \/ SaveFails

\* React runs the effects of a commit.
Fairness == WF_vars(Effects)

Spec == Init /\ [][Next]_vars /\ Fairness

-----------------------------------------------------------------------------
(***************************************************************************)
(* Properties.                                                             *)
(***************************************************************************)
\* Every variable has its type: the state of the provider, of the browser and of the panel.
TypeOK ==
  /\ current \in [id : Nat, c : Content] /\ superset \in Content
  /\ staged \in Query \cup {NoQuery}
  /\ history \in Seq([page : Pages, panel : Panels, view : BOOLEAN, q : Query \cup {NoQuery}])
  /\ pos \in DOMAIN history /\ Len(history) <= MaxHistory
  /\ pathRef \in Pages /\ mounted \in BOOLEAN
  /\ widget \in [panel : Panels, q : Query] /\ shown \in [panel : Panels, q : Query]
  /\ saving \in [panel : Panels, q : Query] \cup {NoSave} /\ awaits \in BOOLEAN
  /\ strayed \in BOOLEAN /\ from \in 0..MaxHistory
  /\ edits \in 0..MaxEdits /\ moves \in 0..MaxMoves

NamedApart(c) == /\ IsInjective(queryNames(c)) /\ IsInjective(c.queryFormulas)
                 /\ IsInjective(c.promql)

\* No two queries, formulas or PromQL queries of the query on the screen, of
\* the staged one, of the panel that is stored, shown or being saved or of an
\* entry of the browser have the same name: a result and a formula's operand are
\* found by name.  It holds until Back or Forward is used inside the panel editor.
NamesUnique ==
  strayed \/ /\ NamedApart(current.c)
             /\ NamedApart(widget.q.c) /\ NamedApart(shown.q.c)
             /\ (saving # NoSave => NamedApart(saving.q.c))
             /\ (staged # NoQuery => NamedApart(staged.c))
             /\ \A i \in DOMAIN history :
                  history[i].q # NoQuery => NamedApart(history[i].q.c)

\* In the panel editor the superset has the queries, formulas and PromQL
\* queries of the query on the screen, in the same order, and agrees with it
\* on every field the panel type has: a change of the panel type, which
\* rebuilds the query from the superset, loses nothing the user sees.
SupersetAgrees ==
  (mounted /\ Settled /\ ~strayed) =>
     /\ Len(superset.queryData) = Len(current.c.queryData)
     /\ \A i \in DOMAIN superset.queryData :
          \A f \in PanelFields(here.panel) \cup {"name"} :
             superset.queryData[i][f] = current.c.queryData[i][f]
     /\ superset.queryFormulas = current.c.queryFormulas
     /\ superset.promql = current.c.promql
     /\ here.panel = "graph" => superset.trace = current.c.trace

\* Once the effects have run, the query that is executed is the query of the
\* URL, content and all: the ids alone are compared by the code, and a panel
\* stored with edits that were not run has the id of the URL before them.
StagedIsUrl == (Settled /\ here.q # NoQuery) => staged = here.q

\* Back goes back: once the effects have run, the entry shown is one before
\* the entry Back was pressed on.  An entry whose query lacks a part is not
\* counted: its repair is a new entry.
BackGoesBack == (Settled /\ from # 0) => pos < from

\* The effects come to rest after every move: a repaired or default query is
\* not repaired or replaced again.
EffectsSettle == ~Settled ~> Settled

=============================================================================
