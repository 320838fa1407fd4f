------------------------- MODULE DashboardVariables -------------------------
(***************************************************************************)
(* The variables of a dashboard as their settings page edits them, and the *)
(* dependency data the variables store derives from them: which QUERY      *)
(* variable is fetched after which, what a change of value reaches, and    *)
(* whether the references form a cycle.                                    *)
(*                                                                         *)
(* The browser runs one computation at a time: nothing else happens while  *)
(* DependencyGraph is at work.  A change of the list is a request to the   *)
(* server, and the store takes the list over with its answer.  Meanwhile   *)
(* the table of the page already shows the change, and after a request     *)
(* that fails it goes on showing it.                                       *)
(***************************************************************************)
EXTENDS DependencyGraph

CONSTANTS Patient,      \* does the user change nothing while a request is under way,
                        \* nor after one that failed
          MaxRequests   \* bound: how many requests are under way at a time

VARIABLES variables,       \* the variables in the store, in display order
          dependencyData,  \* what the store derived from them
          table,           \* variablesTableData: the rows that the page shows
          requests,        \* the lists sent to the server and not answered
          job,             \* what the graph is computed for
          target           \* the list to be sent if the check of a save passes

pageVars == <<variables, dependencyData, table, requests, job, target, graphVars>>

NoData == [graph |-> <<>>, order |-> <<>>, desc |-> <<>>, hasCycle |-> FALSE,
           cycle |-> <<>>]

\* A dashboard is opened.  It may come from the editor, from JSON and from the
\* API: the stored references are arbitrary.
PageInit ==
  /\ \E S \in SUBSET VariableNames :
       /\ IsFiniteSet(S)
       /\ variables \in {rs \in [1 .. Cardinality(S) -> Row] : Nodes(rs) = S}
  /\ dependencyData = NoData
  /\ table = variables
  /\ requests = <<>>
  /\ job = "load"
  /\ target = <<>>
  /\ rows = variables
  /\ phase = "search"
  /\ visited = {}
  /\ stack = <<>>
  /\ found = <<>>
  /\ degree = [n \in Nodes(rows) |-> inDegree(rows, Nodes(rows), n)]
  /\ queue = <<>>
  /\ order = <<>>
  /\ left = 0
  /\ desc = [n \in Nodes(rows) |-> <<>>]

-----------------------------------------------------------------------------
(* What the user does.                                                     *)

\* Nothing on the page waits for the request: onDoneVariableViewMode leads back
\* to the table at once.
MayAct ==
  /\ phase = "idle"
  /\ Len(requests) < MaxRequests
  /\ Patient => requests = <<>> /\ table = variables

\* Mutant of handleSave: the check leaves the new version out.
handleSaveStored(row, list) ==
  /\ Start(variables)
  /\ job' = "check"
  /\ target' = list
  /\ UNCHANGED <<variables, dependencyData, table, requests>>

\* handleSave: the check builds the graph of the variables in the store and the
\* new version side by side, so that an edited variable is in the list twice.
\* The rows that are sent are those of the table.
handleSave(row, list) ==
  /\ Start(Append(variables, row))
  /\ job' = "check"
  /\ target' = list
  /\ UNCHANGED <<variables, dependencyData, table, requests>>

\* The name of another variable is refused.  The page only knows the names in
\* the store; a second variable with a name that is on its way there is left
\* out.
FreeName(n) == n \notin Nodes(variables) \cup Nodes(table)

Add(row) ==
  /\ MayAct
  /\ FreeName(row.name)
  /\ handleSave(row, Append(table, row))

\* An edit in place, which may give the variable a new name.
Edit(i, row) ==
  /\ MayAct
  /\ row.name = table[i].name \/ FreeName(row.name)
  /\ handleSave(row, [table EXCEPT ![i] = row])

\* handleSave with the verdict, and onVariableSaveHandler.
Checked ==
  /\ job = "check"
  /\ Computed
  /\ IF hasCycle
       THEN UNCHANGED <<table, requests>>
       ELSE table' = target /\ requests' = Append(requests, target)
  /\ target' = <<>>
  /\ job' = "none"
  /\ Rest
  /\ UNCHANGED <<variables, dependencyData>>

\* handleDeleteConfirm.
Delete(i) ==
  /\ MayAct
  /\ requests' = Append(requests, RemoveAt(table, i))
  /\ UNCHANGED <<variables, dependencyData, table, job, target, graphVars>>

\* onDragEnd: arrayMove, and the rows are numbered anew.
Move(i, j) ==
  /\ MayAct
  /\ i # j
  /\ table' = InsertAt(RemoveAt(table, i), j, table[i])
  /\ requests' = Append(requests, table')
  /\ UNCHANGED <<variables, dependencyData, job, target, graphVars>>

\* The dashboard is opened again, which ends a deviation of the table.
OpenAgain ==
  /\ phase = "idle"
  /\ requests = <<>>
  /\ table # variables
  /\ table' = variables
  /\ UNCHANGED <<variables, dependencyData, requests, job, target, graphVars>>

-----------------------------------------------------------------------------
(* The answers of the server, in any order.                                *)

\* updateMutation succeeds: setSelectedDashboard, and the store derives the
\* data of the list.
Succeed(i) ==
  /\ phase = "idle"
  /\ Start(requests[i])
  /\ requests' = RemoveAt(requests, i)
  /\ job' = "store"
  /\ UNCHANGED <<variables, dependencyData, table, target>>

\* updateMutation fails: there is only the message.
Fail(i) ==
  /\ phase = "idle"
  /\ requests' = RemoveAt(requests, i)
  /\ UNCHANGED <<variables, dependencyData, table, job, target, graphVars>>

\* setDashboardVariablesStore and updateDashboardVariablesStore: the data is
\* derived together with the variables.  buildDependencyData keeps only the
\* QUERY variables in the order.  The table follows the store, but an answer
\* that changes nothing there changes nothing at all.
Store ==
  LET queries == {n \in ToSet(order) : \E j \in DOMAIN rows : rows[j].name = n /\ rows[j].query}
      at == [n \in queries |-> CHOOSE i \in DOMAIN order : order[i] = n]
  IN  /\ job \in {"load", "store"}
      /\ Computed
      /\ variables' = rows
      /\ \E s \in Arranged(queries, at) :
           dependencyData' =
             [graph |-> [n \in Nodes(rows) |-> {rows[j].name : j \in Dependents(rows, n)}],
              order |-> s, desc |-> desc, hasCycle |-> hasCycle, cycle |-> found]
      /\ table' = rows \/ (rows = variables /\ table' = table)
      /\ job' = "none"
      /\ Rest
      /\ UNCHANGED <<requests, target>>

PageNext ==
  \/ Compute /\ UNCHANGED <<variables, dependencyData, table, requests, job, target>>
  \/ Checked
  \/ Store
  \/ \E row \in Row : Add(row)
  \/ \E i \in DOMAIN table, row \in Row : Edit(i, row)
  \/ \E i \in DOMAIN table : Delete(i)
  \/ \E i, j \in DOMAIN table : Move(i, j)
  \/ OpenAgain
  \/ \E i \in DOMAIN requests : Succeed(i) \/ Fail(i)

PageSpec == PageInit /\ [][PageNext]_pageVars

-----------------------------------------------------------------------------

\* Without a cycle the order that the fetches follow holds every QUERY
\* variable once and each after all the variables it depends on; with one it
\* holds exactly those that no cycle leads to, which are fetched all the same.
\* Without a cycle a change of a variable's value reaches exactly the variables
\* that depend on it, directly or through others, each once.
OrderAndReachExact ==
  LET fetched == dependencyData.order
      queries == {variables[j].name : j \in {j \in DOMAIN variables : variables[j].query}}
      behind == OnCycle(variables) \cup UNION {Reach(variables, m) : m \in OnCycle(variables)}
  IN  phase = "idle" =>
        /\ IsInjective(fetched)
        /\ ToSet(fetched) = queries \ behind
        /\ \A i, j \in DOMAIN fetched : fetched[j] \in Reach(variables, fetched[i]) => i < j
        /\ ~Cyclic(variables) => \A n \in Nodes(variables) :
             /\ IsInjective(dependencyData.desc[n])
             /\ ToSet(dependencyData.desc[n]) = Reach(variables, n)

\* The two algorithms of buildDependencyGraph agree with each other and with
\* the references: Kahn's count, which blocks a save, and the depth-first
\* search, which finds the edge to report.
CycleFoundExactly ==
  phase = "idle" =>
    /\ dependencyData.hasCycle <=> Cyclic(variables)
    /\ dependencyData.cycle # <<>> <=> Cyclic(variables)
    /\ Cyclic(variables) =>
         LET e == dependencyData.cycle IN
         Edge(variables, e[1], e[2]) /\ (e[1] = e[2] \/ e[1] \in Reach(variables, e[2]))

\* What handleSave is for: no change of the list brings the first cycle, though
\* the check runs on a list with both versions of the edited variable, the
\* edit may rename it, a name may have been mentioned before a variable had it,
\* and requests fail.
NoFirstCycle == [][~Cyclic(variables) => ~Cyclic(variables')]_variables

\* "Cannot save: Circular dependency detected" (VariableItem.tsx): a list that
\* handleSave lets through has no cycle, whatever is stored.  It does not hold
\* for a user who does not wait: the list that is sent may have rows of the
\* table that the list checked has not.
VerdictHolds == job = "check" /\ Computed /\ ~hasCycle => ~Cyclic(target)

-----------------------------------------------------------------------------

\* collectCyclePath: from the node whose edge closes the cycle towards the
\* cycle's entry, each time to the first name that lists the current one.
\* The loop has no bound in the code; ends says whether it comes to an end.
collectCyclePath(rs, start, end) ==
  LET lists(n) == {j \in DOMAIN rs : Edge(rs, rs[j].name, n)}
      walk[i \in 0 .. Len(rs)] ==
        IF i = 0 THEN [at |-> start, path |-> <<start>>, ends |-> start = end]
        ELSE LET w == walk[i - 1] IN
             IF w.ends THEN w
             ELSE IF lists(w.at) = {} THEN [w EXCEPT !.ends = TRUE]
             ELSE LET p == rs[Min(lists(w.at))].name IN
                  [at |-> p, path |-> Append(w.path, p), ends |-> p = end]
  IN  [nodes |-> walk[Len(rs)].path, ends |-> walk[Len(rs)].ends]

\* util.ts "Found a cycle, collect the cycle nodes": every variable that the
\* message names is on a cycle, and the collection comes to an end.
CycleNamed ==
  dependencyData.hasCycle =>
    LET e == dependencyData.cycle
        named == collectCyclePath(variables, e[1], e[2])
    IN  named.ends /\ ToSet(named.nodes) \subseteq OnCycle(variables)
=============================================================================
