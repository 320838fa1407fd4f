-------------------------- MODULE DependencyGraph --------------------------
(***************************************************************************)
(* The graph algorithms of the dashboard variables                         *)
(* (frontend DashboardVariablesSelection/util.ts), a loop's round a step:  *)
(* the depth-first search that finds a cycle, Kahn's sort, and the walk of *)
(* the order from its end that collects the descendants.                   *)
(*                                                                         *)
(* The input is a list of variables, each with its name and the names that *)
(* its query text mentions.  An edge leads from a variable to the QUERY    *)
(* variables that mention it.  A list may hold two versions of a variable: *)
(* buildDependencies then lists the name twice, once for each that         *)
(* mentions.                                                               *)
(***************************************************************************)
EXTENDS Naturals, Sequences, SequencesExt

CONSTANT VariableNames   \* the names variables may have

VARIABLES rows,      \* the variables that the graph is of
          phase,     \* "idle", "search", "seed", "sort" or "walk"
          visited,   \* detectCycle: the nodes entered
          stack,     \* the calls of detectCycle under way, which are recStack
          found,     \* the edge that closes the cycle found, or <<>>
          degree,    \* inDegree
          queue,     \* Kahn's queue
          order,     \* topologicalOrder
          left,      \* how much of the order is still to be walked
          desc       \* transitiveDescendants

graphVars == <<rows, phase, visited, stack, found, degree, queue, order, left, desc>>

\* The query text of a variable of another type is not read.
Row == {r \in [name : VariableNames, query : BOOLEAN, mentions : SUBSET VariableNames] :
          r.query \/ r.mentions = {}}

-----------------------------------------------------------------------------
(* The graph of a list.                                                    *)

Nodes(rs) == {rs[j].name : j \in DOMAIN rs}

\* getDependentVariablesBasedOnVariableName, as positions in the list.
Dependents(rs, n) == {j \in DOMAIN rs : n \in rs[j].mentions}

\* buildDependencies: an entry for each node and each query that mentions it.
Links(rs) == {l \in Nodes(rs) \X DOMAIN rs : l[2] \in Dependents(rs, l[1])}

Edge(rs, m, n) == m \in Nodes(rs) /\ \E j \in Dependents(rs, m) : rs[j].name = n

\* How many entries for n the nodes in S have.
inDegree(rs, S, n) == Cardinality({l \in Links(rs) : l[1] \in S /\ rs[l[2]].name = n})

First(j, S) == j \in S /\ \A k \in S : j <= k

\* The members of Z by their position; there is one such sequence.
Arranged(Z, pos) ==
  {s \in SetToSeqs(Z) : \A i, j \in DOMAIN s : i < j => pos[s[i]] < pos[s[j]]}

-----------------------------------------------------------------------------

\* The locals of buildDependencyGraph, for a list.
Reset(rs) ==
  /\ rows' = rs
  /\ visited' = {}
  /\ stack' = <<>>
  /\ found' = <<>>
  /\ degree' = [n \in Nodes(rs) |-> inDegree(rs, Nodes(rs), n)]
  /\ queue' = <<>>
  /\ order' = <<>>
  /\ left' = 0
  /\ desc' = [n \in Nodes(rs) |-> <<>>]

\* buildDependencyGraph is called, and it has returned.
Start(rs) == phase' = "search" /\ Reset(rs)
Rest == phase' = "idle" /\ Reset(<<>>)

-----------------------------------------------------------------------------
(* detectCycle.                                                            *)

\* Mutant of OnStack: recStack is never cleared.
OnStackEver(n) == n \in visited

\* recStack.has: the nodes whose neighbours are being searched.
OnStack(n) == \E i \in DOMAIN stack : stack[i] = n

\* Where the nodes are that the search has not entered.
Fresh == {j \in DOMAIN rows : rows[j].name \notin visited}

\* The neighbours of the node on top that detectCycle has not passed.  It
\* passes those that are entered and left, the ones it has itself called
\* detectCycle for among them.
Ahead ==
  {j \in Dependents(rows, Last(stack)) :
     rows[j].name \notin visited \/ OnStack(rows[j].name)}

Enter(n) ==
  /\ stack' = Append(stack, n)
  /\ visited' = visited \cup {n}
  /\ UNCHANGED <<rows, phase, found, degree, queue, order, left, desc>>

\* The loop over the nodes calls detectCycle.
SearchRoot ==
  /\ phase = "search"
  /\ stack = <<>>
  /\ \E j \in DOMAIN rows : First(j, Fresh) /\ Enter(rows[j].name)

\* The loop over the neighbours calls it for one that is not entered.
SearchNeighbour ==
  /\ phase = "search"
  /\ stack # <<>>
  /\ \E j \in DOMAIN rows :
       First(j, Ahead) /\ rows[j].name \notin visited /\ Enter(rows[j].name)

\* A neighbour is on the stack: both loops end.
SearchFinds ==
  /\ phase = "search"
  /\ stack # <<>>
  /\ \E j \in DOMAIN rows :
       /\ First(j, Ahead)
       /\ rows[j].name \in visited
       /\ found' = <<Last(stack), rows[j].name>>
  /\ phase' = "seed"
  /\ UNCHANGED <<rows, visited, stack, degree, queue, order, left, desc>>

\* recStack.delete, and a return.
SearchReturns ==
  /\ phase = "search"
  /\ stack # <<>>
  /\ Ahead = {}
  /\ stack' = Front(stack)
  /\ UNCHANGED <<rows, phase, visited, found, degree, queue, order, left, desc>>

SearchEnds ==
  /\ phase = "search"
  /\ stack = <<>>
  /\ Fresh = {}
  /\ phase' = "seed"
  /\ UNCHANGED <<rows, visited, stack, found, degree, queue, order, left, desc>>

-----------------------------------------------------------------------------
(* Kahn's algorithm.                                                       *)

Seed ==
  LET zero == {n \in Nodes(rows) : degree[n] = 0}
      at == [n \in zero |-> Min({j \in DOMAIN rows : rows[j].name = n})]
  IN  /\ phase = "seed"
      /\ phase' = "sort"
      /\ queue' \in Arranged(zero, at)
      /\ visited' = {}
      /\ stack' = <<>>
      /\ UNCHANGED <<rows, found, degree, order, left, desc>>

\* One iteration: the head of the queue gives up its entries, and a child
\* joins the queue with the last entry for it.
Visit ==
  LET current == Head(queue)
      lowered == [n \in Nodes(rows) |-> degree[n] - inDegree(rows, {current}, n)]
      freed == {n \in Nodes(rows) : degree[n] # 0 /\ lowered[n] = 0}
      at == [n \in freed |->
               Max({j \in Dependents(rows, current) : rows[j].name = n})]
  IN  /\ phase = "sort"
      /\ queue # <<>>
      /\ order' = Append(order, current)
      /\ degree' = lowered
      /\ \E s \in Arranged(freed, at) : queue' = Tail(queue) \o s
      /\ UNCHANGED <<rows, phase, visited, stack, found, left, desc>>

SortEnds ==
  /\ phase = "sort"
  /\ queue = <<>>
  /\ phase' = "walk"
  /\ left' = Len(order)
  /\ UNCHANGED <<rows, visited, stack, found, degree, queue, order, desc>>

hasCycle == Len(order) # Cardinality(Nodes(rows))

-----------------------------------------------------------------------------
(* The descendants of every ordered name.  A child that is not in the      *)
(* order (it is on a cycle or behind one) has no list and contributes only *)
(* itself.                                                                 *)

\* A query and what is known to depend on it.
Below(j) == <<rows[j].name>> \o desc[rows[j].name]

\* The Set that the loop over the children of n fills, by first insertion.
Collected(n) ==
  LET all == UNION {ToSet(Below(j)) : j \in Dependents(rows, n)}
      span == Len(rows) + 2
      at == [z \in all |->
               Min(UNION {{j * span + i : i \in {i \in DOMAIN Below(j) : Below(j)[i] = z}} :
                            j \in Dependents(rows, n)})]
  IN  Arranged(all, at)

\* Mutant of Walk: the order is walked from its front.
WalkForward ==
  LET node == order[Len(order) - left + 1] IN
  /\ phase = "walk"
  /\ left > 0
  /\ \E s \in Collected(node) : desc' = [desc EXCEPT ![node] = s]
  /\ left' = left - 1
  /\ UNCHANGED <<rows, phase, visited, stack, found, degree, queue, order>>

Walk ==
  LET node == order[left] IN
  /\ phase = "walk"
  /\ left > 0
  /\ \E s \in Collected(node) : desc' = [desc EXCEPT ![node] = s]
  /\ left' = left - 1
  /\ UNCHANGED <<rows, phase, visited, stack, found, degree, queue, order>>

\* buildDependencyGraph returns.
Computed == phase = "walk" /\ left = 0

Compute ==
  \/ SearchRoot \/ SearchNeighbour \/ SearchFinds \/ SearchReturns \/ SearchEnds
  \/ Seed \/ Visit \/ SortEnds \/ Walk

-----------------------------------------------------------------------------
(* The reference: m is reached from n when it is in every set that holds   *)
(* the children of n and the children of its members.                      *)

Closed(rs, S) == \A m \in S : \A n \in VariableNames : Edge(rs, m, n) => n \in S

Reach(rs, n) ==
  {m \in VariableNames : \A S \in SUBSET VariableNames :
     Closed(rs, S) /\ (\A c \in VariableNames : Edge(rs, n, c) => c \in S) => m \in S}

OnCycle(rs) == {n \in VariableNames : n \in Reach(rs, n)}
Cyclic(rs) == OnCycle(rs) # {}
=============================================================================
