--------------------------- MODULE MCVariableFetch ---------------------------
EXTENDS VariableFetch, TLC

CONSTANTS q1, q2, q3, d1, o1

\* The dependency data of a dashboard: what the names not listed have is empty.
Data(children, desc, order) ==
  [children |-> [n \in Names |-> IF n \in DOMAIN children THEN children[n] ELSE {}],
   desc |-> [n \in Names |-> IF n \in DOMAIN desc THEN desc[n] ELSE <<>>],
   order |-> SelectSeq(order, LAMBDA n : n \in Query)]

\* q3 depends on q1 twice, once through q2; q2 joins two queries, one
\* of which is displayed after it; and no references.
Diamond == Data(o1 :> {q1} @@ q1 :> {q2, q3} @@ q2 :> {q3},
                o1 :> <<q1, q2, q3>> @@ q1 :> <<q2, q3>> @@ q2 :> <<q3>>, <<q1, q2, q3>>)
Join == Data(q1 :> {q2} @@ q3 :> {q2}, q1 :> <<q2>> @@ q3 :> <<q2>>, <<q1, q3, q2>>)
Loose == Data(<<>>, <<>>, <<q1, q2, q3>>)

ThreeGraphs == {Diamond, Join, Loose}
OrderEdits == {e \in Graphs \X Graphs : e[1].order # e[2].order}

\* A query that mentions the dynamic variable.
CrossGraphs == {Data(d1 :> {q2}, d1 :> <<q2>>, <<q1, q3, q2>>)}
\* A reference is removed, and the order of two queries stays.
RemovedGraphs == {Data(q1 :> {q2}, q1 :> <<q2>>, <<q1, q3, q2>>), Loose}
AllEdits == Graphs \X Graphs
NoEdits == {}
=============================================================================
