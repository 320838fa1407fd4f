------------------------- MODULE QueryBuilderProofs -------------------------
(***************************************************************************)
(* Proofs about QueryBuilder: its types, and that the staged query, the    *)
(* names, the superset and the Back button are right, for any number of    *)
(* queries, entries, edits and moves.                                      *)
(***************************************************************************)
EXTENDS QueryBuilder, FiniteSetTheorems, SequenceTheorems, WellFoundedInduction,
        TLAPS

Entry == [page : Pages, panel : Panels, view : BOOLEAN, q : Query \cup {NoQuery}]

\* What redirectWithQueryBuilderData sees to.
Filled(c) == c.queryData # <<>> /\ c.promql # <<>>

\* s and c differ at most in fields that the panel type has not.
Agrees(s, c, panel) ==
  /\ Len(s.queryData) = Len(c.queryData)
  /\ \A i \in DOMAIN s.queryData :
       \A f \in PanelFields(panel) \cup {"name"} : s.queryData[i][f] = c.queryData[i][f]
  /\ s.queryFormulas = c.queryFormulas
  /\ s.promql = c.promql
  /\ panel = "graph" => s.trace = c.trace

\* A dashboard has no query in its URL, and neighbours in the history with the
\* same page and the same id have the same query; a whole query has its parts.
HistoryInv ==
  /\ \A i \in DOMAIN history : history[i].page = "dashboard" => history[i].q = NoQuery
  /\ \A i \in DOMAIN history : i + 1 \in DOMAIN history =>
       \/ history[i].page # history[i + 1].page
       \/ history[i].q.id # history[i + 1].q.id
       \/ history[i].q = history[i + 1].q
  /\ \A i \in DOMAIN history :
       history[i].q # NoQuery /\ history[i].q.valid => Filled(history[i].q.c)

\* Where the provider and the editor are.
PlaceInv ==
  /\ pathRef = "dashboard" => staged = NoQuery
  /\ mounted => here.page = "editor" /\ pathRef = "editor"
  /\ awaits => mounted

\* The staged query is whole, and is the URL's as soon as the ids agree.
StagedInv ==
  /\ staged # NoQuery => staged.valid
  /\ ~PathChanged /\ staged.id = here.q.id => staged = here.q

\* The query on the screen has its parts, unless the first one of the URL is
\* still to be repaired.
FilledInv ==
  /\ Filled(widget.q.c) /\ Filled(shown.q.c)
  /\ saving # NoSave => Filled(saving.q.c)
  /\ Filled(current.c) \/ (staged = NoQuery /\ here.q # NoQuery)

BackInv == from # 0 => pos < from /\ (here.q = NoQuery \/ here.q.valid)

\* The superset agrees with the query that the editor shows or is about to show.
EditorInv ==
  mounted /\ ~strayed =>
    /\ here.q # NoQuery /\ here.q.valid
    /\ Agrees(superset, IF NeedsInit THEN here.q.c ELSE current.c, here.panel)

BuilderInv == /\ HistoryInv /\ PlaceInv /\ StagedInv /\ FilledInv /\ BackInv
              /\ NamesUnique /\ EditorInv
-----------------------------------------------------------------------------
(* Names: there is always one to give.                                     *)

\* A nonempty set of numbers has a least one.
LEMMA LeastOf ==
  ASSUME NEW S \in SUBSET Nat, S # {}
  PROVE  Min(S) \in S
<1> DEFINE R == OpToRel(<, Nat)
<1>1. IsWellFoundedOn(R, Nat)
  BY NatLessThanWellFounded, Zenon
<1>2. \A y, x \in Nat : y < x => <<y, x>> \in R
  BY DEF OpToRel
<1> HIDE DEF R
<1>3. PICK x \in S : \A y \in S : ~(<<y, x>> \in R)
  BY <1>1, WFMin
<1>4. ASSUME NEW y \in S PROVE x =< y
  <2>1. ~(y < x)
    BY <1>2, <1>3
  <2> QED
    BY <2>1
<1> QED
  BY <1>4 DEF Min

\* A sequence of n entries has at most n names.
LEMMA RangeSmall ==
  ASSUME NEW n \in Nat, NEW s, DOMAIN s = 1 .. n
  PROVE  IsFiniteSet(Range(s)) /\ Cardinality(Range(s)) <= n
<1> DEFINE f == [i \in 1 .. n |-> s[i]]
<1>1. IsFiniteSet(1 .. n) /\ Cardinality(1 .. n) = n
  BY FS_Interval
<1>2. f \in Surjection(1 .. n, Range(s))
  BY DEF Surjection, Range
<1> HIDE DEF f
<1> QED
  BY <1>1, <1>2, FS_Surjection

\* Fewer names than max are in use: the first that is not is one of them.
LEMMA FirstFree ==
  ASSUME NEW used, IsFiniteSet(used), NEW max \in Nat, Cardinality(used) < max
  PROVE  /\ {n \in 1 .. max : n \notin used} # {}
         /\ Min({n \in 1 .. max : n \notin used}) \in {n \in 1 .. max : n \notin used}
<1> DEFINE free == {n \in 1 .. max : n \notin used}
<1>1. IsFiniteSet(1 .. max) /\ Cardinality(1 .. max) = max
  BY FS_Interval
<1>2. free # {}
  <2> SUFFICES ASSUME free = {} PROVE FALSE
    OBVIOUS
  <2>1. 1 .. max \in SUBSET used
    OBVIOUS
  <2>2. max <= Cardinality(used) /\ Cardinality(used) \in Nat
    BY <1>1, <2>1, FS_Subset, FS_CardinalityType
  <2> QED
    BY <2>2
<1>3. free \in SUBSET Nat
  OBVIOUS
<1> QED
  BY <1>2, <1>3, LeastOf
\* createNewBuilderItemName gives a name that no entry has.
LEMMA NewName ==
  ASSUME NEW max \in Nat, NEW n \in Nat, n < max, NEW s, DOMAIN s = 1 .. n
  PROVE  /\ createNewBuilderItemName(Range(s), max) \in 1 .. max
         /\ createNewBuilderItemName(Range(s), max) \notin Range(s)
<1>1. IsFiniteSet(Range(s)) /\ Cardinality(Range(s)) <= n
  BY RangeSmall
<1>2. Cardinality(Range(s)) < max
  BY <1>1, FS_CardinalityType
<1> QED
  BY <1>1, <1>2, FirstFree DEF createNewBuilderItemName

-----------------------------------------------------------------------------
(* Sequences of queries.                                                   *)

\* An entry with a new name leaves the names apart.
LEMMA AppendApart ==
  ASSUME NEW T, NEW s \in Seq(T), NEW e \in T, IsInjective(s), e \notin Range(s)
  PROVE  IsInjective(Append(s, e))
<1>1. /\ DOMAIN s = 1 .. Len(s) /\ Len(s) \in Nat
      /\ DOMAIN Append(s, e) = 1 .. Len(s) + 1
      /\ \A i \in 1 .. Len(s) : Append(s, e)[i] = s[i]
      /\ Append(s, e)[Len(s) + 1] = e
  BY AppendProperties
<1>2. \A i \in 1 .. Len(s) : s[i] # e
  BY <1>1 DEF Range
<1> QED
  BY <1>1, <1>2 DEF IsInjective

\* What is left when an entry is removed.
LEMMA RemoveAtEntries ==
  ASSUME NEW T, NEW s \in Seq(T), NEW i \in 1 .. Len(s)
  PROVE  /\ RemoveAt(s, i) \in Seq(T)
         /\ Len(RemoveAt(s, i)) = Len(s) - 1
         /\ \A j \in 1 .. Len(s) - 1 : RemoveAt(s, i)[j] = s[IF j < i THEN j ELSE j + 1]
<1> DEFINE a == SubSeq(s, 1, i - 1)
           b == SubSeq(s, i + 1, Len(s))
<1>1. Len(s) \in Nat /\ i \in Int /\ \A j \in 1 .. Len(s) : s[j] \in T
  OBVIOUS
<1>2. /\ a \in Seq(T) /\ Len(a) = i - 1
      /\ \A j \in 1 .. i - 1 : a[j] = s[j]
  <2>1. /\ a \in Seq(T)
        /\ Len(a) = IF 1 <= i - 1 THEN (i - 1) - 1 + 1 ELSE 0
        /\ \A j \in 1 .. (i - 1) - 1 + 1 : a[j] = s[1 + j - 1]
    <3>1. \A j \in 1 .. i - 1 : s[j] \in T
      BY <1>1
    <3> QED
      BY <3>1, SubSeqProperties, i - 1 \in Int, 1 \in Int
  <2>2. (i - 1) - 1 + 1 = i - 1 /\ \A j \in Int : 1 + j - 1 = j
    OBVIOUS
  <2> QED
    BY <2>1, <2>2
<1>3. /\ b \in Seq(T) /\ Len(b) = Len(s) - i
      /\ \A j \in 1 .. Len(s) - i : b[j] = s[i + j]
  <2>1. /\ b \in Seq(T)
        /\ Len(b) = IF i + 1 <= Len(s) THEN Len(s) - (i + 1) + 1 ELSE 0
        /\ \A j \in 1 .. Len(s) - (i + 1) + 1 : b[j] = s[(i + 1) + j - 1]
    <3>1. \A j \in i + 1 .. Len(s) : s[j] \in T
      BY <1>1
    <3> QED
      BY <1>1, <3>1, SubSeqProperties, i + 1 \in Int
  <2>2. Len(s) - (i + 1) + 1 = Len(s) - i /\ \A j \in Int : (i + 1) + j - 1 = i + j
    BY <1>1
  <2>3. Len(b) = Len(s) - i
    <3> HIDE DEF b
    <3>1. i <= Len(s)
      OBVIOUS
    <3>2. ~(i + 1 <= Len(s)) => Len(s) - i = 0
      BY <1>1, <3>1
    <3>3. Len(b) = IF i + 1 <= Len(s) THEN Len(s) - (i + 1) + 1 ELSE 0
      BY <2>1
    <3>4. Len(s) - (i + 1) + 1 = Len(s) - i
      BY <2>2
    <3> QED
      BY <3>2, <3>3, <3>4, Zenon
  <2>4. \A j \in 1 .. Len(s) - i : b[j] = s[i + j]
    <3> HIDE DEF b
    <3> TAKE j \in 1 .. Len(s) - i
    <3>1. j \in 1 .. Len(s) - (i + 1) + 1 /\ (i + 1) + j - 1 = i + j
      BY <1>1
    <3> QED
      BY <2>1, <3>1
  <2> QED
    BY <2>1, <2>3, <2>4
<1>4. RemoveAt(s, i) = a \o b
  BY DEF RemoveAt
<1> HIDE DEF a, b
<1>5. /\ a \o b \in Seq(T) /\ Len(a \o b) = Len(a) + Len(b)
      /\ \A j \in 1 .. Len(a) + Len(b) :
           (a \o b)[j] = IF j <= Len(a) THEN a[j] ELSE b[j - Len(a)]
  BY <1>2, <1>3, ConcatProperties
<1>6. Len(a) + Len(b) = Len(s) - 1
  BY <1>1, <1>2, <1>3
<1>7. ASSUME NEW j \in 1 .. Len(s) - 1
      PROVE  (a \o b)[j] = s[IF j < i THEN j ELSE j + 1]
  <2>1. CASE j < i
    BY <1>1, <1>2, <1>5, <1>6, <2>1
  <2>2. CASE ~(j < i)
    <3>1. j - Len(a) \in 1 .. Len(s) - i /\ i + (j - Len(a)) = j + 1 /\ ~(j <= Len(a))
      <4>1. j \in Int /\ i <= j /\ j <= Len(s) - 1 /\ Len(a) = i - 1
        BY <1>1, <1>2, <2>2
      <4> QED
        BY <1>1, <4>1
    <3>2. (a \o b)[j] = b[j - Len(a)]
      BY <1>5, <1>6, <3>1
    <3> QED
      BY <1>3, <2>2, <3>1, <3>2
  <2> QED
    BY <2>1, <2>2
<1> QED
  BY <1>4, <1>5, <1>6, <1>7

\* Names stay apart when an entry is removed.
LEMMA RemoveAtApart ==
  ASSUME NEW T, NEW s \in Seq(T), NEW i \in 1 .. Len(s), IsInjective(s)
  PROVE  IsInjective(RemoveAt(s, i))
<1> DEFINE r == RemoveAt(s, i)
           at(j) == IF j < i THEN j ELSE j + 1
<1>1. /\ r \in Seq(T) /\ Len(r) = Len(s) - 1
      /\ \A j \in 1 .. Len(s) - 1 : r[j] = s[at(j)]
  BY RemoveAtEntries
<1>2. DOMAIN r = 1 .. Len(s) - 1 /\ Len(s) \in Nat /\ DOMAIN s = 1 .. Len(s)
  BY <1>1
<1>3. \A j \in 1 .. Len(s) - 1 : at(j) \in 1 .. Len(s)
  BY <1>2
<1>4. \A j, k \in 1 .. Len(s) - 1 : at(j) = at(k) => j = k
  BY <1>2
<1> HIDE DEF r, at
<1>5. IsInjective(r)
  <2> SUFFICES ASSUME NEW j \in 1 .. Len(s) - 1, NEW k \in 1 .. Len(s) - 1, r[j] = r[k]
               PROVE  j = k
    BY <1>2 DEF IsInjective
  <2>1. s[at(j)] = s[at(k)]
    BY <1>1
  <2>2. at(j) \in DOMAIN s /\ at(k) \in DOMAIN s
    BY <1>2, <1>3
  <2>3. at(j) = at(k)
    BY <2>1, <2>2 DEF IsInjective
  <2> QED
    BY <1>4, <2>3
<1> QED
  BY <1>5 DEF r
-----------------------------------------------------------------------------
(* Contents and their edits.                                               *)

\* A query that has not got its name yet.
Unnamed == [name : Nat, filter : Values, group : Values]

\* The fields of a content.
LEMMA ContentParts ==
  ASSUME NEW c \in Content
  PROVE  /\ c.queryData \in Seq(Item) /\ DOMAIN c.queryData = 1 .. Len(c.queryData)
         /\ c.queryFormulas \in Seq(1 .. MaxFormulas)
         /\ DOMAIN c.queryFormulas = 1 .. Len(c.queryFormulas)
         /\ c.promql \in Seq(Name) /\ DOMAIN c.promql = 1 .. Len(c.promql)
         /\ c.trace \in BOOLEAN
         /\ Len(c.queryData) \in Nat /\ Len(c.queryFormulas) \in Nat /\ Len(c.promql) \in Nat
         /\ queryNames(c) \in Seq(Name) /\ Len(queryNames(c)) = Len(c.queryData)
         /\ \A i \in 1 .. Len(c.queryData) : /\ c.queryData[i] \in Item
                                             /\ queryNames(c)[i] = c.queryData[i].name
<1>1. /\ c.queryData \in Seq(Item) /\ c.queryFormulas \in Seq(1 .. MaxFormulas)
      /\ c.promql \in Seq(Name) /\ c.trace \in BOOLEAN
  BY DEF Content
<1>2. DOMAIN c.queryData = 1 .. Len(c.queryData) /\ Len(c.queryData) \in Nat
  BY <1>1
<1>3. \A i \in 1 .. Len(c.queryData) : c.queryData[i] \in Item
  BY <1>1, <1>2
<1>4. queryNames(c) = [i \in 1 .. Len(c.queryData) |-> c.queryData[i].name]
  BY <1>2 DEF queryNames
<1>5. \A i \in 1 .. Len(c.queryData) : c.queryData[i].name \in Name
  BY <1>3 DEF Item
<1>6. /\ queryNames(c) \in Seq(Name) /\ Len(queryNames(c)) = Len(c.queryData)
      /\ \A i \in 1 .. Len(c.queryData) : queryNames(c)[i] = c.queryData[i].name
  BY <1>2, <1>4, <1>5
<1> QED
  BY <1>1, <1>2, <1>3, <1>6

\* The contents that a builder starts from.
LEMMA InitialContents ==
  /\ initialContent \in Content /\ StoredContent \in Content
  /\ NamedApart(initialContent) /\ NamedApart(StoredContent)
  /\ Filled(initialContent) /\ Filled(StoredContent)
<1>1. 1 \in Name /\ MaxQueries \in Name
  BY BuilderBounds DEF Name
<1>2. initialQuery(1) \in Item /\ [initialQuery(MaxQueries) EXCEPT !.group = 1] \in Item
  BY <1>1 DEF initialQuery, Item, Values
<1>3. /\ <<initialQuery(1)>> \in Seq(Item) /\ <<1>> \in Seq(Name)
      /\ <<[initialQuery(MaxQueries) EXCEPT !.group = 1]>> \in Seq(Item)
      /\ <<>> \in Seq(1 .. MaxFormulas)
  BY <1>1, <1>2
<1>4. initialContent \in Content
  BY <1>3 DEF initialContent, Content
<1>5. /\ StoredContent \in Content
      /\ StoredContent.queryData = <<[initialQuery(MaxQueries) EXCEPT !.group = 1]>>
      /\ StoredContent.queryFormulas = <<>> /\ StoredContent.promql = <<1>>
  BY <1>3 DEF StoredContent, initialContent, Content
<1>6. NamedApart(initialContent)
  BY DEF NamedApart, IsInjective, initialContent, queryNames
<1>7. NamedApart(StoredContent)
  BY <1>5 DEF NamedApart, IsInjective, queryNames
<1>8. Filled(initialContent) /\ Filled(StoredContent)
  BY <1>5 DEF Filled, initialContent
<1> QED
  BY <1>4, <1>5, <1>6, <1>7, <1>8

\* addNewBuilderQuery and cloneQuery: with the first free name.
LEMMA AddQueryContent ==
  ASSUME NEW c \in Content, NEW query \in Unnamed
  PROVE  /\ addQuery(c, query) \in Content
         /\ NamedApart(c) => NamedApart(addQuery(c, query))
         /\ Filled(c) => Filled(addQuery(c, query))
<1>1. CASE Len(c.queryData) >= MaxQueries
  BY <1>1 DEF addQuery
<1>2. CASE ~(Len(c.queryData) >= MaxQueries)
  <2> DEFINE name == createNewBuilderItemName(Range(queryNames(c)), MaxQueries)
             item == [query EXCEPT !.name = name]
             data == Append(c.queryData, item)
  <2>1. DOMAIN queryNames(c) = 1 .. Len(c.queryData)
    BY ContentParts
  <2>2. Len(c.queryData) \in Nat /\ Len(c.queryData) < MaxQueries /\ MaxQueries \in Nat
    BY <1>2, ContentParts, BuilderBounds
  <2>3. name \in Name /\ name \notin Range(queryNames(c))
    BY <2>1, <2>2, NewName DEF Name
  <2> HIDE DEF name
  <2>4. item \in Item /\ item.name = name
    BY <2>3 DEF Unnamed, Item
  <2>5. addQuery(c, query) = [c EXCEPT !.queryData = data]
    BY <1>2 DEF addQuery, name
  <2> HIDE DEF item
  <2>6. c.queryData \in Seq(Item)
    BY ContentParts
  <2>7. /\ data \in Seq(Item) /\ Len(data) = Len(c.queryData) + 1 /\ data # <<>>
        /\ \A i \in 1 .. Len(c.queryData) : data[i] = c.queryData[i]
        /\ data[Len(c.queryData) + 1] = item
    BY <2>4, <2>6, AppendProperties
  <2> HIDE DEF data
  <2> DEFINE d == [c EXCEPT !.queryData = data]
  <2>8. /\ d \in Content /\ d.queryData = data
        /\ d.queryFormulas = c.queryFormulas /\ d.promql = c.promql
    BY <2>7 DEF Content
  <2> HIDE DEF d
  <2>9. ASSUME NamedApart(c) PROVE NamedApart(d)
    <3>1. IsInjective(Append(queryNames(c), name))
      BY <2>3, <2>9, ContentParts, AppendApart DEF NamedApart
    <3>2. queryNames(d) = Append(queryNames(c), name)
      <4>1. /\ queryNames(d) \in Seq(Name) /\ Len(queryNames(d)) = Len(c.queryData) + 1
            /\ \A i \in 1 .. Len(c.queryData) + 1 : queryNames(d)[i] = data[i].name
        BY <2>7, <2>8, ContentParts
      <4>2. /\ Append(queryNames(c), name) \in Seq(Name)
            /\ Len(Append(queryNames(c), name)) = Len(c.queryData) + 1
            /\ \A i \in 1 .. Len(c.queryData) : Append(queryNames(c), name)[i] = c.queryData[i].name
            /\ Append(queryNames(c), name)[Len(c.queryData) + 1] = name
        <5>1. queryNames(c) \in Seq(Name) /\ Len(queryNames(c)) = Len(c.queryData)
          BY ContentParts
        <5>2. /\ Append(queryNames(c), name) \in Seq(Name)
              /\ Len(Append(queryNames(c), name)) = Len(queryNames(c)) + 1
              /\ \A i \in 1 .. Len(queryNames(c)) : Append(queryNames(c), name)[i] = queryNames(c)[i]
              /\ Append(queryNames(c), name)[Len(queryNames(c)) + 1] = name
          BY <2>3, <5>1, AppendProperties
        <5>3. \A i \in 1 .. Len(c.queryData) : queryNames(c)[i] = c.queryData[i].name
          BY ContentParts
        <5> QED
          BY <5>1, <5>2, <5>3
      <4>3. \A i \in 1 .. Len(c.queryData) + 1 :
               queryNames(d)[i] = Append(queryNames(c), name)[i]
        <5> TAKE i \in 1 .. Len(c.queryData) + 1
        <5>1. CASE i = Len(c.queryData) + 1
          BY <2>2, <2>4, <2>7, <4>1, <4>2, <5>1
        <5>2. CASE i \in 1 .. Len(c.queryData)
          BY <2>7, <4>1, <4>2, <5>2
        <5>3. i = Len(c.queryData) + 1 \/ i \in 1 .. Len(c.queryData)
          BY <2>2
        <5> QED
          BY <5>1, <5>2, <5>3
      <4> QED
        BY <4>1, <4>2, <4>3, SeqEqual
    <3> QED
      BY <2>8, <2>9, <3>1, <3>2 DEF NamedApart
  <2>10. Filled(c) => Filled(d)
    BY <2>7, <2>8 DEF Filled
  <2> QED
    BY <2>5, <2>8, <2>9, <2>10 DEF d
<1> QED
  BY <1>1, <1>2
\* The superset and the query on the screen get the same query.
LEMMA AddQueryAgrees ==
  ASSUME NEW s \in Content, NEW c \in Content, NEW query \in Unnamed, NEW panel \in Panels,
         Agrees(s, c, panel)
  PROVE  Agrees(addQuery(s, query), addQuery(c, query), panel)
<1>1. Len(s.queryData) = Len(c.queryData)
  BY DEF Agrees
<1>2. queryNames(s) = queryNames(c)
  <2>1. \A i \in 1 .. Len(s.queryData) : s.queryData[i].name = c.queryData[i].name
    BY ContentParts DEF Agrees
  <2>2. \A i \in 1 .. Len(queryNames(s)) : queryNames(s)[i] = queryNames(c)[i]
    BY <1>1, <2>1, ContentParts
  <2>3. /\ queryNames(s) \in Seq(Name) /\ queryNames(c) \in Seq(Name)
        /\ Len(queryNames(s)) = Len(queryNames(c))
    BY <1>1, ContentParts
  <2> QED
    BY <2>2, <2>3, SeqEqual
<1>3. CASE Len(s.queryData) >= MaxQueries
  BY <1>1, <1>3 DEF addQuery
<1>4. CASE ~(Len(s.queryData) >= MaxQueries)
  <2> DEFINE name == createNewBuilderItemName(Range(queryNames(c)), MaxQueries)
             item == [query EXCEPT !.name = name]
             t == [s EXCEPT !.queryData = Append(s.queryData, item)]
             d == [c EXCEPT !.queryData = Append(c.queryData, item)]
  <2>1. addQuery(s, query) = t /\ addQuery(c, query) = d
    BY <1>1, <1>2, <1>4 DEF addQuery
  <2>2. item \in [name : {name}, filter : Values, group : Values]
    BY DEF Unnamed
  <2> HIDE DEF name, item
  <2>3. /\ t.queryData = Append(s.queryData, item) /\ t.queryFormulas = s.queryFormulas
        /\ t.promql = s.promql /\ t.trace = s.trace
        /\ d.queryData = Append(c.queryData, item) /\ d.queryFormulas = c.queryFormulas
        /\ d.promql = c.promql /\ d.trace = c.trace
    BY DEF Content
  <2>4. \A x \in {s, c} :
          /\ DOMAIN Append(x.queryData, item) = 1 .. Len(x.queryData) + 1
          /\ Len(Append(x.queryData, item)) = Len(x.queryData) + 1
          /\ \A i \in 1 .. Len(x.queryData) : Append(x.queryData, item)[i] = x.queryData[i]
          /\ Append(x.queryData, item)[Len(x.queryData) + 1] = item
    <3> TAKE x \in {s, c}
    <3> DEFINE T == Item \cup {item}
    <3>1. x.queryData \in Seq(T) /\ item \in T
      <4>1. x.queryData \in Seq(Item)
        BY ContentParts
      <4> QED
        BY <4>1
    <3> HIDE DEF T
    <3>2. /\ Append(x.queryData, item) \in Seq(T)
          /\ Len(Append(x.queryData, item)) = Len(x.queryData) + 1
          /\ \A i \in 1 .. Len(x.queryData) : Append(x.queryData, item)[i] = x.queryData[i]
          /\ Append(x.queryData, item)[Len(x.queryData) + 1] = item
      BY <3>1, AppendProperties
    <3> QED
      BY <3>2
  <2>5. Len(s.queryData) \in Nat /\ DOMAIN s.queryData = 1 .. Len(s.queryData)
    BY ContentParts
  <2> HIDE DEF t, d
  <2>6. ASSUME NEW i \in DOMAIN t.queryData, NEW f \in PanelFields(panel) \cup {"name"}
        PROVE  t.queryData[i][f] = d.queryData[i][f]
    <3>1. CASE i = Len(s.queryData) + 1
      BY <1>1, <2>3, <2>4, <3>1
    <3>2. CASE i \in 1 .. Len(s.queryData)
      BY <1>1, <2>3, <2>4, <2>5, <3>2 DEF Agrees
    <3>3. i \in 1 .. Len(s.queryData) + 1
      BY <2>3, <2>4
    <3>4. i = Len(s.queryData) + 1 \/ i \in 1 .. Len(s.queryData)
      BY <2>5, <3>3
    <3> QED
      BY <3>1, <3>2, <3>4
  <2>7. Len(t.queryData) = Len(d.queryData)
    BY <1>1, <2>3, <2>4
  <2>8. Agrees(t, d, panel)
    BY <2>3, <2>6, <2>7 DEF Agrees
  <2> QED
    BY <2>1, <2>8
<1> QED
  BY <1>3, <1>4

\* addNewFormula and addNewQueryItem.
LEMMA AddNewContent ==
  ASSUME NEW c \in Content
  PROVE  /\ addNewFormula(c) \in Content /\ addNewQueryItem(c) \in Content
         /\ NamedApart(c) => NamedApart(addNewFormula(c)) /\ NamedApart(addNewQueryItem(c))
         /\ Filled(c) => Filled(addNewFormula(c)) /\ Filled(addNewQueryItem(c))
<1>1. /\ addNewFormula(c) \in Content
      /\ NamedApart(c) => NamedApart(addNewFormula(c))
      /\ Filled(c) => Filled(addNewFormula(c))
  <2>1. CASE Len(c.queryFormulas) >= MaxFormulas
    BY <2>1 DEF addNewFormula
  <2>2. CASE ~(Len(c.queryFormulas) >= MaxFormulas)
    <3> DEFINE name == createNewBuilderItemName(Range(c.queryFormulas), MaxFormulas)
               names == Append(c.queryFormulas, name)
               d == [c EXCEPT !.queryFormulas = names]
    <3>1. addNewFormula(c) = d
      BY <2>2 DEF addNewFormula
    <3>2. /\ Len(c.queryFormulas) \in Nat /\ Len(c.queryFormulas) < MaxFormulas
          /\ MaxFormulas \in Nat /\ DOMAIN c.queryFormulas = 1 .. Len(c.queryFormulas)
          /\ c.queryFormulas \in Seq(1 .. MaxFormulas)
      BY <2>2, ContentParts, BuilderBounds
    <3>3. name \in 1 .. MaxFormulas /\ name \notin Range(c.queryFormulas)
      BY <3>2, NewName
    <3> HIDE DEF name
    <3>4. names \in Seq(1 .. MaxFormulas)
      BY <3>2, <3>3, AppendProperties
    <3>5. NamedApart(c) => IsInjective(names)
      BY <3>2, <3>3, AppendApart DEF NamedApart
    <3> HIDE DEF names
    <3>6. /\ d \in Content /\ d.queryData = c.queryData /\ d.queryFormulas = names
          /\ d.promql = c.promql
      BY <3>4 DEF Content
    <3> HIDE DEF d
    <3> QED
      BY <3>1, <3>5, <3>6 DEF NamedApart, queryNames, Filled
  <2> QED
    BY <2>1, <2>2
<1>2. /\ addNewQueryItem(c) \in Content
      /\ NamedApart(c) => NamedApart(addNewQueryItem(c))
      /\ Filled(c) => Filled(addNewQueryItem(c))
  <2>1. CASE Len(c.promql) >= MaxQueries
    BY <2>1 DEF addNewQueryItem
  <2>2. CASE ~(Len(c.promql) >= MaxQueries)
    <3> DEFINE name == createNewBuilderItemName(Range(c.promql), MaxQueries)
               names == Append(c.promql, name)
               d == [c EXCEPT !.promql = names]
    <3>1. addNewQueryItem(c) = d
      BY <2>2 DEF addNewQueryItem
    <3>2. /\ Len(c.promql) \in Nat /\ Len(c.promql) < MaxQueries
          /\ MaxQueries \in Nat /\ DOMAIN c.promql = 1 .. Len(c.promql)
          /\ c.promql \in Seq(Name)
      BY <2>2, ContentParts, BuilderBounds
    <3>3. name \in Name /\ name \notin Range(c.promql)
      BY <3>2, NewName DEF Name
    <3> HIDE DEF name
    <3>4. names \in Seq(Name) /\ names # <<>>
      BY <3>2, <3>3, AppendProperties
    <3>5. NamedApart(c) => IsInjective(names)
      BY <3>2, <3>3, AppendApart DEF NamedApart
    <3> HIDE DEF names
    <3>6. /\ d \in Content /\ d.queryData = c.queryData /\ d.promql = names
          /\ d.queryFormulas = c.queryFormulas
      BY <3>4 DEF Content
    <3> HIDE DEF d
    <3> QED
      BY <3>1, <3>4, <3>5, <3>6 DEF NamedApart, queryNames, Filled
  <2> QED
    BY <2>1, <2>2
<1> QED
  BY <1>1, <1>2

\* The superset gets the same names.
LEMMA AddNewAgrees ==
  ASSUME NEW s \in Content, NEW c \in Content, NEW panel, Agrees(s, c, panel)
  PROVE  /\ Agrees(addNewFormula(s), addNewFormula(c), panel)
         /\ Agrees(addNewQueryItem(s), addNewQueryItem(c), panel)
BY DEF Agrees, addNewFormula, addNewQueryItem, Content
\* removeQueryBuilderEntityByIndex and removeQueryTypeItemByIndex.
LEMMA RemoveQueryContent ==
  ASSUME NEW c \in Content, NEW i \in Int
  PROVE  /\ removeByIndex(c, "queryData", i) \in Content
         /\ NamedApart(c) => NamedApart(removeByIndex(c, "queryData", i))
         /\ Filled(c) /\ Len(c.queryData) > 1 => Filled(removeByIndex(c, "queryData", i))
<1> DEFINE d == removeByIndex(c, "queryData", i)
<1>1. c.queryData \in Seq(Item) /\ DOMAIN c.queryData = 1 .. Len(c.queryData)
  BY ContentParts
<1>2. CASE i \notin 1 .. Len(c.queryData)
  <2>1. d = c
    BY <1>1, <1>2 DEF removeByIndex, Content
  <2> QED
    BY <2>1
<1>3. CASE i \in 1 .. Len(c.queryData)
  <2> DEFINE data == RemoveAt(c.queryData, i)
             at(j) == IF j < i THEN j ELSE j + 1
  <2>1. d = [c EXCEPT !.queryData = data]
    BY <1>1, <1>3 DEF removeByIndex
  <2>2. /\ data \in Seq(Item) /\ Len(data) = Len(c.queryData) - 1
        /\ \A j \in 1 .. Len(c.queryData) - 1 : data[j] = c.queryData[at(j)]
    BY <1>1, <1>3, RemoveAtEntries
  <2> HIDE DEF data
  <2>3. /\ d \in Content /\ d.queryData = data /\ d.queryFormulas = c.queryFormulas
        /\ d.promql = c.promql
    BY <2>1, <2>2 DEF Content
  <2> HIDE DEF d
  <2>4. ASSUME NamedApart(c) PROVE NamedApart(d)
    <3>1. i \in 1 .. Len(queryNames(c)) /\ queryNames(c) \in Seq(Name)
      BY <1>3, ContentParts
    <3>2. IsInjective(RemoveAt(queryNames(c), i))
      BY <2>4, <3>1, RemoveAtApart DEF NamedApart
    <3>3. /\ RemoveAt(queryNames(c), i) \in Seq(Name)
          /\ Len(RemoveAt(queryNames(c), i)) = Len(c.queryData) - 1
          /\ \A j \in 1 .. Len(c.queryData) - 1 :
               RemoveAt(queryNames(c), i)[j] = queryNames(c)[at(j)]
      <4>1. Len(queryNames(c)) = Len(c.queryData)
        BY ContentParts
      <4> QED
        BY <3>1, <4>1, RemoveAtEntries
    <3>4. \A j \in 1 .. Len(c.queryData) - 1 : at(j) \in 1 .. Len(c.queryData)
      BY <1>3, ContentParts
    <3> HIDE DEF at
    <3>5. /\ queryNames(d) \in Seq(Name) /\ Len(queryNames(d)) = Len(c.queryData) - 1
          /\ \A j \in 1 .. Len(c.queryData) - 1 : queryNames(d)[j] = data[j].name
      BY <2>2, <2>3, ContentParts
    <3>6. \A j \in 1 .. Len(c.queryData) - 1 : queryNames(c)[at(j)] = c.queryData[at(j)].name
      BY <3>4, ContentParts
    <3>7. \A j \in 1 .. Len(c.queryData) - 1 : queryNames(d)[j] = RemoveAt(queryNames(c), i)[j]
      BY <2>2, <3>3, <3>5, <3>6
    <3>8. queryNames(d) = RemoveAt(queryNames(c), i)
      BY <3>3, <3>5, <3>7, SeqEqual
    <3> QED
      BY <2>3, <2>4, <3>2, <3>8 DEF NamedApart
  <2>5. ASSUME Filled(c), Len(c.queryData) > 1 PROVE Filled(d)
    <3>1. data # <<>>
      BY <2>2, <2>5, ContentParts
    <3> QED
      BY <2>3, <2>5, <3>1 DEF Filled
  <2> QED
    BY <2>3, <2>4, <2>5 DEF d
<1> QED
  BY <1>2, <1>3

\* The formulas and the PromQL queries are their names.
LEMMA RemoveNameContent ==
  ASSUME NEW c \in Content, NEW i \in Int
  PROVE  /\ removeByIndex(c, "queryFormulas", i) \in Content
         /\ removeByIndex(c, "promql", i) \in Content
         /\ NamedApart(c) => /\ NamedApart(removeByIndex(c, "queryFormulas", i))
                             /\ NamedApart(removeByIndex(c, "promql", i))
         /\ Filled(c) => Filled(removeByIndex(c, "queryFormulas", i))
         /\ Filled(c) /\ Len(c.promql) > 1 => Filled(removeByIndex(c, "promql", i))
<1>1. /\ removeByIndex(c, "queryFormulas", i) \in Content
      /\ NamedApart(c) => NamedApart(removeByIndex(c, "queryFormulas", i))
      /\ Filled(c) => Filled(removeByIndex(c, "queryFormulas", i))
  <2> DEFINE names == IF i \in DOMAIN c.queryFormulas THEN RemoveAt(c.queryFormulas, i)
                      ELSE c.queryFormulas
             d == [c EXCEPT !.queryFormulas = names]
  <2>1. removeByIndex(c, "queryFormulas", i) = d
    BY DEF removeByIndex
  <2>2. /\ c.queryFormulas \in Seq(1 .. MaxFormulas)
        /\ DOMAIN c.queryFormulas = 1 .. Len(c.queryFormulas)
    BY ContentParts
  <2>3. names \in Seq(1 .. MaxFormulas) /\ (NamedApart(c) => IsInjective(names))
    BY <2>2, RemoveAtEntries, RemoveAtApart DEF NamedApart
  <2> HIDE DEF names
  <2>4. /\ d \in Content /\ d.queryData = c.queryData /\ d.queryFormulas = names
        /\ d.promql = c.promql
    BY <2>3 DEF Content
  <2> HIDE DEF d
  <2> QED
    BY <2>1, <2>3, <2>4 DEF NamedApart, queryNames, Filled
<1>2. /\ removeByIndex(c, "promql", i) \in Content
      /\ NamedApart(c) => NamedApart(removeByIndex(c, "promql", i))
      /\ Filled(c) /\ Len(c.promql) > 1 => Filled(removeByIndex(c, "promql", i))
  <2> DEFINE names == IF i \in DOMAIN c.promql THEN RemoveAt(c.promql, i) ELSE c.promql
             d == [c EXCEPT !.promql = names]
  <2>1. removeByIndex(c, "promql", i) = d
    BY DEF removeByIndex
  <2>2. c.promql \in Seq(Name) /\ DOMAIN c.promql = 1 .. Len(c.promql) /\ Len(c.promql) \in Nat
    BY ContentParts
  <2>3. names \in Seq(Name) /\ (NamedApart(c) => IsInjective(names))
    BY <2>2, RemoveAtEntries, RemoveAtApart DEF NamedApart
  <2>4. Len(c.promql) > 1 => names # <<>>
    <3>1. i \in 1 .. Len(c.promql) => Len(RemoveAt(c.promql, i)) = Len(c.promql) - 1
      BY <2>2, RemoveAtEntries
    <3>2. Len(c.promql) > 1 => Len(names) > 0
      BY <2>2, <3>1
    <3> HIDE DEF names
    <3> QED
      BY <3>2
  <2> HIDE DEF names
  <2>5. /\ d \in Content /\ d.queryData = c.queryData /\ d.promql = names
        /\ d.queryFormulas = c.queryFormulas
    BY <2>3 DEF Content
  <2> HIDE DEF d
  <2> QED
    BY <2>1, <2>3, <2>4, <2>5 DEF NamedApart, queryNames, Filled
<1> QED
  BY <1>1, <1>2

\* The superset loses the same entry.
LEMMA RemoveAgrees ==
  ASSUME NEW s \in Content, NEW c \in Content, NEW i \in Int, NEW panel,
         Agrees(s, c, panel)
  PROVE  /\ Agrees(removeByIndex(s, "queryData", i), removeByIndex(c, "queryData", i), panel)
         /\ Agrees(removeByIndex(s, "queryFormulas", i),
                   removeByIndex(c, "queryFormulas", i), panel)
         /\ Agrees(removeByIndex(s, "promql", i), removeByIndex(c, "promql", i), panel)
<1>1. /\ Agrees(removeByIndex(s, "queryFormulas", i),
                removeByIndex(c, "queryFormulas", i), panel)
      /\ Agrees(removeByIndex(s, "promql", i), removeByIndex(c, "promql", i), panel)
  BY DEF Agrees, removeByIndex, Content
<1>2. /\ s.queryData \in Seq(Item) /\ c.queryData \in Seq(Item)
      /\ DOMAIN s.queryData = 1 .. Len(s.queryData)
      /\ DOMAIN c.queryData = 1 .. Len(c.queryData)
      /\ Len(s.queryData) = Len(c.queryData) /\ Len(c.queryData) \in Nat
  BY ContentParts DEF Agrees
<1>3. CASE i \notin 1 .. Len(c.queryData)
  <2>1. removeByIndex(s, "queryData", i) = s /\ removeByIndex(c, "queryData", i) = c
    BY <1>2, <1>3 DEF removeByIndex, Content
  <2> QED
    BY <1>1, <2>1
<1>4. CASE i \in 1 .. Len(c.queryData)
  <2> DEFINE ds == RemoveAt(s.queryData, i)
             dc == RemoveAt(c.queryData, i)
             t == [s EXCEPT !.queryData = ds]
             d == [c EXCEPT !.queryData = dc]
             n == Len(c.queryData)
             at(j) == IF j < i THEN j ELSE j + 1
  <2>1. removeByIndex(s, "queryData", i) = t /\ removeByIndex(c, "queryData", i) = d
    BY <1>2, <1>4 DEF removeByIndex
  <2>2. /\ ds \in Seq(Item) /\ Len(ds) = n - 1
        /\ \A j \in 1 .. n - 1 : ds[j] = s.queryData[at(j)]
    <3>1. i \in 1 .. Len(s.queryData)
      BY <1>2, <1>4
    <3>2. /\ ds \in Seq(Item) /\ Len(ds) = Len(s.queryData) - 1
          /\ \A j \in 1 .. Len(s.queryData) - 1 : ds[j] = s.queryData[at(j)]
      BY <1>2, <3>1, RemoveAtEntries
    <3> QED
      BY <1>2, <3>2
  <2>3. /\ dc \in Seq(Item) /\ Len(dc) = n - 1
        /\ \A j \in 1 .. n - 1 : dc[j] = c.queryData[at(j)]
    BY <1>2, <1>4, RemoveAtEntries
  <2>4. \A j \in 1 .. n - 1 : at(j) \in 1 .. n
    BY <1>2, <1>4
  <2> HIDE DEF ds, dc, at
  <2>5. /\ t.queryData = ds /\ t.queryFormulas = s.queryFormulas
        /\ t.promql = s.promql /\ t.trace = s.trace
        /\ d.queryData = dc /\ d.queryFormulas = c.queryFormulas
        /\ d.promql = c.promql /\ d.trace = c.trace
    BY DEF Content
  <2> HIDE DEF t, d
  <2>6. DOMAIN ds = 1 .. n - 1
    BY <2>2
  <2>7. \A j \in 1 .. n - 1 : \A f \in PanelFields(panel) \cup {"name"} :
           s.queryData[at(j)][f] = c.queryData[at(j)][f]
    BY <1>2, <2>4 DEF Agrees
  <2>8. \A j \in DOMAIN ds : \A f \in PanelFields(panel) \cup {"name"} : ds[j][f] = dc[j][f]
    BY <2>2, <2>3, <2>6, <2>7
  <2>9. Agrees(t, d, panel)
    BY <2>2, <2>3, <2>5, <2>8 DEF Agrees
  <2> QED
    BY <1>1, <2>1, <2>9
<1> QED
  BY <1>3, <1>4
\* A content whose queries are replaced, one by one, by queries of the same name.
LEMMA SameNames ==
  ASSUME NEW c \in Content, NEW d \in Content, Len(d.queryData) = Len(c.queryData),
         \A i \in 1 .. Len(c.queryData) : d.queryData[i].name = c.queryData[i].name,
         d.queryFormulas = c.queryFormulas, d.promql = c.promql
  PROVE  (NamedApart(c) <=> NamedApart(d)) /\ (Filled(c) <=> Filled(d))
<1>1. \A i \in 1 .. Len(c.queryData) : queryNames(d)[i] = queryNames(c)[i]
  BY ContentParts
<1>2. /\ queryNames(d) \in Seq(Name) /\ queryNames(c) \in Seq(Name)
      /\ Len(queryNames(c)) = Len(c.queryData) /\ Len(queryNames(d)) = Len(c.queryData)
  BY ContentParts
<1>3. queryNames(d) = queryNames(c)
  BY <1>1, <1>2, SeqEqual
<1>4. d.queryData = <<>> <=> c.queryData = <<>>
  BY ContentParts
<1> QED
  BY <1>3, <1>4 DEF NamedApart, Filled

\* The superset of a query with its names apart has its names apart.
LEMMA AgreesNames ==
  ASSUME NEW s \in Content, NEW c \in Content, NEW panel, Agrees(s, c, panel)
  PROVE  (NamedApart(c) <=> NamedApart(s)) /\ (Filled(c) <=> Filled(s))
<1>1. \A i \in 1 .. Len(s.queryData) : s.queryData[i].name = c.queryData[i].name
  BY ContentParts DEF Agrees
<1> QED
  BY <1>1, SameNames DEF Agrees

\* handleSetQueryData.
LEMMA UpdateContent ==
  ASSUME NEW c \in Content, NEW i \in DOMAIN c.queryData, NEW item \in Item,
         item.name = c.queryData[i].name
  PROVE  /\ updateQueryBuilderData(c, i, item) \in Content
         /\ NamedApart(c) => NamedApart(updateQueryBuilderData(c, i, item))
         /\ Filled(c) => Filled(updateQueryBuilderData(c, i, item))
<1> DEFINE n == Len(c.queryData)
           data == [k \in 1 .. n |-> IF k = i THEN item ELSE c.queryData[k]]
           d == [c EXCEPT !.queryData = data]
<1>1. DOMAIN c.queryData = 1 .. n /\ n \in Nat /\ \A k \in 1 .. n : c.queryData[k] \in Item
  BY ContentParts
<1>2. updateQueryBuilderData(c, i, item) = d
  BY <1>1 DEF updateQueryBuilderData
<1>3. data \in Seq(Item) /\ Len(data) = n
  BY <1>1
<1>4. \A k \in 1 .. n : data[k].name = c.queryData[k].name
  BY <1>1
<1> HIDE DEF data
<1>5. /\ d \in Content /\ d.queryData = data /\ d.queryFormulas = c.queryFormulas
      /\ d.promql = c.promql
  BY <1>3 DEF Content
<1> HIDE DEF d
<1>6. (NamedApart(c) <=> NamedApart(d)) /\ (Filled(c) <=> Filled(d))
  BY <1>3, <1>4, <1>5, SameNames
<1> QED
  BY <1>2, <1>5, <1>6

\* The superset takes what the panel type has of an edited query, and no more.
LEMMA UpdateSuperset ==
  ASSUME NEW s \in Content, NEW i \in Int, NEW item \in Item
  PROVE  /\ updateSuperSetQueryBuilderData(s, i, item) \in Content
         /\ \A c \in Content :
              Agrees(s, c, here.panel) =>
                Agrees(updateSuperSetQueryBuilderData(s, i, item),
                       updateQueryBuilderData(c, i, item), here.panel)
<1> DEFINE n == Len(s.queryData)
           fields == PanelFields(here.panel) \cup {"name"}
           merged(k) == [f \in DOMAIN s.queryData[k] |->
                           IF f \in fields THEN item[f] ELSE s.queryData[k][f]]
           data == [k \in 1 .. n |-> IF k = i THEN merged(k) ELSE s.queryData[k]]
           t == [s EXCEPT !.queryData = data]
<1>1. DOMAIN s.queryData = 1 .. n /\ n \in Nat /\ \A k \in 1 .. n : s.queryData[k] \in Item
  BY ContentParts
<1>2. updateSuperSetQueryBuilderData(s, i, item) = t
  BY <1>1 DEF updateSuperSetQueryBuilderData
<1>3. fields \subseteq {"name", "filter", "group"}
  BY DEF PanelFields
<1>4. \A k \in 1 .. n : DOMAIN s.queryData[k] = {"name", "filter", "group"}
  BY <1>1 DEF Item
<1>5. \A k \in 1 .. n : merged(k) \in Item /\ \A f \in fields : merged(k)[f] = item[f]
  <2> HIDE DEF fields
  <2> TAKE k \in 1 .. n
  <2>1. DOMAIN merged(k) = {"name", "filter", "group"}
    BY <1>4
  <2>2. \A f \in {"name", "filter", "group"} :
           merged(k)[f] = IF f \in fields THEN item[f] ELSE s.queryData[k][f]
    BY <1>4
  <2>3. merged(k) = [name |-> merged(k)["name"], filter |-> merged(k)["filter"],
                     group |-> merged(k)["group"]]
    BY <1>4
  <2>4. /\ merged(k)["name"] \in Name /\ merged(k)["filter"] \in Values
        /\ merged(k)["group"] \in Values
    BY <1>1, <2>2 DEF Item
  <2> HIDE DEF merged
  <2>5. merged(k) \in Item
    BY <2>3, <2>4 DEF Item
  <2> QED
    BY <1>3, <2>2, <2>5
<1> HIDE DEF merged, fields
<1>6. data \in Seq(Item) /\ Len(data) = n /\ DOMAIN data = 1 .. n
  BY <1>1, <1>5
<1>7. \A k \in 1 .. n : data[k] = IF k = i THEN merged(k) ELSE s.queryData[k]
  OBVIOUS
<1> HIDE DEF data
<1>8. /\ t \in Content /\ t.queryData = data /\ t.queryFormulas = s.queryFormulas
      /\ t.promql = s.promql /\ t.trace = s.trace
  BY <1>6 DEF Content
<1> HIDE DEF t
<1>9. ASSUME NEW c \in Content, Agrees(s, c, here.panel)
      PROVE  Agrees(t, updateQueryBuilderData(c, i, item), here.panel)
  <2> DEFINE dc == [k \in 1 .. n |-> IF k = i THEN item ELSE c.queryData[k]]
             d == [c EXCEPT !.queryData = dc]
  <2>1. DOMAIN c.queryData = 1 .. n
    BY <1>9, ContentParts DEF Agrees
  <2>2. updateQueryBuilderData(c, i, item) = d
    BY <2>1 DEF updateQueryBuilderData
  <2>3. Len(dc) = n /\ \A k \in 1 .. n : dc[k] = IF k = i THEN item ELSE c.queryData[k]
    BY <1>1
  <2> HIDE DEF dc
  <2>4. /\ d.queryData = dc /\ d.queryFormulas = c.queryFormulas
        /\ d.promql = c.promql /\ d.trace = c.trace
    BY DEF Content
  <2> HIDE DEF d
  <2>5. \A k \in 1 .. n : \A f \in fields : s.queryData[k][f] = c.queryData[k][f]
    BY <1>1, <1>9 DEF Agrees, fields
  <2>6. \A k \in 1 .. n : \A f \in fields : data[k][f] = dc[k][f]
    BY <1>5, <1>7, <2>3, <2>5
  <2>7. \A k \in DOMAIN t.queryData : \A f \in PanelFields(here.panel) \cup {"name"} :
           t.queryData[k][f] = d.queryData[k][f]
    BY <1>6, <1>8, <2>4, <2>6 DEF fields
  <2>8. Agrees(t, d, here.panel)
    BY <1>6, <1>8, <1>9, <2>3, <2>4, <2>7 DEF Agrees
  <2> QED
    BY <2>2, <2>8
<1> QED
  BY <1>2, <1>8, <1>9

\* setTraceOperator.
LEMMA TraceContent ==
  ASSUME NEW c \in Content, NEW s \in Content, NEW b \in BOOLEAN
  PROVE  /\ [c EXCEPT !.trace = b] \in Content
         /\ NamedApart(c) => NamedApart([c EXCEPT !.trace = b])
         /\ Filled(c) => Filled([c EXCEPT !.trace = b])
         /\ \A panel : Agrees(s, c, panel) =>
              Agrees([s EXCEPT !.trace = b], [c EXCEPT !.trace = b], panel)
<1> DEFINE d == [c EXCEPT !.trace = b]
           t == [s EXCEPT !.trace = b]
<1>1. /\ d \in Content /\ d.queryData = c.queryData /\ d.queryFormulas = c.queryFormulas
      /\ d.promql = c.promql /\ d.trace = b
  BY DEF Content
<1>2. /\ t.queryData = s.queryData /\ t.queryFormulas = s.queryFormulas
      /\ t.promql = s.promql /\ t.trace = b
  BY DEF Content
<1> HIDE DEF d, t
<1>3. NamedApart(c) => NamedApart(d)
  BY <1>1 DEF NamedApart, queryNames
<1>4. Filled(c) => Filled(d)
  BY <1>1 DEF Filled
<1>5. \A panel : Agrees(s, c, panel) => Agrees(t, d, panel)
  BY <1>1, <1>2 DEF Agrees
<1> QED
  BY <1>1, <1>3, <1>4, <1>5 DEF d, t

\* handleQueryChange: the query of another panel type agrees with the superset.
LEMMA HandleQueryChange ==
  ASSUME NEW s \in Content, NEW panel \in Panels
  PROVE  /\ handleQueryChange(panel, s) \in Content
         /\ Agrees(s, handleQueryChange(panel, s), panel)
<1> DEFINE n == Len(s.queryData)
           fields == PanelFields(panel) \cup {"name"}
           kept(k) == [f \in DOMAIN s.queryData[k] |->
                         IF f \in fields THEN s.queryData[k][f] ELSE 0]
           data == [k \in 1 .. n |-> kept(k)]
           b == s.trace /\ panel # "list"
           d == [s EXCEPT !.queryData = data, !.trace = b]
<1>1. DOMAIN s.queryData = 1 .. n /\ n \in Nat /\ \A k \in 1 .. n : s.queryData[k] \in Item
  BY ContentParts
<1>2. handleQueryChange(panel, s) = d
  BY <1>1 DEF handleQueryChange
<1>3. fields \subseteq {"name", "filter", "group"} /\ "name" \in fields
  BY DEF PanelFields
<1>4. \A k \in 1 .. n : DOMAIN s.queryData[k] = {"name", "filter", "group"}
  BY <1>1 DEF Item
<1>5. \A k \in 1 .. n : kept(k) \in Item /\ \A f \in fields : kept(k)[f] = s.queryData[k][f]
  <2> HIDE DEF fields
  <2> TAKE k \in 1 .. n
  <2>1. \A f \in {"name", "filter", "group"} :
           kept(k)[f] = IF f \in fields THEN s.queryData[k][f] ELSE 0
    BY <1>4
  <2>2. kept(k) = [name |-> kept(k)["name"], filter |-> kept(k)["filter"],
                   group |-> kept(k)["group"]]
    BY <1>4
  <2>3. /\ kept(k)["name"] \in Name /\ kept(k)["filter"] \in Values
        /\ kept(k)["group"] \in Values
    BY <1>1, <1>3, <2>1 DEF Item, Values
  <2> HIDE DEF kept
  <2>4. kept(k) \in Item
    BY <2>2, <2>3 DEF Item
  <2> QED
    BY <1>3, <2>1, <2>4
<1> HIDE DEF kept, fields
<1>6. data \in Seq(Item) /\ Len(data) = n /\ \A k \in 1 .. n : data[k] = kept(k)
  BY <1>1, <1>5
<1> HIDE DEF data
<1>7. b \in BOOLEAN /\ (panel = "graph" => b = s.trace)
  BY ContentParts
<1> HIDE DEF b
<1>8. /\ d \in Content /\ d.queryData = data /\ d.queryFormulas = s.queryFormulas
      /\ d.promql = s.promql /\ d.trace = b
  BY <1>6, <1>7 DEF Content
<1> HIDE DEF d
<1>9. \A k \in DOMAIN s.queryData : \A f \in PanelFields(panel) \cup {"name"} :
         s.queryData[k][f] = d.queryData[k][f]
  BY <1>1, <1>5, <1>6, <1>8 DEF fields
<1> QED
  BY <1>2, <1>6, <1>7, <1>8, <1>9 DEF Agrees
-----------------------------------------------------------------------------
(* Navigation.                                                             *)

\* What the types say of the entries.
LEMMA EntryTypes ==
  ASSUME TypeOK
  PROVE  /\ here \in Entry /\ DOMAIN history = 1 .. Len(history) /\ Len(history) \in Nat
         /\ \A i \in DOMAIN history : history[i] \in Entry
         /\ pos \in Nat /\ 1 <= pos /\ pos <= Len(history)
         /\ \A q \in Query \cup {NoQuery} : q.id \in Int /\ (q = NoQuery <=> q.id = -1)
         /\ \A q \in Query : q.id \in Nat /\ q # NoQuery
<1>1. history \in Seq(Entry) /\ pos \in DOMAIN history
  BY DEF TypeOK, Entry
<1>2. DOMAIN history = 1 .. Len(history) /\ Len(history) \in Nat
  BY <1>1
<1>3. \A i \in DOMAIN history : history[i] \in Entry
  BY <1>1
<1>4. here \in Entry
  BY <1>1, <1>3 DEF here
<1>5. pos \in Nat /\ 1 <= pos /\ pos <= Len(history)
  BY <1>1, <1>2
<1>6. \A q \in Query : q.id \in Nat /\ q.id # -1
  BY DEF Query
<1>7. NoQuery.id = -1
  BY DEF NoQuery
<1> QED
  BY <1>2, <1>3, <1>4, <1>5, <1>6, <1>7

\* One more id.
LEMMA OneMore ==
  ASSUME NEW S, IsFiniteSet(S), NEW m \in Nat, Cardinality(S) <= m, NEW x
  PROVE  IsFiniteSet(S \cup {x}) /\ Cardinality(S \cup {x}) <= m + 1
<1>1. Cardinality(S) \in Nat
  BY FS_CardinalityType
<1> QED
  BY <1>1, FS_AddElement

\* The id of a query that is run is new.
LEMMA UuidFresh ==
  ASSUME TypeOK
  PROVE  /\ uuid \in Nat /\ uuid # 0
         /\ \A i \in DOMAIN history : history[i].q.id # uuid
         /\ staged.id # uuid
<1> DEFINE n == Len(history)
           f == [i \in 1 .. n |-> history[i].q.id]
           ids == {history[i].q.id : i \in DOMAIN history}
           u1 == ids \cup {staged.id}
           u2 == u1 \cup {current.id}
           u3 == u2 \cup {widget.q.id}
           u4 == u3 \cup {shown.q.id}
           u5 == u4 \cup {saving.q.id}
           max == MaxHistory + 6
<1>1. n \in Nat /\ DOMAIN history = 1 .. n /\ n <= MaxHistory /\ MaxHistory \in Nat
  BY EntryTypes, BuilderBounds DEF TypeOK
<1>2. ids = Range(f)
  BY <1>1 DEF Range
<1>3. DOMAIN f = 1 .. n
  OBVIOUS
<1> HIDE DEF f
<1>4. IsFiniteSet(ids) /\ Cardinality(ids) <= n
  BY <1>1, <1>2, <1>3, RangeSmall
<1>5. ids \cup {staged.id, current.id} \cup {widget.q.id, shown.q.id, saving.q.id} = u5
  OBVIOUS
<1>6. uuid = Min({k \in 1 .. max : k \notin u5})
  BY <1>5, Zenon DEF uuid
<1>7. \A i \in DOMAIN history : history[i].q.id \in u5
  OBVIOUS
<1>8. staged.id \in u5
  OBVIOUS
<1> HIDE DEF ids
<1>9. /\ n + 1 \in Nat /\ n + 2 \in Nat /\ n + 3 \in Nat /\ n + 4 \in Nat
      /\ (n + 1) + 1 = n + 2 /\ (n + 2) + 1 = n + 3 /\ (n + 3) + 1 = n + 4
      /\ (n + 4) + 1 = n + 5
  BY <1>1
<1>10. IsFiniteSet(u1) /\ Cardinality(u1) <= n + 1
  BY <1>1, <1>4, OneMore
<1> HIDE DEF u1
<1>11. IsFiniteSet(u2) /\ Cardinality(u2) <= n + 2
  BY <1>9, <1>10, OneMore
<1> HIDE DEF u2
<1>12. IsFiniteSet(u3) /\ Cardinality(u3) <= n + 3
  BY <1>9, <1>11, OneMore
<1> HIDE DEF u3
<1>13. IsFiniteSet(u4) /\ Cardinality(u4) <= n + 4
  BY <1>9, <1>12, OneMore
<1> HIDE DEF u4
<1>14. IsFiniteSet(u5) /\ Cardinality(u5) <= n + 5 /\ Cardinality(u5) \in Nat
  BY <1>9, <1>13, OneMore, FS_CardinalityType
<1> HIDE DEF u5
<1>15. max \in Nat /\ Cardinality(u5) < max
  BY <1>1, <1>14
<1> HIDE DEF max
<1>16. uuid \in {k \in 1 .. max : k \notin u5}
  BY <1>6, <1>14, <1>15, FirstFree
<1>17. uuid \in Nat /\ uuid # 0 /\ uuid \notin u5
  BY <1>15, <1>16
<1> QED
  BY <1>7, <1>8, <1>17

\* safeNavigate shows the target: it replaces the entry shown, or follows it.
LEMMA Navigated ==
  ASSUME TypeOK, NEW target \in Entry, safeNavigate(target)
  PROVE  /\ history' \in Seq(Entry) /\ pos' \in DOMAIN history'
         /\ Len(history') <= MaxHistory
         /\ history'[pos'] = target
         /\ \A i \in DOMAIN history' : i # pos' => \E j \in DOMAIN history : history'[i] = history[j]
         /\ \A i \in DOMAIN history' : i + 1 \in DOMAIN history' /\ pos' \notin {i, i + 1} =>
              \E j \in DOMAIN history : /\ j + 1 \in DOMAIN history
                                       /\ history'[i] = history[j]
                                       /\ history'[i + 1] = history[j + 1]
         /\ isDefaultNavigation(target) => pos' = pos
         /\ ~isDefaultNavigation(target) =>
              pos' = Len(history') /\ (pos' - 1 \in DOMAIN history' => history'[pos' - 1] = here)
<1>1. /\ history \in Seq(Entry) /\ DOMAIN history = 1 .. Len(history) /\ Len(history) \in Nat
      /\ pos \in Nat /\ 1 <= pos /\ pos <= Len(history) /\ Len(history) <= MaxHistory
      /\ MaxHistory \in Nat /\ 2 <= MaxHistory
  BY EntryTypes, BuilderBounds DEF TypeOK, Entry
<1>2. CASE isDefaultNavigation(target)
  <2>1. history' = [history EXCEPT ![pos] = target] /\ pos' = pos
    BY <1>2 DEF safeNavigate
  <2>2. /\ history' \in Seq(Entry) /\ DOMAIN history' = DOMAIN history
        /\ Len(history') = Len(history) /\ history'[pos] = target
        /\ \A i \in DOMAIN history : i # pos => history'[i] = history[i]
    BY <1>1, <2>1
  <2> QED
    BY <1>1, <1>2, <2>1, <2>2
<1>3. CASE ~isDefaultNavigation(target)
  <2> DEFINE a == SubSeq(history, 1, pos)
             h == Append(a, target)
             k == IF Len(h) > MaxHistory THEN 1 ELSE 0
             g == SubSeq(h, 1 + k, Len(h))
  <2>1. history' = g /\ pos' = Len(h) - k
    BY <1>3 DEF safeNavigate, push
  <2>2. a \in Seq(Entry) /\ Len(a) = pos /\ \A i \in 1 .. pos : a[i] = history[i]
    BY <1>1
  <2> HIDE DEF a
  <2>3. /\ h \in Seq(Entry) /\ Len(h) = pos + 1
        /\ \A i \in 1 .. pos : h[i] = history[i]
        /\ h[pos + 1] = target
    BY <2>2, AppendProperties
  <2> HIDE DEF h
  <2>4. k \in {0, 1} /\ (k = 1 => pos >= 2) /\ pos + 1 - k <= MaxHistory
    BY <1>1, <2>3
  <2> HIDE DEF k
  <2>5. /\ g \in Seq(Entry) /\ Len(g) = pos + 1 - k
        /\ \A i \in 1 .. pos + 1 - k : g[i] = h[i + k]
    BY <1>1, <2>3, <2>4
  <2> HIDE DEF g
  <2>6. DOMAIN g = 1 .. pos + 1 - k /\ pos' = pos + 1 - k /\ pos' = Len(g)
    BY <1>1, <2>1, <2>3, <2>4, <2>5
  <2>7. g[pos'] = target /\ pos' \in DOMAIN g
    BY <1>1, <2>3, <2>4, <2>5, <2>6
  <2>8. \A i \in DOMAIN g : i # pos' => i + k \in 1 .. pos /\ g[i] = history[i + k]
    <3> SUFFICES ASSUME NEW i \in DOMAIN g, i # pos'
                 PROVE  i + k \in 1 .. pos /\ g[i] = history[i + k]
      OBVIOUS
    <3>1. pos \in Nat /\ i \in 1 .. pos + 1 - k /\ i # pos + 1 - k
      BY <1>1, <2>6
    <3>2. i + k \in 1 .. pos
      BY <2>4, <3>1
    <3>3. g[i] = h[i + k]
      BY <2>5, <3>1
    <3> QED
      BY <2>3, <3>2, <3>3
  <2>9. pos' - 1 \in DOMAIN g => g[pos' - 1] = here
    <3> SUFFICES ASSUME pos' - 1 \in DOMAIN g PROVE g[pos' - 1] = here
      OBVIOUS
    <3>1. pos' - 1 # pos' /\ (pos' - 1) + k = pos
      BY <1>1, <2>4, <2>6
    <3> QED
      BY <2>8, <3>1 DEF here
  <2>10. ASSUME NEW i \in DOMAIN g, i + 1 \in DOMAIN g, i # pos', i + 1 # pos'
         PROVE  \E j \in DOMAIN history : /\ j + 1 \in DOMAIN history
                                         /\ g[i] = history[j] /\ g[i + 1] = history[j + 1]
    <3>1. i + k \in 1 .. pos /\ g[i] = history[i + k]
      BY <2>8, <2>10
    <3>2. (i + 1) + k \in 1 .. pos /\ g[i + 1] = history[(i + 1) + k]
      BY <2>8, <2>10
    <3>3. (i + 1) + k = (i + k) + 1
      BY <2>4, <2>6
    <3>4. i + k \in DOMAIN history /\ (i + k) + 1 \in DOMAIN history
      BY <1>1, <3>1, <3>2, <3>3
    <3> QED
      BY <3>1, <3>2, <3>3, <3>4
  <2>11. \A i \in DOMAIN g : i # pos' => \E j \in DOMAIN history : g[i] = history[j]
    BY <1>1, <2>8
  <2> QED
    BY <1>3, <2>1, <2>4, <2>5, <2>6, <2>7, <2>9, <2>10, <2>11
<1> QED
  BY <1>2, <1>3
\* The browser shows the target; the other entries are old ones.
Shows(target) ==
  /\ history' \in Seq(Entry) /\ pos' \in DOMAIN history' /\ Len(history') <= MaxHistory
  /\ here' = target
  /\ \A i \in DOMAIN history' : history'[i] = target \/ \E j \in DOMAIN history : history'[i] = history[j]
  /\ mounted' = (mounted /\ target.page = "editor") /\ awaits' = (awaits /\ mounted')

\* safeNavigate shows its target.
LEMMA NavigatedShows ==
  ASSUME TypeOK, NEW target \in Entry, safeNavigate(target)
  PROVE  Shows(target)
<1>1. /\ history' \in Seq(Entry) /\ pos' \in DOMAIN history' /\ Len(history') <= MaxHistory
      /\ history'[pos'] = target
      /\ \A i \in DOMAIN history' : i # pos' => \E j \in DOMAIN history : history'[i] = history[j]
  BY Navigated
<1>2. mounted' = (mounted /\ target.page = "editor") /\ awaits' = (awaits /\ mounted')
  BY DEF safeNavigate
<1> QED
  BY <1>1, <1>2 DEF Shows, here

\* A target of another page, without a query or with a new id keeps the history.
LEMMA HistoryNavigated ==
  ASSUME TypeOK, HistoryInv, NEW target \in Entry, safeNavigate(target),
         target.page = "dashboard" => target.q = NoQuery,
         target.q # NoQuery /\ target.q.valid => Filled(target.q.c),
         \/ target.q = NoQuery
         \/ \A i \in DOMAIN history : history[i].q.id # target.q.id
         \/ target.page # here.page
  PROVE  HistoryInv'
<1>1. /\ history' \in Seq(Entry) /\ pos' \in DOMAIN history' /\ history'[pos'] = target
      /\ \A i \in DOMAIN history' : i # pos' => \E j \in DOMAIN history : history'[i] = history[j]
  BY Navigated
<1>2. \A i \in DOMAIN history' : i + 1 \in DOMAIN history' /\ pos' \notin {i, i + 1} =>
         \E j \in DOMAIN history : /\ j + 1 \in DOMAIN history
                                  /\ history'[i] = history[j]
                                  /\ history'[i + 1] = history[j + 1]
  BY Navigated
<1>3. ~isDefaultNavigation(target) =>
         pos' = Len(history') /\ (pos' - 1 \in DOMAIN history' => history'[pos' - 1] = here)
  BY Navigated
<1>4. \A i \in DOMAIN history' : history'[i].page = "dashboard" => history'[i].q = NoQuery
  BY <1>1 DEF HistoryInv
<1>5. \A i \in DOMAIN history' :
         history'[i].q # NoQuery /\ history'[i].q.valid => Filled(history'[i].q.c)
  BY <1>1 DEF HistoryInv
<1>6. ASSUME NEW i \in DOMAIN history', i + 1 \in DOMAIN history'
      PROVE  \/ history'[i].page # history'[i + 1].page
             \/ history'[i].q.id # history'[i + 1].q.id
             \/ history'[i].q = history'[i + 1].q
  <2>1. CASE pos' \notin {i, i + 1}
    BY <1>2, <1>6, <2>1 DEF HistoryInv
  <2>2. CASE pos' \in {i, i + 1}
    <3>1. i \in Int /\ i # i + 1 /\ DOMAIN history' = 1 .. Len(history') /\ Len(history') \in Nat
      BY <1>1
    <3>2. PICK other \in {history'[i], history'[i + 1]} :
             /\ {history'[i], history'[i + 1]} = {target, other}
             /\ \E j \in DOMAIN history : other = history[j]
      BY <1>1, <1>6, <2>2, <3>1
    <3>3. other \in Entry
      BY <3>2, EntryTypes
    <3>4. CASE target.q = NoQuery
      <4>1. other.q.id # -1 \/ other.q = NoQuery
        BY <3>3, EntryTypes DEF Entry
      <4>2. target.q.id = -1
        BY <3>4 DEF NoQuery
      <4> QED
        BY <3>2, <3>4, <4>1, <4>2
    <3>5. CASE \A j \in DOMAIN history : history[j].q.id # target.q.id
      BY <3>2, <3>5
    <3>6. CASE target.page # here.page
      <4>1. ~isDefaultNavigation(target)
        BY <3>6 DEF isDefaultNavigation
      <4>2. pos' = i + 1
        BY <1>3, <1>6, <2>2, <3>1, <4>1
      <4>3. pos' - 1 = i
        BY <3>1, <4>2
      <4> QED
        BY <1>1, <1>3, <3>6, <4>1, <4>2, <4>3
    <3> QED
      BY <3>4, <3>5, <3>6
  <2> QED
    BY <2>1, <2>2
<1> QED
  BY <1>4, <1>5, <1>6 DEF HistoryInv

\* The content c is shown as d: all its parts, under a new id.
RedirectsTo(c, panel, d, target) ==
  /\ Filled(d) /\ (Filled(c) => d = c) /\ (NamedApart(c) => NamedApart(d))
  /\ target.page = here.page /\ target.panel = panel
  /\ target.q = [id |-> uuid, valid |-> TRUE, c |-> d] /\ target.q \in Query
  /\ Shows(target) /\ HistoryInv'
  /\ here.q = NoQuery => pos' = pos

\* redirectWithQueryBuilderData: a query with all its parts, under a new id.
LEMMA Redirected ==
  ASSUME TypeOK, HistoryInv, here.page # "dashboard", NEW c \in Content,
         NEW panel \in Panels, NEW view \in BOOLEAN,
         redirectWithQueryBuilderData(c, panel, view)
  PROVE  \E d \in Content, target \in Entry : RedirectsTo(c, panel, d, target)
<1> DEFINE builder == IF c.queryData = <<>>
                      THEN [initialContent EXCEPT !.promql = c.promql] ELSE c
           d == IF builder.promql = <<>>
                THEN [builder EXCEPT !.promql = initialContent.promql] ELSE builder
           q == [id |-> uuid, valid |-> TRUE, c |-> d]
           target == [here EXCEPT !.panel = panel, !.view = view, !.q = q]
<1>1. safeNavigate(target)
  BY DEF redirectWithQueryBuilderData
<1>2. /\ builder \in Content /\ builder.queryData # <<>> /\ builder.promql = c.promql
      /\ NamedApart(c) => NamedApart(builder)
      /\ c.queryData # <<>> => builder = c
  <2>1. CASE c.queryData # <<>>
    BY <2>1
  <2>2. CASE c.queryData = <<>>
    <3> DEFINE b == [initialContent EXCEPT !.promql = c.promql]
    <3>1. /\ b \in Content /\ b.queryData = initialContent.queryData
          /\ b.queryFormulas = initialContent.queryFormulas /\ b.promql = c.promql
      BY InitialContents DEF Content
    <3> HIDE DEF b
    <3>2. b.queryData # <<>> /\ (NamedApart(c) => NamedApart(b))
      BY <3>1, InitialContents DEF NamedApart, Filled, queryNames
    <3> QED
      BY <2>2, <3>1, <3>2 DEF b
  <2> QED
    BY <2>1, <2>2
<1> HIDE DEF builder
<1>3. /\ d \in Content /\ Filled(d) /\ (Filled(c) => d = c)
      /\ NamedApart(c) => NamedApart(d)
  <2>1. CASE builder.promql # <<>>
    BY <1>2, <2>1 DEF Filled
  <2>2. CASE builder.promql = <<>>
    <3> DEFINE b == [builder EXCEPT !.promql = initialContent.promql]
    <3>1. /\ b \in Content /\ b.queryData = builder.queryData
          /\ b.queryFormulas = builder.queryFormulas /\ b.promql = initialContent.promql
      BY <1>2, InitialContents DEF Content
    <3> HIDE DEF b
    <3>2. Filled(b) /\ (NamedApart(c) => NamedApart(b)) /\ ~Filled(c)
      BY <1>2, <2>2, <3>1, InitialContents DEF NamedApart, Filled, queryNames
    <3> QED
      BY <2>2, <3>1, <3>2 DEF b
  <2> QED
    BY <2>1, <2>2
<1> HIDE DEF d
<1>4. q \in Query /\ q # NoQuery /\ q.id = uuid /\ q.c = d /\ q.valid = TRUE
  BY <1>3, UuidFresh, EntryTypes DEF Query
<1>5. here \in Entry
  BY EntryTypes
<1>6. q = [id |-> uuid, valid |-> TRUE, c |-> d]
  OBVIOUS
<1> HIDE DEF q
<1>7. /\ target \in Entry /\ target.page = here.page /\ target.panel = panel
      /\ target.q = q
  BY <1>4, <1>5 DEF Entry
<1> HIDE DEF target
<1>8. Shows(target)
  BY <1>1, <1>7, NavigatedShows
<1>9. HistoryInv'
  BY <1>1, <1>3, <1>4, <1>7, UuidFresh, HistoryNavigated
<1>10. here.q = NoQuery => pos' = pos
  BY <1>1, <1>4, <1>7, Navigated DEF isDefaultNavigation
<1> QED
  BY <1>3, <1>4, <1>6, <1>7, <1>8, <1>9, <1>10 DEF RedirectsTo
-----------------------------------------------------------------------------
(* The steps.                                                              *)

\* The parts of the types that most steps leave alone.
LEMMA Parts ==
  ASSUME TypeOK
  PROVE  /\ current \in [id : Nat, c : Content] /\ current.c \in Content /\ current.id \in Nat
         /\ superset \in Content /\ staged \in Query \cup {NoQuery}
         /\ widget \in [panel : Panels, q : Query] /\ widget.q \in Query
         /\ shown \in [panel : Panels, q : Query]
         /\ saving # NoSave => saving \in [panel : Panels, q : Query]
         /\ here.page \in Pages /\ here.panel \in Panels /\ here.view \in BOOLEAN
         /\ here.q \in Query \cup {NoQuery}
         /\ here.q # NoQuery => here.q \in Query /\ here.q.c \in Content /\ here.q.id \in Nat
         /\ mounted \in BOOLEAN /\ strayed \in BOOLEAN /\ awaits \in BOOLEAN
BY EntryTypes DEF TypeOK, Query, Entry

\* Once the effects have run the query on the screen is whole, and the staged one
\* is the URL's.
LEMMA AtRest ==
  ASSUME TypeOK, BuilderInv, Settled
  PROVE  /\ Filled(current.c) /\ pathRef = here.page
         /\ here.q # NoQuery => staged = here.q /\ here.q.valid /\ Filled(here.q.c)
         /\ here.q = NoQuery => here.page = "dashboard" /\ staged = NoQuery
<1>1. pathRef = here.page /\ ~NeedsDefault /\ ~NeedsInit
  BY DEF Settled, PathChanged
<1>2. here.q # NoQuery => staged # NoQuery /\ staged.id = here.q.id
  BY <1>1 DEF NeedsInit
<1>3. here.q = NoQuery => here.page = "dashboard" /\ staged = NoQuery
  BY <1>1 DEF NeedsDefault, BuilderInv, PlaceInv
<1>4. here.q # NoQuery => staged = here.q /\ here.q.valid
  BY <1>1, <1>2 DEF BuilderInv, StagedInv, PathChanged
<1>5. here.q # NoQuery => Filled(here.q.c)
  BY <1>4 DEF BuilderInv, HistoryInv, here, TypeOK
<1>6. Filled(current.c)
  BY <1>2 DEF BuilderInv, FilledInv
<1> QED
  BY <1>1, <1>3, <1>4, <1>5, <1>6

\* A panel that can be stored: whole, its names apart unless the user has strayed.
Storable(w) == /\ w \in [panel : Panels, q : Query] /\ Filled(w.q.c)
               /\ strayed \/ NamedApart(w.q.c)

\* The panels that are stored, shown and being saved are such.
Stored == Storable(widget) /\ Storable(shown) /\ (saving # NoSave => Storable(saving))

\* NoSave is no panel.
LEMMA NotAPanel == NoSave \notin [panel : Panels, q : Query]
BY DEF NoSave, Panels

\* The invariant says so, and a step that copies one of them keeps it.
LEMMA StoredPanels ==
  ASSUME TypeOK, BuilderInv
  PROVE  /\ Stored
         /\ /\ strayed => strayed'
            /\ widget' \in {widget, saving} \ {NoSave}
            /\ shown' \in {shown, widget, saving} \ {NoSave} /\ saving' \in {saving, NoSave}
            => Stored'
<1>1. Stored
  BY Parts DEF Stored, Storable, BuilderInv, FilledInv, NamesUnique
<1>2. ASSUME strayed => strayed', widget' \in {widget, saving} \ {NoSave},
             shown' \in {shown, widget, saving} \ {NoSave}, saving' \in {saving, NoSave}
      PROVE  Stored'
  <2>1. Storable(widget') /\ Storable(shown') /\ (saving' # NoSave => Storable(saving'))
    BY <1>1, <1>2 DEF Stored
  <2>2. Storable(widget)' /\ Storable(shown)' /\ (saving' # NoSave => Storable(saving)')
    BY <1>2, <2>1 DEF Storable
  <2> QED
    BY <2>2 DEF Stored
<1> QED
  BY <1>1, <1>2

\* A step that shows another entry and leaves the queries to the effects.
LEMMA Moved ==
  ASSUME TypeOK, BuilderInv, Settled, moves' \in 0 .. MaxMoves, NEW target \in Entry,
         Shows(target), HistoryInv', KeepsQueries, from' = 0, strayed' = strayed, Stored',
         saving' \in {saving, NoSave},
         target.q = NoQuery \/ target.q.id # staged.id \/ target.page # here.page,
         ~strayed => (target.q # NoQuery => NamedApart(target.q.c)),
         mounted /\ ~strayed /\ target.page = "editor" =>
            /\ target.q # NoQuery /\ target.q.valid /\ target.q.id # staged.id
            /\ Agrees(superset, target.q.c, target.panel)
  PROVE  TypeOK' /\ BuilderInv'
<1>1. /\ Storable(widget)' /\ Storable(shown)' /\ (saving' # NoSave => Storable(saving)')
  BY DEF Stored
<1>2. /\ current' = current /\ superset' = superset /\ staged' = staged
      /\ pathRef' = pathRef /\ edits' = edits
  BY DEF KeepsQueries
<1>3. /\ history' \in Seq(Entry) /\ pos' \in DOMAIN history' /\ Len(history') <= MaxHistory
      /\ here' = target /\ mounted' = (mounted /\ target.page = "editor")
      /\ awaits' = (awaits /\ mounted')
  BY DEF Shows
<1>4. TypeOK'
  <2>1. /\ widget' \in [panel : Panels, q : Query] /\ shown' \in [panel : Panels, q : Query]
        /\ saving' \in [panel : Panels, q : Query] \cup {NoSave}
    BY <1>1 DEF Storable
  <2>2. mounted' \in BOOLEAN /\ awaits' \in BOOLEAN /\ from' \in 0 .. MaxHistory
    BY <1>3, BuilderBounds
  <2> QED
    BY <1>2, <1>3, <2>1, <2>2 DEF TypeOK, Entry
<1>5. PlaceInv'
  BY <1>2, <1>3 DEF BuilderInv, PlaceInv
<1>6. StagedInv'
  <2>1. (staged # NoQuery => staged.valid)' 
    BY <1>2 DEF BuilderInv, StagedInv
  <2>2. ASSUME pathRef = target.page, staged.id = target.q.id PROVE staged = target.q
    <3>1. target.q = NoQuery
      BY <2>2, AtRest
    <3> QED
      BY <2>2, <3>1, EntryTypes, Parts
  <2> QED
    BY <1>2, <1>3, <2>1, <2>2 DEF StagedInv, PathChanged
<1>7. FilledInv' /\ BackInv'
  BY <1>1, <1>2, AtRest DEF FilledInv, BackInv, Storable
<1>8. NamesUnique'
  <2> SUFFICES ASSUME ~strayed
               PROVE  /\ NamedApart(current.c) /\ NamedApart(widget'.q.c)
                      /\ NamedApart(shown'.q.c)
                      /\ (saving' # NoSave => NamedApart(saving'.q.c))
                      /\ (staged # NoQuery => NamedApart(staged.c))
                      /\ \A i \in DOMAIN history' :
                           history'[i].q # NoQuery => NamedApart(history'[i].q.c)
    BY <1>2 DEF NamesUnique
  <2>1. \A i \in DOMAIN history' :
           history'[i].q # NoQuery => NamedApart(history'[i].q.c)
    BY DEF Shows, BuilderInv, NamesUnique
  <2> QED
    BY <1>1, <2>1 DEF BuilderInv, NamesUnique, Storable
<1>9. EditorInv'
  <2> SUFFICES ASSUME mounted, target.page = "editor", ~strayed
               PROVE  /\ target.q # NoQuery /\ target.q.valid
                      /\ Agrees(superset, IF NeedsInit' THEN target.q.c ELSE current.c, target.panel)
    BY <1>2, <1>3 DEF EditorInv
  <2>1. NeedsInit'
    BY <1>2, <1>3 DEF NeedsInit
  <2> QED
    BY <2>1
<1> QED
  BY <1>4, <1>5, <1>6, <1>7, <1>8, <1>9 DEF BuilderInv

\* A move is counted, and finds the effects of the last one done.
LEMMA MoveCounts ==
  ASSUME TypeOK, Move
  PROVE  Settled /\ moves' \in 0 .. MaxMoves
BY BuilderBounds DEF TypeOK, Move

\* A page that opens shows the panel that is stored.
LEMMA PanelKept ==
  ASSUME TypeOK, BuilderInv, KeepsPanel
  PROVE  Stored' /\ strayed' = strayed /\ saving' = saving
<1>1. /\ shown' = widget /\ widget' = widget /\ saving' = saving /\ strayed' = strayed
      /\ widget # NoSave
  BY NotAPanel, Parts DEF KeepsPanel
<1> QED
  BY <1>1, StoredPanels

\* Stage & Run, a saved view, another tab, another panel type.
LEMMA RunStep ==
  ASSUME TypeOK, BuilderInv,
         \/ HandleRunQuery \/ SelectView
         \/ \E panel \in Panels : ChangeExplorerTab(panel) \/ SetGraphHandler(panel)
  PROVE  TypeOK' /\ BuilderInv'
<1> DEFINE Run(c, panel, view) ==
             /\ redirectWithQueryBuilderData(c, panel, view)
             /\ Move /\ from' = 0 /\ KeepsQueries /\ KeepsPanel
<1>1. ASSUME NEW c \in Content, NEW panel \in Panels, NEW view \in BOOLEAN,
             Run(c, panel, view), here.page # "dashboard",
             ~strayed => NamedApart(c),
             mounted /\ ~strayed => Filled(c) /\ Agrees(superset, c, panel)
      PROVE  TypeOK' /\ BuilderInv'
  <2>1. HistoryInv /\ here.page # "dashboard" /\ redirectWithQueryBuilderData(c, panel, view)
    BY <1>1 DEF BuilderInv
  <2>2. PICK d \in Content, target \in Entry : RedirectsTo(c, panel, d, target)
    BY <2>1, Redirected
  <2>3. /\ target.q.id = uuid /\ target.q.valid /\ target.q.c = d /\ target.q # NoQuery
        /\ uuid # staged.id
    BY <2>2, EntryTypes, UuidFresh DEF RedirectsTo
  <2>4. Settled /\ moves' \in 0 .. MaxMoves
    BY <1>1, MoveCounts
  <2>5. Stored' /\ strayed' = strayed /\ saving' = saving
    BY <1>1, PanelKept
  <2> QED
    BY <1>1, <2>2, <2>3, <2>4, <2>5, Moved DEF RedirectsTo
<1> HIDE DEF Run
<1>2. here.view \in BOOLEAN /\ here.panel \in Panels /\ current.c \in Content /\ superset \in Content
  BY Parts
<1>3. ASSUME Settled
      PROVE  /\ ~strayed => NamedApart(current.c)
             /\ mounted /\ ~strayed => Filled(current.c) /\ Agrees(superset, current.c, here.panel)
  BY <1>3, AtRest DEF BuilderInv, NamesUnique, EditorInv, Settled
<1>4. mounted => here.page = "editor"
  BY DEF BuilderInv, PlaceInv
<1>5. CASE HandleRunQuery
  <2>1. Run(current.c, here.panel, here.view) /\ Settled /\ here.page # "dashboard"
    BY <1>4, <1>5 DEF HandleRunQuery, Run, Move, OnScreen
  <2> QED
    BY <1>1, <1>2, <1>3, <2>1
<1>6. CASE SelectView
  <2>1. /\ Run(StoredContent, "graph", TRUE) /\ here.page # "dashboard" /\ ~mounted
        /\ "graph" \in Panels
    BY <1>4, <1>6 DEF SelectView, Run, Panels
  <2> QED
    BY <1>1, <2>1, InitialContents
<1>7. ASSUME NEW panel \in Panels, ChangeExplorerTab(panel) PROVE TypeOK' /\ BuilderInv'
  <2>1. Run(current.c, panel, TRUE) /\ Settled /\ here.page # "dashboard" /\ ~mounted
    BY <1>4, <1>7 DEF ChangeExplorerTab, Run, Move
  <2> QED
    BY <1>1, <1>2, <1>3, <2>1
<1>8. ASSUME NEW panel \in Panels, SetGraphHandler(panel) PROVE TypeOK' /\ BuilderInv'
  <2> DEFINE c == handleQueryChange(panel, superset)
  <2>1. c \in Content /\ Agrees(superset, c, panel)
    BY <1>2, HandleQueryChange
  <2>2. Run(c, panel, here.view) /\ Settled /\ mounted /\ here.page # "dashboard"
    BY <1>4, <1>8 DEF SetGraphHandler, Run, Move
  <2> HIDE DEF c
  <2>3. ~strayed => NamedApart(superset) /\ Filled(superset)
    BY <1>2, <1>3, <2>2, AgreesNames
  <2>4. ~strayed => NamedApart(c) /\ Filled(c)
    BY <1>2, <2>1, <2>3, AgreesNames
  <2> QED
    BY <1>1, <1>2, <2>1, <2>2, <2>4
<1> QED
  BY <1>5, <1>6, <1>7, <1>8

\* Another page without a query, or with one that can be stored.
LEMMA Opened ==
  ASSUME TypeOK, BuilderInv, Settled, moves' \in 0 .. MaxMoves, NEW target \in Entry,
         safeNavigate(target), KeepsQueries, from' = 0, strayed' = strayed, Stored',
         saving' \in {saving, NoSave}, target.page # here.page,
         target.page = "dashboard" => target.q = NoQuery,
         target.q # NoQuery => Filled(target.q.c) /\ (strayed \/ NamedApart(target.q.c))
  PROVE  TypeOK' /\ BuilderInv'
<1>1. Shows(target)
  BY NavigatedShows
<1>2. HistoryInv'
  BY HistoryNavigated DEF BuilderInv
<1>3. ~(mounted /\ target.page = "editor")
  BY DEF BuilderInv, PlaceInv
<1> QED
  BY <1>1, <1>2, <1>3, Moved

\* Another page, the editor of a panel.
LEMMA OpenStep ==
  ASSUME TypeOK, BuilderInv,
         \/ \E page \in {"explorer", "dashboard"} : OpenPage(page)
         \/ \E w \in {shown, widget} : OnEditHandler(w)
  PROVE  TypeOK' /\ BuilderInv'
<1>1. ASSUME NEW target \in Entry, safeNavigate(target), Move, KeepsQueries, KeepsPanel,
             from' = 0, target.page # here.page,
             target.page = "dashboard" => target.q = NoQuery,
             target.q # NoQuery => Filled(target.q.c) /\ (strayed \/ NamedApart(target.q.c))
      PROVE  TypeOK' /\ BuilderInv'
  BY <1>1, MoveCounts, PanelKept, Opened
<1>2. ASSUME NEW page \in {"explorer", "dashboard"}, OpenPage(page)
      PROVE  TypeOK' /\ BuilderInv'
  <2> DEFINE target == [page |-> page, panel |-> "graph", view |-> FALSE, q |-> NoQuery]
  <2>1. /\ safeNavigate(target) /\ Move /\ KeepsQueries /\ KeepsPanel /\ from' = 0
        /\ page # here.page
    BY <1>2 DEF OpenPage
  <2>2. target \in Entry /\ target.page = page /\ target.q = NoQuery
    BY DEF Entry, Pages, Panels
  <2> HIDE DEF target
  <2> QED
    BY <1>1, <2>1, <2>2
<1>3. ASSUME NEW w \in {shown, widget}, OnEditHandler(w) PROVE TypeOK' /\ BuilderInv'
  <2> DEFINE target == [page |-> "editor", panel |-> w.panel, view |-> FALSE, q |-> w.q]
  <2>1. /\ safeNavigate(target) /\ Move /\ KeepsQueries /\ KeepsPanel /\ from' = 0
        /\ here.page = "dashboard"
    BY <1>3 DEF OnEditHandler
  <2>2. Storable(w)
    BY StoredPanels DEF Stored
  <2>3. target \in Entry /\ target.page = "editor" /\ target.q = w.q
    BY <2>2 DEF Storable, Entry, Pages
  <2> HIDE DEF target
  <2> QED
    BY <1>1, <2>1, <2>2, <2>3 DEF Storable
<1> QED
  BY <1>2, <1>3

\* A step that changes neither the browser's entries nor the queries.
LEMMA Stayed ==
  ASSUME TypeOK, BuilderInv, KeepsQueries, Stored', strayed' = strayed,
         history' = history, pos' = pos, mounted' = mounted, awaits' \in BOOLEAN,
         awaits' => mounted, from' \in {0, from}, moves' \in 0 .. MaxMoves
  PROVE  TypeOK' /\ BuilderInv'
<1>1. /\ current' = current /\ superset' = superset /\ staged' = staged
      /\ pathRef' = pathRef /\ edits' = edits
  BY DEF KeepsQueries
<1>2. here' = here
  BY DEF here
<1>3. /\ Storable(widget)' /\ Storable(shown)' /\ (saving' # NoSave => Storable(saving)')
  BY DEF Stored
<1>4. TypeOK'
  <2>1. /\ widget' \in [panel : Panels, q : Query] /\ shown' \in [panel : Panels, q : Query]
        /\ saving' \in [panel : Panels, q : Query] \cup {NoSave}
    BY <1>3 DEF Storable
  <2>2. from' \in 0 .. MaxHistory
    BY BuilderBounds DEF TypeOK
  <2> QED
    BY <1>1, <2>1, <2>2 DEF TypeOK
<1>5. HistoryInv' /\ PlaceInv' /\ StagedInv' /\ BackInv' /\ EditorInv'
  BY <1>1, <1>2 DEF BuilderInv, HistoryInv, PlaceInv, StagedInv, BackInv, EditorInv,
                    NeedsInit, PathChanged
<1>6. FilledInv' /\ NamesUnique'
  BY <1>1, <1>2, <1>3 DEF BuilderInv, FilledInv, NamesUnique, Storable
<1> QED
  BY <1>4, <1>5, <1>6 DEF BuilderInv

\* The save: it is sent, it succeeds, it fails.
LEMMA SaveStep ==
  ASSUME TypeOK, BuilderInv, OnClickSaveHandler \/ SaveSucceeds \/ SaveFails
  PROVE  TypeOK' /\ BuilderInv'
<1>1. Stored /\ moves \in 0 .. MaxMoves /\ widget # NoSave /\ shown # NoSave
  BY StoredPanels, NotAPanel DEF TypeOK
<1>2. CASE OnClickSaveHandler
  <2> DEFINE q == [id |-> current.id, valid |-> TRUE, c |-> current.c]
  <2>1. /\ Move /\ KeepsQueries /\ from' = 0 /\ strayed' = strayed /\ mounted
        /\ saving' = [panel |-> here.panel, q |-> q] /\ awaits' = TRUE
        /\ widget' = widget /\ shown' = shown
        /\ history' = history /\ pos' = pos /\ mounted' = mounted
    BY <1>2 DEF OnClickSaveHandler
  <2>2. q \in Query /\ q.c = current.c
    BY Parts DEF Query
  <2>3. Filled(current.c) /\ (strayed \/ NamedApart(current.c)) /\ moves' \in 0 .. MaxMoves
    BY <2>1, MoveCounts, AtRest DEF BuilderInv, NamesUnique
  <2> HIDE DEF q
  <2>4. saving' \in [panel : Panels, q : Query] /\ saving'.q = q
    BY <2>1, <2>2, Parts
  <2>5. Stored'
    BY <1>1, <2>1, <2>2, <2>3, <2>4 DEF Stored, Storable
  <2> QED
    BY <2>1, <2>3, <2>5, Stayed
<1>3. CASE SaveSucceeds
  <2> DEFINE target == [page |-> "dashboard", panel |-> "graph", view |-> FALSE, q |-> NoQuery]
  <2>1. /\ saving # NoSave /\ saving' = NoSave /\ widget' = saving /\ KeepsQueries
        /\ strayed' = strayed /\ moves' = moves
    BY <1>3 DEF SaveSucceeds
  <2>2. CASE awaits /\ Settled /\ safeNavigate(target) /\ shown' = saving /\ from' = 0
    <3>1. here.page = "editor"
      BY <2>2 DEF BuilderInv, PlaceInv
    <3>2. target \in Entry /\ target.page = "dashboard" /\ target.q = NoQuery
      BY DEF Entry, Pages, Panels
    <3>3. Stored'
      BY <2>1, <2>2, StoredPanels
    <3> HIDE DEF target
    <3> QED
      BY <1>1, <2>1, <2>2, <3>1, <3>2, <3>3, Opened
  <2>3. CASE ~awaits /\ UNCHANGED <<browser, shown, from>>
    <3>1. /\ history' = history /\ pos' = pos /\ mounted' = mounted /\ awaits' = awaits
          /\ shown' = shown /\ from' = from
      BY <2>3 DEF browser
    <3>2. Stored'
      BY <1>1, <2>1, <3>1, StoredPanels
    <3>3. awaits \in BOOLEAN
      BY Parts
    <3> QED
      BY <1>1, <2>1, <2>3, <3>1, <3>2, <3>3, Stayed
  <2> QED
    BY <1>3, <2>2, <2>3 DEF SaveSucceeds
<1>4. CASE SaveFails
  <2>1. /\ saving' = NoSave /\ awaits' = FALSE /\ KeepsQueries /\ history' = history
        /\ pos' = pos /\ mounted' = mounted /\ widget' = widget /\ shown' = shown
        /\ strayed' = strayed /\ from' = from /\ moves' = moves
    BY <1>4 DEF SaveFails
  <2>2. Stored'
    BY <1>1, <2>1, StoredPanels
  <2> QED
    BY <1>1, <2>1, <2>2, Stayed
<1> QED
  BY <1>2, <1>3, <1>4

\* Back and Forward: a neighbour with the same page and the id of the staged query
\* has the staged query.
LEMMA TravelStep ==
  ASSUME TypeOK, BuilderInv, Back \/ Forward
  PROVE  TypeOK' /\ BuilderInv'
<1>1. PICK to \in {pos - 1, pos + 1} : Travel(to)
  BY DEF Back, Forward
<1>2. /\ Settled /\ moves < MaxMoves /\ moves' = moves + 1
      /\ current' = current /\ superset' = superset /\ staged' = staged
      /\ pathRef' = pathRef /\ edits' = edits /\ history' = history /\ widget' = widget
      /\ shown' = widget /\ saving' = saving /\ awaits' = (awaits /\ mounted')
      /\ to \in DOMAIN history /\ pos' = to
      /\ mounted' = (mounted /\ history[to].page = "editor")
      /\ strayed' = (strayed \/ mounted')
      /\ from' = IF to < pos /\ (history[to].q = NoQuery \/ history[to].q.valid)
                 THEN pos ELSE 0
  BY <1>1 DEF Travel, Move, KeepsQueries
<1>3. here' = history[to] /\ history[to] \in Entry
  BY <1>2, EntryTypes DEF here
<1>4. pos \in Nat /\ 1 <= pos /\ pos <= Len(history) /\ Len(history) \in Nat
  BY EntryTypes
<1>5. TypeOK'
  <2>1. moves' \in 0 .. MaxMoves
    BY <1>2, BuilderBounds DEF TypeOK
  <2>2. mounted' \in BOOLEAN /\ strayed' \in BOOLEAN /\ awaits' \in BOOLEAN
    BY <1>2 DEF TypeOK
  <2>3. from' \in 0 .. MaxHistory
    BY <1>2, <1>4, BuilderBounds DEF TypeOK
  <2> QED
    BY <1>2, <2>1, <2>2, <2>3 DEF TypeOK
<1>6. HistoryInv'
  BY <1>2 DEF BuilderInv, HistoryInv
<1>7. PlaceInv'
  BY <1>2, <1>3 DEF BuilderInv, PlaceInv
<1>8. StagedInv'
  <2>1. ASSUME pathRef = history[to].page, staged.id = history[to].q.id
        PROVE  staged = history[to].q
    <3>1. CASE here.q = NoQuery
      <4>1. staged = NoQuery
        BY <1>2, <3>1, AtRest
      <4> QED
        BY <1>3, <2>1, <4>1, EntryTypes DEF Entry
    <3>2. CASE here.q # NoQuery
      <4>1. staged = here.q /\ pathRef = here.page
        BY <1>2, <3>2, AtRest
      <4>2. CASE to = pos + 1
        <5>1. pos \in DOMAIN history /\ pos + 1 \in DOMAIN history
          BY <1>2, <4>2 DEF TypeOK
        <5> QED
          BY <2>1, <4>1, <4>2, <5>1 DEF BuilderInv, HistoryInv, here
      <4>3. CASE to = pos - 1
        <5>1. to \in DOMAIN history /\ to + 1 = pos /\ pos \in DOMAIN history
          BY <1>2, <1>4, <4>3 DEF TypeOK
        <5> QED
          BY <2>1, <4>1, <5>1 DEF BuilderInv, HistoryInv, here
      <4> QED
        BY <4>2, <4>3
    <3> QED
      BY <3>1, <3>2
  <2> QED
    BY <1>2, <1>3, <2>1 DEF BuilderInv, StagedInv, PathChanged
<1>9. FilledInv'
  BY <1>2, AtRest DEF BuilderInv, FilledInv
<1>10. BackInv'
  BY <1>2, <1>3 DEF BackInv
<1>11. NamesUnique'
  BY <1>2 DEF BuilderInv, NamesUnique
<1>12. EditorInv'
  BY <1>2 DEF EditorInv
<1> QED
  BY <1>5, <1>6, <1>7, <1>8, <1>9, <1>10, <1>11, <1>12 DEF BuilderInv

\* A reload: the provider starts from the URL.
LEMMA ReloadStep ==
  ASSUME TypeOK, BuilderInv, Reload
  PROVE  TypeOK' /\ BuilderInv'
<1>1. /\ Settled /\ moves < MaxMoves /\ moves' = moves + 1
      /\ current' = providerQuery(here) /\ superset' = current'.c
      /\ staged' = NoQuery /\ pathRef' = here.page /\ mounted' = FALSE /\ from' = 0
      /\ history' = history /\ pos' = pos /\ widget' = widget /\ strayed' = strayed
      /\ edits' = edits /\ awaits' = FALSE /\ shown' = widget /\ saving' = saving
  BY DEF Reload, Move, KeepsPanel
<1>2. here' = here
  BY <1>1 DEF here
<1>3. /\ current' \in [id : Nat, c : Content] /\ Filled(current'.c)
      /\ ~strayed => NamedApart(current'.c)
  <2>1. CASE here.q = NoQuery
    <3>1. current' = [id |-> 0, c |-> initialContent]
      BY <1>1, <2>1 DEF providerQuery
    <3> QED
      BY <3>1, InitialContents
  <2>2. CASE here.q # NoQuery
    <3>1. current' = [id |-> here.q.id, c |-> here.q.c]
      BY <1>1, <2>2 DEF providerQuery
    <3>2. ~strayed => NamedApart(here.q.c)
      BY <2>2 DEF BuilderInv, NamesUnique, here, TypeOK
    <3> QED
      BY <1>1, <2>2, <3>1, <3>2, AtRest, Parts
  <2> QED
    BY <2>1, <2>2
<1>4. TypeOK'
  <2>1. moves' \in 0 .. MaxMoves
    BY <1>1, BuilderBounds DEF TypeOK
  <2>2. superset' \in Content /\ pathRef' \in Pages /\ from' \in 0 .. MaxHistory
    BY <1>1, <1>3, Parts, BuilderBounds
  <2> QED
    BY <1>1, <1>3, <2>1, <2>2 DEF TypeOK
<1>5. HistoryInv' /\ PlaceInv'
  BY <1>1 DEF BuilderInv, HistoryInv, PlaceInv
<1>6. StagedInv'
  BY <1>1, <1>2, EntryTypes, Parts DEF StagedInv, NoQuery
<1>7. FilledInv' /\ BackInv' /\ EditorInv'
  BY <1>1, <1>3 DEF BuilderInv, FilledInv, BackInv, EditorInv
<1>8. NamesUnique'
  BY <1>1, <1>3 DEF BuilderInv, NamesUnique
<1> QED
  BY <1>4, <1>5, <1>6, <1>7, <1>8 DEF BuilderInv

\* The editor is on the screen: the superset is the query on the screen.
LEMMA MountStep ==
  ASSUME TypeOK, BuilderInv, MountEditor
  PROVE  TypeOK' /\ BuilderInv'
<1>1. /\ here.page = "editor" /\ Settled /\ mounted' = TRUE /\ superset' = current.c
      /\ current' = current /\ staged' = staged /\ history' = history /\ pos' = pos
      /\ pathRef' = pathRef /\ widget' = widget /\ strayed' = strayed /\ from' = from
      /\ edits' = edits /\ moves' = moves /\ awaits' = awaits
      /\ shown' = shown /\ saving' = saving
  BY DEF MountEditor, counters, stores
<1>2. here' = here /\ (NeedsInit' <=> NeedsInit)
  BY <1>1 DEF here, NeedsInit
<1>3. here.q # NoQuery /\ here.q.valid /\ pathRef = here.page /\ ~NeedsInit
  BY <1>1, AtRest DEF Settled
<1>4. TypeOK'
  BY <1>1, Parts DEF TypeOK
<1>5. HistoryInv' /\ PlaceInv' /\ FilledInv' /\ BackInv' /\ NamesUnique'
  BY <1>1, <1>2, <1>3 DEF BuilderInv, HistoryInv, PlaceInv, FilledInv, BackInv, NamesUnique
<1>6. StagedInv'
  BY <1>1, <1>2 DEF BuilderInv, StagedInv, PathChanged
<1>7. EditorInv'
  BY <1>1, <1>2, <1>3 DEF EditorInv, Agrees
<1> QED
  BY <1>4, <1>5, <1>6, <1>7 DEF BuilderInv

\* An edit that keeps the names apart, the parts filled and the superset in step.
LEMMA EditStep ==
  ASSUME TypeOK, BuilderInv, NEW c \in Content, NEW s \in Content, Edit(c, s),
         Filled(current.c) => Filled(c),
         NamedApart(current.c) => NamedApart(c),
         Agrees(superset, current.c, here.panel) => Agrees(s, c, here.panel)
  PROVE  TypeOK' /\ BuilderInv'
<1>1. /\ Settled /\ edits < MaxEdits /\ edits' = edits + 1 /\ superset' = s
      /\ current' = [current EXCEPT !.c = c]
      /\ staged' = staged /\ history' = history /\ pos' = pos /\ mounted' = mounted
      /\ pathRef' = pathRef /\ widget' = widget /\ strayed' = strayed /\ from' = from
      /\ moves' = moves /\ awaits' = awaits /\ shown' = shown /\ saving' = saving
  BY DEF Edit, OnScreen, browser, stores
<1>2. current' \in [id : Nat, c : Content] /\ current'.c = c
  BY <1>1, Parts
<1>3. here' = here /\ (NeedsInit' <=> NeedsInit) /\ ~NeedsInit
  BY <1>1 DEF here, NeedsInit, Settled
<1>4. TypeOK'
  <2>1. edits' \in 0 .. MaxEdits
    BY <1>1, BuilderBounds DEF TypeOK
  <2> QED
    BY <1>1, <1>2, <2>1 DEF TypeOK
<1>5. HistoryInv' /\ PlaceInv' /\ BackInv'
  BY <1>1, <1>3 DEF BuilderInv, HistoryInv, PlaceInv, BackInv
<1>6. FilledInv' /\ NamesUnique'
  BY <1>1, <1>2, AtRest DEF BuilderInv, FilledInv, NamesUnique
<1>7. StagedInv'
  BY <1>1, <1>3 DEF BuilderInv, StagedInv, PathChanged
<1>8. EditorInv'
  BY <1>1, <1>2, <1>3 DEF BuilderInv, EditorInv
<1> QED
  BY <1>4, <1>5, <1>6, <1>7, <1>8 DEF BuilderInv

\* Every edit is one of those.
LEMMA EditsStep ==
  ASSUME TypeOK, BuilderInv, Edits
  PROVE  TypeOK' /\ BuilderInv'
<1> DEFINE c == current.c
<1>1. c \in Content /\ superset \in Content /\ here.panel \in Panels
  BY Parts
<1>2. /\ DOMAIN c.queryData = 1 .. Len(c.queryData)
      /\ DOMAIN c.queryFormulas = 1 .. Len(c.queryFormulas)
      /\ DOMAIN c.promql = 1 .. Len(c.promql)
      /\ \A i \in DOMAIN c.queryData : c.queryData[i] \in Item
  BY <1>1, ContentParts
<1>3. CASE AddNewBuilderQuery
  <2>1. initialQuery(0) \in Unnamed
    BY DEF initialQuery, Unnamed, Values
  <2> QED
    BY <1>1, <1>3, <2>1, AddQueryContent, AddQueryAgrees, EditStep DEF AddNewBuilderQuery
<1>4. CASE CloneQuery
  <2>1. PICK i \in DOMAIN c.queryData :
           Edit(addQuery(c, c.queryData[i]), addQuery(superset, c.queryData[i]))
    BY <1>4 DEF CloneQuery
  <2>2. c.queryData[i] \in Unnamed
    <3>1. c.queryData[i] \in Item
      BY <1>2
    <3> QED
      BY <3>1 DEF Item, Unnamed, Name
  <2> QED
    BY <1>1, <2>1, <2>2, AddQueryContent, AddQueryAgrees, EditStep
<1>5. CASE HandleDeleteQuery
  <2>1. PICK i \in DOMAIN c.queryData :
           /\ Len(c.queryData) > 1
           /\ Edit(removeByIndex(c, "queryData", i), removeByIndex(superset, "queryData", i))
    BY <1>5 DEF HandleDeleteQuery
  <2>2. i \in Int
    BY <1>2
  <2> QED
    BY <1>1, <2>1, <2>2, RemoveQueryContent, RemoveAgrees, EditStep
<1>6. CASE HandleSetQueryData
  <2>1. PICK i \in DOMAIN c.queryData, f \in PanelFields(here.panel), v \in Values :
           Edit(updateQueryBuilderData(c, i, [c.queryData[i] EXCEPT ![f] = v]),
                updateSuperSetQueryBuilderData(superset, i, [c.queryData[i] EXCEPT ![f] = v]))
    BY <1>6 DEF HandleSetQueryData
  <2> DEFINE item == [c.queryData[i] EXCEPT ![f] = v]
  <2>2. f \in {"filter", "group"}
    BY DEF PanelFields
  <2>3. c.queryData[i] \in Item /\ i \in Int
    BY <1>2
  <2>4. item \in Item /\ item.name = c.queryData[i].name
    BY <2>2, <2>3 DEF Item
  <2> HIDE DEF item
  <2>5. Edit(updateQueryBuilderData(c, i, item), updateSuperSetQueryBuilderData(superset, i, item))
    BY <2>1 DEF item
  <2> QED
    BY <1>1, <2>3, <2>4, <2>5, UpdateContent, UpdateSuperset, EditStep
<1>7. CASE AddNewFormula
  BY <1>1, <1>7, AddNewContent, AddNewAgrees, EditStep DEF AddNewFormula
<1>8. CASE RemoveFormula
  <2>1. PICK i \in DOMAIN c.queryFormulas :
           Edit(removeByIndex(c, "queryFormulas", i), removeByIndex(superset, "queryFormulas", i))
    BY <1>8 DEF RemoveFormula
  <2>2. i \in Int
    BY <1>2
  <2> QED
    BY <1>1, <2>1, <2>2, RemoveNameContent, RemoveAgrees, EditStep
<1>9. CASE AddNewQueryItem
  BY <1>1, <1>9, AddNewContent, AddNewAgrees, EditStep DEF AddNewQueryItem
<1>10. CASE RemoveQueryTypeItem
  <2>1. PICK i \in DOMAIN c.promql :
           /\ Len(c.promql) > 1
           /\ Edit(removeByIndex(c, "promql", i), removeByIndex(superset, "promql", i))
    BY <1>10 DEF RemoveQueryTypeItem
  <2>2. i \in Int
    BY <1>2
  <2> QED
    BY <1>1, <2>1, <2>2, RemoveNameContent, RemoveAgrees, EditStep
<1>11. CASE SetTraceOperator
  <2>1. PICK b \in BOOLEAN : Edit([c EXCEPT !.trace = b], [superset EXCEPT !.trace = b])
    BY <1>11 DEF SetTraceOperator
  <2> QED
    BY <1>1, <2>1, TraceContent, EditStep
<1> QED
  BY <1>3, <1>4, <1>5, <1>6, <1>7, <1>8, <1>9, <1>10, <1>11 DEF Edits
\* The effects: a default query, the query of the URL, its repair, or the path alone.
LEMMA EffectsStep ==
  ASSUME TypeOK, BuilderInv, Effects
  PROVE  TypeOK' /\ BuilderInv'
<1>1. /\ ~Settled /\ pathRef' = here.page /\ widget' = widget /\ strayed' = strayed
      /\ from' = from /\ edits' = edits /\ moves' = moves
      /\ shown' = shown /\ saving' = saving
  BY DEF Effects, counters, stores
<1>2. here.q # NoQuery => here.page # "dashboard"
  BY DEF BuilderInv, HistoryInv, here, TypeOK
<1>3. /\ mounted => here.page = "editor" /\ pathRef = "editor"
      /\ here.page \in Pages /\ NoQuery.id = -1 /\ (awaits => mounted)
  BY Parts DEF BuilderInv, PlaceInv, NoQuery
\* A redirect repairs or replaces the query of the entry shown.
<1>4. ASSUME NEW c \in Content, redirectWithQueryBuilderData(c, here.panel, here.view),
             here.page # "dashboard", ~strayed => NamedApart(c),
             ~(mounted /\ ~strayed), from # 0 => here.q = NoQuery,
             staged' \in {NoQuery, staged},
             current' \in [id : Nat, c : Content], superset' \in Content,
             Filled(current'.c) \/ staged' = NoQuery, ~strayed => NamedApart(current'.c)
      PROVE  TypeOK' /\ BuilderInv'
  <2>1. PICK d \in Content, target \in Entry : RedirectsTo(c, here.panel, d, target)
    BY <1>4, Parts, Redirected DEF BuilderInv
  <2>2. /\ target.page = here.page /\ target.panel = here.panel
        /\ target.q \in Query /\ target.q # NoQuery /\ target.q.id = uuid /\ target.q.valid
        /\ target.q.c = d /\ (NamedApart(c) => NamedApart(d))
        /\ Shows(target) /\ HistoryInv' /\ (here.q = NoQuery => pos' = pos)
    BY <2>1, EntryTypes DEF RedirectsTo
  <2>3. /\ history' \in Seq(Entry) /\ pos' \in DOMAIN history' /\ Len(history') <= MaxHistory
        /\ here' = target /\ mounted' = (mounted /\ here.page = "editor")
        /\ awaits' = (awaits /\ mounted')
    BY <2>2 DEF Shows
  <2>4. TypeOK'
    <3>1. staged' \in Query \cup {NoQuery} /\ mounted' \in BOOLEAN /\ awaits' \in BOOLEAN
      BY <1>4, <2>3, Parts
    <3> QED
      BY <1>1, <1>3, <1>4, <2>3, <3>1 DEF TypeOK, Entry
  <2>5. PlaceInv'
    BY <1>1, <1>3, <1>4, <2>2, <2>3 DEF PlaceInv
  <2>6. StagedInv'
    <3>1. staged'.id # uuid
      BY <1>3, <1>4, UuidFresh
    <3>2. staged' # NoQuery => staged'.valid
      BY <1>4 DEF BuilderInv, StagedInv
    <3> QED
      BY <2>2, <2>3, <3>1, <3>2 DEF StagedInv
  <2>7. FilledInv'
    BY <1>1, <1>4, <2>2, <2>3 DEF BuilderInv, FilledInv
  <2>8. BackInv'
    BY <1>1, <1>4, <2>2, <2>3 DEF BuilderInv, BackInv
  <2>9. NamesUnique'
    <3>1. \A i \in DOMAIN history' : ~strayed /\ history'[i].q # NoQuery =>
             NamedApart(history'[i].q.c)
      BY <1>4, <2>2 DEF Shows, BuilderInv, NamesUnique
    <3> QED
      BY <1>1, <1>4, <3>1 DEF BuilderInv, NamesUnique
  <2>10. EditorInv'
    BY <1>1, <1>4, <2>3 DEF EditorInv
  <2> QED
    BY <2>2, <2>4, <2>5, <2>6, <2>7, <2>8, <2>9, <2>10 DEF BuilderInv
<1>5. CASE /\ NeedsDefault /\ staged' = NoQuery
           /\ current' = [id |-> 0, c |-> initialContent] /\ superset' = initialContent
           /\ redirectWithQueryBuilderData(initialContent, here.panel, here.view)
  <2>1. here.q = NoQuery /\ here.page # "dashboard"
    BY <1>5 DEF NeedsDefault
  <2>2. ~(mounted /\ ~strayed)
    BY <2>1 DEF BuilderInv, EditorInv
  <2>3. current' \in [id : Nat, c : Content] /\ current'.c = initialContent
    BY <1>5, InitialContents
  <2> QED
    BY <1>4, <1>5, <2>1, <2>2, <2>3, InitialContents
<1>6. CASE /\ NeedsInit /\ here.q.valid /\ staged' = initialised(here.q)
           /\ current' = [id |-> here.q.id, c |-> here.q.c]
           /\ UNCHANGED <<superset, browser>>
  <2>1. /\ here.q # NoQuery /\ staged' = here.q /\ superset' = superset /\ history' = history
        /\ pos' = pos /\ mounted' = mounted /\ awaits' = awaits
    BY <1>6 DEF NeedsInit, initialised, browser
  <2>2. here' = here
    BY <2>1 DEF here
  <2>3. /\ current' \in [id : Nat, c : Content] /\ current'.c = here.q.c
        /\ Filled(here.q.c) /\ (~strayed => NamedApart(here.q.c)) /\ here.q \in Query
    <3>1. Filled(here.q.c) /\ (~strayed => NamedApart(here.q.c))
      BY <1>6, <2>1 DEF BuilderInv, HistoryInv, NamesUnique, here, TypeOK
    <3> QED
      BY <1>6, <2>1, <3>1, Parts
  <2>4. TypeOK'
    BY <1>1, <1>3, <2>1, <2>3 DEF TypeOK
  <2>5. HistoryInv' /\ PlaceInv' /\ FilledInv' /\ BackInv'
    BY <1>1, <1>2, <1>3, <2>1, <2>2, <2>3
       DEF BuilderInv, HistoryInv, PlaceInv, FilledInv, BackInv
  <2>6. StagedInv'
    BY <1>6, <2>1, <2>2 DEF StagedInv
  <2>7. NamesUnique'
    BY <1>1, <2>1, <2>3 DEF BuilderInv, NamesUnique
  <2>8. EditorInv'
    <3>1. ~NeedsInit'
      BY <2>1, <2>2 DEF NeedsInit
    <3> QED
      BY <1>1, <1>6, <2>1, <2>2, <2>3, <3>1 DEF BuilderInv, EditorInv
  <2> QED
    BY <2>4, <2>5, <2>6, <2>7, <2>8 DEF BuilderInv
<1>7. CASE /\ NeedsInit /\ ~here.q.valid /\ staged' = stagedAfterPath
           /\ redirectWithQueryBuilderData(here.q.c, here.panel, here.view)
           /\ UNCHANGED <<current, superset>>
  <2>1. /\ here.q # NoQuery /\ staged' \in {NoQuery, staged}
        /\ current' = current /\ superset' = superset
    BY <1>7 DEF NeedsInit, stagedAfterPath
  <2>2. ~(mounted /\ ~strayed) /\ from = 0
    BY <1>7, <2>1 DEF BuilderInv, EditorInv, BackInv
  <2>3. /\ Filled(current'.c) \/ staged' = NoQuery
        /\ ~strayed => NamedApart(current'.c)
    BY <2>1 DEF BuilderInv, FilledInv, NamesUnique
  <2>4. here.q.c \in Content /\ (~strayed => NamedApart(here.q.c))
    BY <2>1, Parts DEF BuilderInv, NamesUnique, here, TypeOK
  <2> QED
    BY <1>2, <1>4, <1>7, <2>1, <2>2, <2>3, <2>4, Parts
<1>8. CASE /\ ~NeedsDefault /\ ~NeedsInit /\ staged' = stagedAfterPath
           /\ UNCHANGED <<current, superset, browser>>
  <2>1. PathChanged /\ here.page # pathRef
    BY <1>1, <1>8 DEF Settled, PathChanged
  <2>2. /\ staged' = NoQuery /\ current' = current /\ superset' = superset
        /\ history' = history /\ pos' = pos /\ mounted' = mounted /\ ~mounted
        /\ awaits' = awaits /\ ~awaits
    BY <1>3, <1>8, <2>1 DEF stagedAfterPath, browser
  <2>3. here' = here
    BY <2>2 DEF here
  <2>4. TypeOK'
    BY <1>1, <1>3, <2>2 DEF TypeOK
  <2>5. HistoryInv' /\ PlaceInv' /\ BackInv' /\ NamesUnique' /\ EditorInv'
    BY <1>1, <2>2, <2>3
       DEF BuilderInv, HistoryInv, PlaceInv, BackInv, NamesUnique, EditorInv
  <2>6. FilledInv'
    BY <1>1, <1>8, <2>2 DEF BuilderInv, FilledInv, NeedsInit
  <2>7. StagedInv'
    <3>1. here.q.id = -1 => here.q = NoQuery
      BY EntryTypes, Parts
    <3> QED
      BY <1>3, <2>2, <2>3, <3>1 DEF StagedInv
  <2> QED
    BY <2>4, <2>5, <2>6, <2>7 DEF BuilderInv
<1> QED
  BY <1>5, <1>6, <1>7, <1>8 DEF Effects

\* A link, whole or not, or a dashboard.
LEMMA BuilderInit == Init => TypeOK /\ BuilderInv
<1> SUFFICES ASSUME Init PROVE TypeOK /\ BuilderInv
  OBVIOUS
<1> DEFINE old == [initialContent EXCEPT !.promql = <<>>]
<1>1. old \in Content /\ NamedApart(old)
  <2>1. /\ old \in Content /\ old.queryData = initialContent.queryData
        /\ old.queryFormulas = initialContent.queryFormulas /\ old.promql = <<>>
    <3>1. <<>> \in Seq(Name)
      OBVIOUS
    <3> QED
      BY <3>1, InitialContents DEF Content
  <2> HIDE DEF old
  <2> QED
    BY <2>1, InitialContents DEF NamedApart, queryNames, IsInjective
<1>2. \A q \in Links : q = NoQuery \/
         (q \in Query /\ q # NoQuery /\ NamedApart(q.c) /\ (q.valid => Filled(q.c)))
  <2> HIDE DEF old
  <2> DEFINE whole == [id |-> 1, valid |-> TRUE, c |-> initialContent]
             part == [id |-> 1, valid |-> FALSE, c |-> old]
  <2>1. whole \in Query /\ whole # NoQuery /\ whole.c = initialContent
    BY InitialContents DEF Query, NoQuery
  <2>2. part \in Query /\ part # NoQuery /\ part.c = old /\ part.valid = FALSE
    BY <1>1 DEF Query, NoQuery
  <2> HIDE DEF whole, part
  <2>3. Links = {NoQuery, whole, part}
    BY DEF Links, whole, part, old
  <2> QED
    BY <1>1, <2>1, <2>2, <2>3, InitialContents
<1>3. PICK e \in Entry :
         /\ history = <<e>> /\ e.panel = "graph" /\ (e.page = "dashboard" => e.q = NoQuery)
         /\ e.q = NoQuery \/
            (e.q \in Query /\ e.q # NoQuery /\ NamedApart(e.q.c) /\ (e.q.valid => Filled(e.q.c)))
  <2>1. ASSUME NEW q \in Links, NEW page \in Pages, page = "dashboard" => q = NoQuery
        PROVE  LET e == [page |-> page, panel |-> "graph", view |-> FALSE, q |-> q]
               IN  /\ e \in Entry /\ e.panel = "graph" /\ e.page = page /\ e.q = q
                   /\ (e.page = "dashboard" => e.q = NoQuery)
    BY <1>2, <2>1 DEF Entry, Panels
  <2>2. CASE \E q \in Links :
               history = <<[page |-> "explorer", panel |-> "graph", view |-> FALSE, q |-> q]>>
    <3>1. PICK q \in Links :
             history = <<[page |-> "explorer", panel |-> "graph", view |-> FALSE, q |-> q]>>
      BY <2>2
    <3> DEFINE f == [page |-> "explorer", panel |-> "graph", view |-> FALSE, q |-> q]
    <3>2. /\ f \in Entry /\ f.panel = "graph" /\ f.q = q
          /\ f.page = "dashboard" => f.q = NoQuery
      BY <2>1 DEF Pages
    <3> HIDE DEF f
    <3>3. history = <<f>>
      BY <3>1 DEF f
    <3> QED
      BY <1>2, <3>2, <3>3
  <2>3. CASE history = <<[page |-> "dashboard", panel |-> "graph", view |-> FALSE, q |-> NoQuery]>>
    BY <1>2, <2>1, <2>3 DEF Pages, Links
  <2> QED
    BY <2>2, <2>3 DEF Init
<1>4. /\ pos = 1 /\ current = providerQuery(e) /\ superset = current.c /\ staged = NoQuery
      /\ pathRef = e.page /\ mounted = FALSE /\ strayed = FALSE /\ from = 0
      /\ edits = 0 /\ moves = 0 /\ here = e
      /\ widget = [panel |-> "graph", q |-> [id |-> 2, valid |-> TRUE, c |-> StoredContent]]
      /\ shown = widget /\ saving = NoSave /\ awaits = FALSE
  BY <1>3 DEF Init, here
<1>5. /\ DOMAIN history = {1} /\ Len(history) = 1 /\ history \in Seq(Entry) /\ history[1] = e
  BY <1>3
<1>6. /\ current \in [id : Nat, c : Content] /\ NamedApart(current.c)
      /\ Filled(current.c) \/ e.q # NoQuery
  BY <1>3, <1>4, InitialContents DEF providerQuery, Query
<1>7. widget \in [panel : Panels, q : Query] /\ widget.q.c = StoredContent
  BY <1>4, InitialContents DEF Panels, Query
<1>8. TypeOK
  <2>1. e.page \in Pages
    BY DEF Entry
  <2>2. superset \in Content /\ staged \in Query \cup {NoQuery}
    BY <1>4, <1>6
  <2>3. history \in Seq([page : Pages, panel : Panels, view : BOOLEAN, q : Query \cup {NoQuery}])
    BY <1>5 DEF Entry
  <2>4. pos \in DOMAIN history /\ Len(history) <= MaxHistory /\ from \in 0 .. MaxHistory
    BY <1>4, <1>5, BuilderBounds
  <2>5. edits \in 0 .. MaxEdits /\ moves \in 0 .. MaxMoves
    BY <1>4, BuilderBounds
  <2> QED
    BY <1>4, <1>6, <1>7, <2>1, <2>2, <2>3, <2>4, <2>5 DEF TypeOK
<1>9. HistoryInv
  BY <1>3, <1>5 DEF HistoryInv
<1>10. PlaceInv /\ BackInv /\ EditorInv
  BY <1>4 DEF PlaceInv, BackInv, EditorInv
<1>11. StagedInv
  BY <1>4, <1>8, EntryTypes, Parts DEF StagedInv
<1>12. FilledInv /\ NamesUnique
  BY <1>3, <1>4, <1>5, <1>6, <1>7, InitialContents DEF FilledInv, NamesUnique
<1> QED
  BY <1>8, <1>9, <1>10, <1>11, <1>12 DEF BuilderInv

\* Every step keeps the types and BuilderInv.
LEMMA BuilderNext == TypeOK /\ BuilderInv /\ [Next]_vars => (TypeOK /\ BuilderInv)'
<1> SUFFICES ASSUME TypeOK, BuilderInv, [Next]_vars PROVE (TypeOK /\ BuilderInv)'
  OBVIOUS
<1>1. CASE UNCHANGED vars
  <2>1. /\ current' = current /\ superset' = superset /\ staged' = staged
        /\ history' = history /\ pos' = pos /\ pathRef' = pathRef /\ mounted' = mounted
        /\ widget' = widget /\ shown' = shown /\ saving' = saving /\ awaits' = awaits
        /\ strayed' = strayed /\ from' = from /\ edits' = edits /\ moves' = moves
    BY <1>1 DEF vars
  <2>2. here' = here
    BY <2>1 DEF here
  <2>3. TypeOK' /\ HistoryInv' /\ NamesUnique'
    BY <2>1 DEF TypeOK, BuilderInv, HistoryInv, NamesUnique
  <2>4. PlaceInv' /\ StagedInv' /\ FilledInv' /\ BackInv' /\ EditorInv'
    BY <2>1, <2>2 DEF BuilderInv, PlaceInv, StagedInv, FilledInv, BackInv, EditorInv,
                      NeedsInit, PathChanged
  <2> QED
    BY <2>3, <2>4 DEF BuilderInv
<1>2. CASE Next
  BY <1>2, EffectsStep, MountStep, EditsStep, RunStep, OpenStep, SaveStep, TravelStep,
     ReloadStep DEF Next, Moves
<1> QED
  BY <1>1, <1>2

\* The inductive invariant holds of every behaviour.
LEMMA BuilderAlways == Spec => [](TypeOK /\ BuilderInv)
BY BuilderInit, BuilderNext, PTL DEF Spec

\* The provider, the browser and the panel keep their shape: every name that
\* createNewBuilderItemName gives is one of the list, and every query that is
\* staged, stored or in the URL has the shape of one.
THEOREM TypeCorrect == Spec => []TypeOK
BY BuilderAlways, PTL

\* No edit, clone, change of panel type, save, view or reload gives two queries,
\* formulas or PromQL queries the same name, for any limit on their number: until
\* Back or Forward is used inside the panel editor (addNewBuilderQuery, cloneQuery,
\* addNewFormula, addNewQueryItem, handleQueryChange).
THEOREM NamesUniqueHolds == Spec => []NamesUnique
<1>1. BuilderInv => NamesUnique
  BY DEF BuilderInv
<1> QED
  BY <1>1, BuilderAlways, PTL

\* In the panel editor the superset agrees with the query on the screen in all
\* that the panel type shows: every edit reaches both (updateSuperSetQueryBuilderData,
\* handleQueryChange, setSupersetQuery).
THEOREM SupersetAgreesHolds == Spec => []SupersetAgrees
<1>1. BuilderInv => SupersetAgrees
  BY DEF BuilderInv, EditorInv, SupersetAgrees, Settled, Agrees
<1> QED
  BY <1>1, BuilderAlways, PTL

\* Once the effects have run, the query that is executed is the query of the URL,
\* although the provider compares ids only: two entries with the same id and
\* different queries, which saving a panel with edits leaves in the history, are
\* never neighbours on the same page (initQueryBuilderData, resetQuery, safeNavigate).
THEOREM StagedIsUrlHolds == Spec => []StagedIsUrl
<1>1. TypeOK /\ BuilderInv => StagedIsUrl
  BY AtRest DEF StagedIsUrl
<1> QED
  BY <1>1, BuilderAlways, PTL

\* Back goes back, however long the history: the default query of a page replaces
\* the entry it is for (isDefaultNavigation, safeNavigate).
THEOREM BackGoesBackHolds == Spec => []BackGoesBack
<1>1. BuilderInv => BackGoesBack
  BY DEF BuilderInv, BackInv, BackGoesBack
<1> QED
  BY <1>1, BuilderAlways, PTL
=============================================================================
