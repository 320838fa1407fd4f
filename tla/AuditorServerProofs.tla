------------------------ MODULE AuditorServerProofs ------------------------
(***************************************************************************)
(* Proofs about AuditorServer, for every set of events and every buffer    *)
(* and batch size: its types and bounds, that Stop drains the buffer, and  *)
(* that the server implements AuditLog.                                    *)
(***************************************************************************)
EXTENDS AuditorServer, SequenceTheorems, TLAPS

(***************************************************************************)
(* The batch and the rest that next makes of a queue.                      *)
(***************************************************************************)
LEMMA Split ==
    ASSUME NEW S, NEW q \in Seq(S), NEW n \in 0..Len(q)
    PROVE  /\ SubSeq(q, 1, n) \in Seq(S)
           /\ SubSeq(q, n + 1, Len(q)) \in Seq(S)
           /\ Len(SubSeq(q, 1, n)) = n
           /\ Len(SubSeq(q, n + 1, Len(q))) = Len(q) - n
           /\ SubSeq(q, 1, n) \o SubSeq(q, n + 1, Len(q)) = q
           /\ \A i \in 1..n : SubSeq(q, 1, n)[i] = q[i]
           /\ \A i \in 1..(Len(q) - n) : SubSeq(q, n + 1, Len(q))[i] = q[n + i]
<1> DEFINE a == SubSeq(q, 1, n)
           b == SubSeq(q, n + 1, Len(q))
<1>0. Len(q) \in Nat /\ n \in Nat /\ n <= Len(q)
  OBVIOUS
<1>1. a \in Seq(S) /\ Len(a) = n /\ \A i \in 1..n : a[i] = q[i]
  BY <1>0, SubSeqProperties
<1>2. b \in Seq(S) /\ Len(b) = Len(q) - n /\ \A i \in 1..(Len(q) - n) : b[i] = q[n + i]
  BY <1>0, SubSeqProperties
<1>3. a \o b = q
  <2>1. a \o b \in Seq(S) /\ Len(a \o b) = Len(q)
    <3> HIDE DEF a, b
    <3>1. a \o b \in Seq(S) /\ Len(a \o b) = Len(a) + Len(b)
      BY <1>1, <1>2, ConcatProperties
    <3> QED
      BY <1>0, <1>1, <1>2, <3>1
  <2>2. ASSUME NEW i \in 1..Len(q)
        PROVE  (a \o b)[i] = q[i]
    <3>1. (a \o b)[i] = IF i <= n THEN a[i] ELSE b[i - n]
      <4> HIDE DEF a, b
      <4> QED
        BY <1>0, <1>1, <1>2, ConcatProperties
    <3>2. CASE i <= n
      <4>1. i \in 1..n
        BY <1>0, <3>2
      <4> HIDE DEF a, b
      <4> QED
        BY <1>1, <3>1, <3>2, <4>1
    <3>3. CASE ~(i <= n)
      <4>1. i - n \in 1..(Len(q) - n) /\ n + (i - n) = i
        BY <1>0, <3>3
      <4> HIDE DEF a, b
      <4> QED
        BY <1>2, <3>1, <3>3, <4>1
    <3> QED
      BY <3>2, <3>3
  <2> QED
    BY <2>1, <2>2, SeqEqual
<1> QED
  BY <1>1, <1>2, <1>3

(***************************************************************************)
(* The batch and the rest hold the events of the queue.                    *)
(***************************************************************************)
LEMMA SplitElements ==
    ASSUME NEW S, NEW q \in Seq(S), NEW n \in 0..Len(q)
    PROVE  /\ Elements(SubSeq(q, 1, n)) \subseteq Elements(q)
           /\ Elements(SubSeq(q, n + 1, Len(q))) \subseteq Elements(q)
<1>0. Len(q) \in Nat /\ n \in Nat /\ n <= Len(q)
  OBVIOUS
<1>1. /\ Len(SubSeq(q, 1, n)) = n
      /\ Len(SubSeq(q, n + 1, Len(q))) = Len(q) - n
      /\ \A i \in 1..n : SubSeq(q, 1, n)[i] = q[i]
      /\ \A i \in 1..(Len(q) - n) : SubSeq(q, n + 1, Len(q))[i] = q[n + i]
  BY Split
<1>2. ASSUME NEW i \in 1..n
      PROVE  SubSeq(q, 1, n)[i] \in Elements(q)
  <2>1. i \in 1..Len(q)
    BY <1>0
  <2> QED
    BY <1>1, <2>1 DEF Elements
<1>3. ASSUME NEW i \in 1..(Len(q) - n)
      PROVE  SubSeq(q, n + 1, Len(q))[i] \in Elements(q)
  <2>1. n + i \in 1..Len(q)
    BY <1>0
  <2> QED
    BY <1>1, <2>1 DEF Elements
<1>4. Elements(SubSeq(q, 1, n)) \subseteq Elements(q)
  BY <1>1, <1>2 DEF Elements
<1>5. Elements(SubSeq(q, n + 1, Len(q))) \subseteq Elements(q)
  BY <1>1, <1>3 DEF Elements
<1> QED
  BY <1>4, <1>5

(***************************************************************************)
(* Appending adds one event.                                               *)
(***************************************************************************)
LEMMA AppendElements ==
    ASSUME NEW S, NEW q \in Seq(S), NEW e \in S
    PROVE  Elements(Append(q, e)) = Elements(q) \cup {e}
<1>1. /\ Len(Append(q, e)) = Len(q) + 1
      /\ \A i \in 1..Len(q) : Append(q, e)[i] = q[i]
      /\ Append(q, e)[Len(q) + 1] = e
  BY AppendProperties
<1>2. 1..(Len(q) + 1) = (1..Len(q)) \cup {Len(q) + 1}
  OBVIOUS
<1> QED
  BY <1>1, <1>2 DEF Elements

(***************************************************************************)
(* How much next takes.                                                    *)
(***************************************************************************)
LEMMA SmallerBounds ==
    ASSUME NEW n \in Nat
    PROVE  /\ Smaller(BatchSize, n) \in 0..n
           /\ Smaller(BatchSize, n) <= BatchSize
           /\ Smaller(BatchSize, n) = 0 <=> n = 0
BY ConfigAssumption DEF Smaller

Inv == TypeOK /\ DrainInv

(***************************************************************************)
(* The initial state is of the right type and nothing is buffered.         *)
(***************************************************************************)
LEMMA InvInit == Init => Inv
<1> SUFFICES ASSUME Init PROVE Inv
  OBVIOUS
<1>1. Len(<<>>) = 0 /\ <<>> \in Seq(Event) /\ Elements(<<>>) = {}
  BY DEF Elements
<1>2. TypeOK
  <2>1. 0 <= BufferSize /\ 0 <= BatchSize
    BY ConfigAssumption
  <2>2. moreC \in BOOLEAN /\ draining \in BOOLEAN
    BY Zenon DEF Init
  <2> QED
    BY <1>1, <2>1, <2>2 DEF Init, TypeOK
<1>3. DrainInv
  BY <1>1 DEF Init, DrainInv, stopC
<1> QED
  BY <1>2, <1>3 DEF Inv

(***************************************************************************)
(* Taking a batch from the queue preserves types, bounds and the drain.    *)
(***************************************************************************)
LEMMA InvTake ==
    ASSUME Inv, Take
    PROVE  Inv'
<1> DEFINE n == Smaller(BatchSize, Len(queue))
<1>0. /\ queue \in Seq(Event) /\ Len(queue) \in Nat /\ Len(queue) <= BufferSize
      /\ n \in 0..Len(queue) /\ n <= BatchSize
      /\ n = 0 <=> Len(queue) = 0
  <2>1. queue \in Seq(Event) /\ Len(queue) \in Nat /\ Len(queue) <= BufferSize
    BY DEF Inv, TypeOK
  <2> QED
    BY <2>1, SmallerBounds
<1>1. /\ loop = "next" /\ batch' = SubSeq(queue, 1, n)
      /\ queue' = SubSeq(queue, n + 1, Len(queue))
      /\ loop' = IF n # 0 THEN "export" ELSE IF draining THEN "gone" ELSE "select"
      /\ UNCHANGED <<moreC, draining, stop, emitted, exported, lost, early>>
  BY DEF Take
<1> HIDE DEF n
<1>2. /\ batch' \in Seq(Event) /\ Len(batch') = n
      /\ queue' \in Seq(Event) /\ Len(queue') = Len(queue) - n
  BY <1>0, <1>1, Split
<1>3. Elements(batch') \subseteq Elements(queue)
      /\ Elements(queue') \subseteq Elements(queue)
  BY <1>0, <1>1, SplitElements
<1>4. TypeOK'
  <2>1. Len(queue') <= BufferSize
    BY <1>0, <1>2, ConfigAssumption
  <2> QED
    BY <1>0, <1>1, <1>2, <2>1 DEF Inv, TypeOK
<1>5. DrainInv'
  <2>1. batch' # <<>> <=> n # 0
    BY <1>0, <1>2, EmptySeq
  <2>2. loop' = "export" <=> batch' # <<>>
    BY <1>1, <2>1
  <2>3. n = 0 => Elements(queue') = {}
    <3>1. n = 0 => Len(queue') = 0
      BY <1>0, <1>2
    <3> QED
      BY <3>1 DEF Elements
  <2> QED
    BY <1>1, <1>3, <2>2, <2>3 DEF Inv, DrainInv, stopC
<1> QED
  BY <1>4, <1>5 DEF Inv

(***************************************************************************)
(* Every step preserves the types, the bounds and the drain invariant.     *)
(***************************************************************************)
LEMMA InvNext == Inv /\ [Next]_vars => Inv'
<1> SUFFICES ASSUME Inv, [Next]_vars PROVE Inv'
  OBVIOUS
<1>0. /\ queue \in Seq(Event) /\ batch \in Seq(Event)
      /\ exported \in Seq(Event) /\ lost \in Seq(Event)
      /\ Len(queue) \in Nat /\ Len(batch) \in Nat
  BY DEF Inv, TypeOK
<1>1. CASE Start
  BY <1>1 DEF Start, Inv, TypeOK, DrainInv, stopC
<1>2. ASSUME NEW e \in Event, Add(e)
      PROVE  Inv'
  <2>1. CASE Len(queue) >= BufferSize
    BY <1>2, <2>1 DEF Add, Inv, TypeOK, DrainInv, stopC
  <2>2. CASE ~(Len(queue) >= BufferSize)
    <3>1. queue' = Append(queue, e) /\ moreC' = TRUE
      BY <1>2, <2>2 DEF Add
    <3>2. queue' \in Seq(Event) /\ Len(queue') = Len(queue) + 1
      BY <1>0, <3>1, AppendProperties
    <3>3. Elements(queue') = Elements(queue) \cup {e}
      BY <1>0, <3>1, AppendElements
    <3>4. Len(queue') <= BufferSize
      BY <1>0, <2>2, <3>2, ConfigAssumption
    <3>5. TypeOK'
      BY <1>2, <3>1, <3>2, <3>4 DEF Add, Inv, TypeOK
    <3>6. DrainInv'
      BY <1>2, <3>3 DEF Add, Inv, DrainInv, stopC
    <3> QED
      BY <3>5, <3>6 DEF Inv
  <2> QED
    BY <2>1, <2>2
<1>3. CASE SelectStop \/ SelectMore \/ SelectTick
  <2>1. /\ loop = "select" /\ loop' \in {"len", "next"}
        /\ UNCHANGED <<queue, batch, stop, emitted, exported, lost, early>>
        /\ draining' => draining \/ stopC
    BY <1>3 DEF SelectStop, SelectMore, SelectTick, Select
  <2>2. moreC' \in BOOLEAN /\ draining' \in BOOLEAN
    BY <1>3, Zenon DEF SelectStop, SelectMore, SelectTick, Inv, TypeOK
  <2>3. TypeOK'
    BY <2>1, <2>2 DEF Inv, TypeOK
  <2>4. DrainInv'
    BY <2>1 DEF Inv, DrainInv, stopC
  <2> QED
    BY <2>3, <2>4 DEF Inv
<1>4. CASE QueueLen
  <2>1. Len(queue) = 0 => Elements(queue) = {}
    BY DEF Elements
  <2>2. loop' \in {"next", "select", "gone"}
        /\ (loop' = "gone" => draining /\ Len(queue) = 0)
    BY <1>0, <1>4 DEF QueueLen
  <2>3. TypeOK'
    BY <1>4, <2>2 DEF QueueLen, Inv, TypeOK
  <2>4. DrainInv'
    BY <1>4, <2>1, <2>2 DEF QueueLen, Inv, DrainInv, stopC
  <2> QED
    BY <2>3, <2>4 DEF Inv
<1>5. CASE Take
  BY <1>5, InvTake
<1>6. ASSUME NEW ok \in BOOLEAN, Export(ok)
      PROVE  Inv'
  <2>1. exported' \in Seq(Event) /\ lost' \in Seq(Event)
    BY <1>0, <1>6, ConcatProperties DEF Export
  <2>2. batch' = <<>> /\ Len(batch') = 0 /\ batch' \in Seq(Event)
        /\ Elements(batch') = {}
    BY <1>6 DEF Export, Elements
  <2>3. loop' \in {"len", "select"}
    BY <1>6 DEF Export
  <2>4. TypeOK'
    BY <1>6, <2>1, <2>2, <2>3, ConfigAssumption DEF Export, Inv, TypeOK
  <2>5. DrainInv'
    BY <1>6, <2>2, <2>3 DEF Export, Inv, DrainInv, stopC
  <2> QED
    BY <2>4, <2>5 DEF Inv
<1>7. CASE Stop
  BY <1>7 DEF Stop, Inv, TypeOK, DrainInv, stopC
<1>8. CASE StopCloses
  <2>1. Elements(queue) \cup Elements(batch) \in SUBSET Event
    BY <1>0 DEF Elements
  <2>2. loop # "gone"
    BY <1>8 DEF StopCloses, Inv, DrainInv, stopC
  <2>3. TypeOK'
    BY <1>8, <2>1 DEF StopCloses, Inv, TypeOK
  <2>4. DrainInv'
    BY <1>8, <2>2 DEF StopCloses, Inv, DrainInv, stopC
  <2> QED
    BY <2>3, <2>4 DEF Inv
<1>9. CASE StopReturns
  BY <1>9 DEF StopReturns, Inv, TypeOK, DrainInv, stopC
<1>10. CASE UNCHANGED vars
  BY <1>10 DEF vars, Inv, TypeOK, DrainInv, stopC
<1> QED
  BY <1>1, <1>2, <1>3, <1>4, <1>5, <1>6, <1>7, <1>8, <1>9, <1>10
  DEF Next, Flush

(***************************************************************************)
(* The events that leave the batch and the queue leave AuditLog's pending  *)
(* events in the same order.                                               *)
(***************************************************************************)
LEMMA ConcatParts ==
    ASSUME NEW S, NEW b \in Seq(S), NEW q \in Seq(S)
    PROVE  /\ Len(b \o q) = Len(b) + Len(q)
           /\ SubSeq(b \o q, 1, Len(b)) = b
           /\ SubSeq(b \o q, Len(b) + 1, Len(b \o q)) = q
<1> DEFINE c == b \o q
<1>0. /\ c \in Seq(S) /\ Len(c) = Len(b) + Len(q)
      /\ Len(b) \in Nat /\ Len(q) \in Nat /\ Len(b) \in 0..Len(c)
      /\ \A i \in 1..(Len(b) + Len(q)) :
            c[i] = IF i <= Len(b) THEN b[i] ELSE q[i - Len(b)]
  BY ConcatProperties
<1> HIDE DEF c
<1> DEFINE x == SubSeq(c, 1, Len(b))
           y == SubSeq(c, Len(b) + 1, Len(c))
<1>1. /\ x \in Seq(S) /\ y \in Seq(S)
      /\ Len(x) = Len(b) /\ Len(y) = Len(q)
      /\ \A i \in 1..Len(b) : x[i] = c[i]
      /\ \A i \in 1..Len(q) : y[i] = c[Len(b) + i]
  <2>1. /\ x \in Seq(S) /\ y \in Seq(S)
        /\ Len(x) = Len(b) /\ Len(y) = Len(c) - Len(b)
        /\ \A i \in 1..Len(b) : x[i] = c[i]
        /\ \A i \in 1..(Len(c) - Len(b)) : y[i] = c[Len(b) + i]
    BY <1>0, Split
  <2>2. Len(c) - Len(b) = Len(q)
    BY <1>0
  <2> HIDE DEF x, y
  <2> QED
    BY <2>1, <2>2
<1> HIDE DEF x, y
<1>2. x = b
  <2>1. \A i \in 1..Len(b) : x[i] = b[i]
    BY <1>0, <1>1
  <2> QED
    BY <1>1, <2>1, SeqEqual
<1>3. y = q
  <2>1. ASSUME NEW i \in 1..Len(q) PROVE y[i] = q[i]
    <3>1. Len(b) + i \in 1..(Len(b) + Len(q)) /\ ~(Len(b) + i <= Len(b))
          /\ (Len(b) + i) - Len(b) = i
      BY <1>0
    <3> QED
      BY <1>0, <1>1, <3>1
  <2> QED
    BY <1>1, <2>1, SeqEqual
<1> QED
  BY <1>0, <1>2, <1>3 DEF c, x, y

(***************************************************************************)
(* The buffer never grows past BufferSize and no batch past BatchSize, for *)
(* every configuration that Validate accepts.                              *)
(***************************************************************************)
THEOREM TypeCorrect == Spec => []TypeOK
<1>1. Spec => []Inv
  BY InvInit, InvNext, PTL DEF Spec
<1>2. Inv => TypeOK
  BY DEF Inv
<1> QED
  BY <1>1, <1>2, PTL

(***************************************************************************)
(* Every event that was buffered when Stop closed stopC has been handed to *)
(* the export when Stop returns.                                           *)
(***************************************************************************)
THEOREM StopDrainsHolds == Spec => []StopDrains
<1>1. Spec => []Inv
  BY InvInit, InvNext, PTL DEF Spec
<1>2. Inv => StopDrains
  <2> SUFFICES ASSUME Inv, stop = "returned"
               PROVE  early \cap (Elements(queue) \cup Elements(batch)) = {}
    BY DEF StopDrains
  <2>1. loop = "gone" /\ batch = <<>> /\ early \cap Elements(queue) = {}
    BY DEF Inv, DrainInv
  <2>2. Elements(<<>>) = {}
    BY DEF Elements
  <2> QED
    BY <2>1, <2>2
<1> QED
  BY <1>1, <1>2, PTL

(***************************************************************************)
(* A step of the server is a step of AuditLog or leaves it unchanged.      *)
(***************************************************************************)
LEMMA StepImplements ==
    ASSUME Inv, [Next]_vars
    PROVE  [Log!Next]_Log!vars
<1>0. /\ queue \in Seq(Event) /\ batch \in Seq(Event)
      /\ Len(queue) \in Nat /\ Len(batch) \in Nat
  BY DEF Inv, TypeOK
<1>s. ASSUME UNCHANGED <<emitted, queue, batch, exported, lost>>
      PROVE  UNCHANGED Log!vars
  BY <1>s DEF Log!vars
<1>1. CASE Start \/ SelectStop \/ SelectMore \/ SelectTick \/ QueueLen \/ Stop
           \/ StopCloses \/ StopReturns \/ UNCHANGED vars
  <2>1. UNCHANGED <<emitted, queue, batch, exported, lost>>
    BY <1>1 DEF Start, SelectStop, SelectMore, SelectTick, Select, QueueLen, Stop,
                StopCloses, StopReturns, vars
  <2> QED
    BY <1>s, <2>1
<1>2. ASSUME NEW e \in Event, Add(e)
      PROVE  Log!Next
  <2>1. CASE Len(queue) >= BufferSize
    <3>1. Log!Refuse(e)
      BY <1>2, <2>1 DEF Add, Log!Refuse
    <3> QED
      BY <3>1 DEF Log!Next
  <2>2. CASE ~(Len(queue) >= BufferSize)
    <3>1. queue' = Append(queue, e) /\ batch' = batch
      BY <1>2, <2>2 DEF Add
    <3>2. batch \o Append(queue, e) = Append(batch \o queue, e)
      <4>1. Append(queue, e) = queue \o <<e>>
        BY <1>0, AppendIsConcat
      <4>2. batch \o queue \in Seq(Event)
        BY <1>0, ConcatProperties
      <4>3. Append(batch \o queue, e) = (batch \o queue) \o <<e>>
        BY <4>2, AppendIsConcat
      <4>4. <<e>> \in Seq(Event)
        OBVIOUS
      <4>5. (batch \o queue) \o <<e>> = batch \o (queue \o <<e>>)
        BY <1>0, <4>4, ConcatAssociative
      <4> QED
        BY <4>1, <4>3, <4>5
    <3>3. Log!Accept(e)
      BY <1>2, <3>1, <3>2 DEF Add, Log!Accept
    <3> QED
      BY <3>3 DEF Log!Next
  <2> QED
    BY <2>1, <2>2
<1>3. CASE Take
  <2> DEFINE n == Smaller(BatchSize, Len(queue))
  <2>1. batch = <<>>
    BY <1>3 DEF Take, Inv, DrainInv
  <2>2. n \in 0..Len(queue)
    BY <1>0, SmallerBounds
  <2>3. batch' = SubSeq(queue, 1, n) /\ queue' = SubSeq(queue, n + 1, Len(queue))
        /\ UNCHANGED <<emitted, exported, lost>>
    BY <1>3 DEF Take
  <2> HIDE DEF n
  <2>4. batch' \o queue' = queue
    BY <1>0, <2>2, <2>3, Split
  <2>5. batch \o queue = queue
    BY <1>0, <2>1, ConcatEmptySeq
  <2> QED
    BY <2>3, <2>4, <2>5 DEF Log!vars
<1>4. ASSUME NEW ok \in BOOLEAN, Export(ok)
      PROVE  Log!Next
  <2>1. batch # <<>> /\ Len(batch) \in Nat \ {0}
    BY <1>0, <1>4, EmptySeq DEF Export, Inv, DrainInv
  <2>2. /\ Len(batch \o queue) = Len(batch) + Len(queue)
        /\ SubSeq(batch \o queue, 1, Len(batch)) = batch
        /\ SubSeq(batch \o queue, Len(batch) + 1, Len(batch \o queue)) = queue
    BY <1>0, ConcatParts
  <2>3. Len(batch) \in 1..Len(batch \o queue)
    BY <1>0, <2>1, <2>2
  <2>4. batch' \o queue' = queue
    BY <1>0, <1>4, ConcatEmptySeq DEF Export
  <2>5. Log!Leave(Len(batch), ok)
    BY <1>4, <2>2, <2>4 DEF Export, Log!Leave
  <2> QED
    BY <2>3, <2>5 DEF Log!Next
<1> QED
  BY <1>1, <1>2, <1>3, <1>4 DEF Next, Flush

(***************************************************************************)
(* The server implements AuditLog, for every buffer and batch size: events *)
(* leave once, in the order in which they were accepted.                   *)
(***************************************************************************)
THEOREM ImplementsHolds == Spec => Implements
<1>1. Init => Log!Init
  <2>1. <<>> \o <<>> = <<>>
    BY ConcatEmptySeq, EmptySeq
  <2> QED
    BY <2>1 DEF Init, Log!Init
<1>2. Spec => []Inv
  BY InvInit, InvNext, PTL DEF Spec
<1>3. Inv /\ [Next]_vars => [Log!Next]_Log!vars
  BY StepImplements
<1> QED
  BY <1>1, <1>2, <1>3, PTL DEF Spec, Implements, Log!Spec
=============================================================================
