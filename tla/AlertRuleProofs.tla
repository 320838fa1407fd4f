--------------------------- MODULE AlertRuleProofs ---------------------------
(***************************************************************************)
(* Proofs about AlertRule, for every set of series and every interval,     *)
(* resend delay, retention and grace period.                               *)
(***************************************************************************)
EXTENDS AlertRule, SequenceTheorems, TLAPS

Sample == [Missing : BOOLEAN, IsRecovering : BOOLEAN]

(***************************************************************************)
(* The alert that Eval builds from a sample has the type of an alert.      *)
(***************************************************************************)
LEMMA NewAlertType ==
    ASSUME NEW smpl \in Sample, NEW ts \in Nat
    PROVE  NewAlert(smpl, ts) \in Alert
BY DEF Sample, NewAlert, Alert, AlertState

(***************************************************************************)
(* Advancing an alert, in the result or out of it, keeps its type.         *)
(***************************************************************************)
LEMMA AdvanceType ==
    ASSUME NEW a \in Alert, NEW ts \in Nat
    PROVE  Turn(Fire(a, ts)) \in Alert /\ Resolve(a, ts) \in Alert
<1>1. Resolve(a, ts) \in Alert
  BY DEF Resolve, Alert, AlertState
<1>2. Fire(a, ts) \in Alert
  BY DEF Fire, Alert, AlertState
<1>3. \A b \in Alert : Turn(b) \in Alert
  BY DEF Turn, Alert, AlertState
<1> QED
  BY <1>1, <1>2, <1>3

(***************************************************************************)
(* Sending an alert keeps its type.                                        *)
(***************************************************************************)
LEMMA SentType ==
    ASSUME NEW a \in Alert, NEW ts \in Nat
    PROVE  Sent(a, ts) \in Alert
<1>1. Delta \in Nat
  BY TimeAssumption DEF Delta
<1>2. ts + 4 * Delta \in Nat
  BY <1>1
<1> QED
  BY <1>2 DEF Sent, Alert

(***************************************************************************)
(* The history items of an alert are states the history knows.             *)
(***************************************************************************)
LEMMA ItemsType ==
    ASSUME NEW a \in Alert, NEW ts \in Nat, NEW inResult \in BOOLEAN
    PROVE  Items(a, inResult, ts) \in Seq(HistoryState)
<1>1. Turns(Fire(a, ts)) => Turn(Fire(a, ts)).State \in HistoryState
  <2>1. Fire(a, ts) \in Alert
    BY DEF Fire, Alert, AlertState
  <2> QED
    BY <2>1 DEF Turn, Alert, HistoryState
<1> DEFINE state == IF a.Missing THEN "nodata" ELSE "firing"
           turned == Turn(Fire(a, ts)).State
<1>2. (IF Fires(a, ts) THEN <<state>> ELSE <<>>) \in Seq(HistoryState)
  <2>1. state \in HistoryState
    BY DEF HistoryState
  <2> HIDE DEF state
  <2> QED
    BY <2>1
<1>3. (IF Turns(Fire(a, ts)) THEN <<turned>> ELSE <<>>) \in Seq(HistoryState)
  <2> HIDE DEF turned
  <2>1. CASE Turns(Fire(a, ts))
    BY <1>1, <2>1 DEF turned
  <2>2. CASE ~Turns(Fire(a, ts))
    BY <2>2
  <2> QED
    BY <2>1, <2>2
<1>4. (IF a.State # "inactive" THEN <<"inactive">> ELSE <<>>)
          \in Seq(HistoryState)
  <2>1. "inactive" \in HistoryState
    BY DEF HistoryState
  <2>2. CASE a.State # "inactive"
    BY <2>1, <2>2
  <2>3. CASE ~(a.State # "inactive")
    BY <2>3
  <2> QED
    BY <2>2, <2>3
<1>5. CASE inResult
  BY <1>2, <1>3, <1>5 DEF Items
<1>6. CASE ~inResult
  BY <1>4, <1>6 DEF Items
<1> QED
  BY <1>5, <1>6

(***************************************************************************)
(* The samples of a query are keyed by alert ids.                          *)
(***************************************************************************)
LEMMA ResultType ==
    ASSUME NEW o \in [Series -> Observation], NEW ts \in Nat, lastData \in Nat
    PROVE  /\ LastData(o, ts) \in Nat
           /\ DOMAIN Result(o, ts) \subseteq AlertId
           /\ \A id \in DOMAIN Result(o, ts) : Result(o, ts)[id] \in Sample
<1>1. LastData(o, ts) \in Nat
  BY DEF LastData
<1>2. /\ DOMAIN ThresholdSamples(o) \subseteq AlertId
      /\ \A id \in DOMAIN ThresholdSamples(o) :
            ThresholdSamples(o)[id] \in Sample
  <2> DEFINE ids == {SeriesId(s) : s \in {x \in Series :
                        \/ o[x] = "target"
                        \/ o[x] = "recovery" /\ HasActiveAlert(SeriesId(x))}}
             smpl(id) == [Missing |-> FALSE,
                          IsRecovering |-> o[id[2]] = "recovery"]
  <2>1. ids \subseteq AlertId
    <3>1. \A s \in Series : SeriesId(s) \in AlertId
      BY DEF SeriesId, AlertId
    <3> QED
      BY <3>1
  <2>2. \A id \in ids : smpl(id) \in Sample
    BY DEF Sample
  <2>3. ThresholdSamples(o) = [id \in ids |-> smpl(id)]
    BY DEF ThresholdSamples
  <2> HIDE DEF ids, smpl
  <2> QED
    BY <2>1, <2>2, <2>3
<1> QED
  BY <1>1, <1>2 DEF Result, NoDataId, AlertId, Sample

(***************************************************************************)
(* Active is a map of alerts after Eval's merge and after its loop.        *)
(***************************************************************************)
LEMMA EvaluatedType ==
    ASSUME TypeOK, NEW o \in [Series -> Observation], NEW ts \in Nat
    PROVE  LET res == Result(o, ts)
               m   == Merged(res, ts)
           IN  /\ DOMAIN m \subseteq AlertId
               /\ m \in [DOMAIN m -> Alert]
               /\ DOMAIN Evaluated(m, res, ts) \subseteq DOMAIN m
               /\ Evaluated(m, res, ts)
                    \in [DOMAIN Evaluated(m, res, ts) -> Alert]
<1> DEFINE res == Result(o, ts)
           m == Merged(res, ts)
<1>1. /\ DOMAIN res \subseteq AlertId
      /\ \A id \in DOMAIN res : res[id] \in Sample
  BY ResultType DEF TypeOK
<1> HIDE DEF res
<1>2. DOMAIN m = DOMAIN Active \cup DOMAIN res
  BY DEF Merged
<1>3. ASSUME NEW id \in DOMAIN m
      PROVE  m[id] \in Alert
  <2>1. CASE id \notin DOMAIN res
    BY <1>2, <2>1 DEF Merged, TypeOK
  <2>2. CASE id \in DOMAIN res /\ id \in DOMAIN Active
                /\ Active[id].State # "inactive"
    <3>1. /\ Active[id] \in Alert
          /\ res[id].Missing \in BOOLEAN
          /\ res[id].IsRecovering \in BOOLEAN
      BY <1>1, <2>2 DEF TypeOK, Sample
    <3>2. m[id] = [Active[id] EXCEPT !.Missing = res[id].Missing,
                                     !.IsRecovering = res[id].IsRecovering]
      BY <1>2, <2>2 DEF Merged
    <3> QED
      BY <3>1, <3>2 DEF Alert
  <2>3. CASE id \in DOMAIN res /\ ~(id \in DOMAIN Active
                /\ Active[id].State # "inactive")
    <3>1. m[id] = NewAlert(res[id], ts)
      BY <1>2, <2>3 DEF Merged
    <3> QED
      BY <3>1, <2>3, <1>1, NewAlertType
  <2> QED
    BY <2>1, <2>2, <2>3
<1>4. m \in [DOMAIN m -> Alert]
  BY <1>3 DEF Merged
<1>5. DOMAIN m \subseteq AlertId
  BY <1>1, <1>2 DEF TypeOK
<1> HIDE DEF m
<1>6. \A id \in DOMAIN m : Advance(m[id], id \in DOMAIN res, ts) \in Alert
  BY <1>3, AdvanceType DEF Advance
<1> QED
  BY <1>4, <1>5, <1>6 DEF Evaluated, res, m

(***************************************************************************)
(* What RecordRuleStateHistory leaves in the store is a map from alert     *)
(* ids to history states.                                                  *)
(***************************************************************************)
LEMMA RecordedType ==
    ASSUME TypeOK, NEW D \in SUBSET AlertId,
           NEW items \in [D -> Seq(HistoryState)]
    PROVE  /\ DOMAIN Recorded(items) \subseteq AlertId
           /\ Recorded(items) \in [DOMAIN Recorded(items) -> HistoryState]
<1>1. \A id \in D : items[id] # <<>> =>
          /\ items[id][Len(items[id])] \in HistoryState
          /\ Head(items[id]) \in HistoryState
  <2> SUFFICES ASSUME NEW id \in D, items[id] # <<>>
               PROVE  /\ items[id][Len(items[id])] \in HistoryState
                      /\ Head(items[id]) \in HistoryState
    OBVIOUS
  <2>1. items[id] \in Seq(HistoryState)
    OBVIOUS
  <2> QED
    BY <2>1
<1>2. "inactive" \in HistoryState
  BY DEF HistoryState
<1>3. DOMAIN items = D
  OBVIOUS
<1> HIDE DEF HistoryState
<1> QED
  BY <1>1, <1>2, <1>3 DEF Recorded, TypeOK

(***************************************************************************)
(* A tick moves the clock forward to a natural number.                     *)
(***************************************************************************)
LEMMA TickForward ==
    ASSUME TypeOK, NEW missed \in MissedTicks, Tick(missed)
    PROVE  /\ now' \in Nat
           /\ now' > now
           /\ now' - lastRound <= MaxQuiet
<1>1. missed = 0 \/ missed = 1
  BY DEF MissedTicks
<1>2. (missed + 1) * Frequency \in Nat /\ (missed + 1) * Frequency > 0
  <2>1. CASE missed = 0
    BY <2>1, TimeAssumption
  <2>2. CASE missed = 1
    BY <2>2, TimeAssumption
  <2> QED
    BY <1>1, <2>1, <2>2
<1>3. now' = now + (missed + 1) * Frequency /\ now' - lastRound <= MaxQuiet
  BY DEF Tick
<1> QED
  BY <1>2, <1>3 DEF TypeOK

(***************************************************************************)
(* Every action keeps the types.                                           *)
(***************************************************************************)
LEMMA TypeStep ==
    ASSUME TypeOK, [Next]_vars
    PROVE  TypeOK'
<1>1. ASSUME NEW missed \in MissedTicks, NEW o \in [Series -> Observation],
             NEW written \in BOOLEAN, Eval(missed, o, written)
      PROVE  TypeOK'
  <2> DEFINE res == Result(o, now')
             m == Merged(res, now')
             items == [id \in DOMAIN m |->
                         Items(m[id], id \in DOMAIN res, now')]
  <2>1. now' \in Nat
    BY <1>1, TickForward DEF Eval
  <2>2. /\ DOMAIN m \subseteq AlertId
        /\ m \in [DOMAIN m -> Alert]
        /\ DOMAIN Evaluated(m, res, now') \subseteq DOMAIN m
        /\ Evaluated(m, res, now') \in [DOMAIN Evaluated(m, res, now') -> Alert]
    BY <2>1, EvaluatedType
  <2>3. LastData(o, now') \in Nat
    BY <2>1, ResultType DEF TypeOK
  <2> HIDE DEF m, res
  <2>4. ASSUME NEW id \in DOMAIN m
        PROVE  Items(m[id], id \in DOMAIN res, now') \in Seq(HistoryState)
    <3>1. m[id] \in Alert
      BY <2>2
    <3>2. CASE id \in DOMAIN res
      <4>1. Items(m[id], TRUE, now') \in Seq(HistoryState)
        BY <3>1, <2>1, ItemsType
      <4> QED
        BY <4>1, <3>2 DEF Items
    <3>3. CASE id \notin DOMAIN res
      <4>1. Items(m[id], FALSE, now') \in Seq(HistoryState)
        BY <3>1, <2>1, ItemsType
      <4> QED
        BY <4>1, <3>3 DEF Items
    <3> QED
      BY <3>2, <3>3
  <2>5. items \in [DOMAIN m -> Seq(HistoryState)]
    BY <2>4
  <2>6. /\ DOMAIN Recorded(items) \subseteq AlertId
        /\ Recorded(items) \in [DOMAIN Recorded(items) -> HistoryState]
    BY <2>2, <2>5, RecordedType
  <2> HIDE DEF items
  <2>7. /\ Active' = Evaluated(m, res, now')
        /\ saved' = IF written THEN Recorded(items) ELSE saved
        /\ trusted' \in BOOLEAN
        /\ handledRestart' \in BOOLEAN
        /\ obs' = o
        /\ lastData' = LastData(o, now')
        /\ phase' = "evaluated"
        /\ UNCHANGED <<lastRound, amReady, told>>
    BY <1>1 DEF Eval, m, res, items, TypeOK
  <2> QED
    BY <2>1, <2>2, <2>3, <2>6, <2>7 DEF TypeOK
<1>2. ASSUME NEW missed \in MissedTicks, NEW duplicate \in BOOLEAN,
             EvalFails(missed, duplicate)
      PROVE  TypeOK'
  BY <1>2, TickForward DEF EvalFails, TypeOK
<1>3. CASE SkipForMaintenance
  <2>1. 0 \in MissedTicks
    BY DEF MissedTicks
  <2> QED
    BY <1>3, <2>1, TickForward DEF SkipForMaintenance, TypeOK
<1>4. CASE SendAlerts
  <2> DEFINE sending == {id \in DOMAIN Active : NeedsSending(Active[id], now)}
             sent == [id \in DOMAIN Active |->
                        IF id \in sending THEN Sent(Active[id], now)
                                          ELSE Active[id]]
  <2>1. sent \in [DOMAIN Active -> Alert]
    BY SentType DEF TypeOK
  <2>2. \A id \in DOMAIN Active : EndsAt(sent[id]) \in Nat
    BY <2>1 DEF EndsAt, Alert
  <2>3. sending \subseteq DOMAIN Active
    OBVIOUS
  <2>4. /\ Active' = sent
        /\ told' = IF amReady
                     THEN [id \in DOMAIN told \cup sending |->
                             IF id \in sending THEN EndsAt(sent[id])
                                               ELSE told[id]]
                     ELSE told
        /\ phase' = "idle" /\ lastRound' = now
        /\ UNCHANGED <<now, obs, lastData, handledRestart, saved, trusted,
                       amReady>>
    BY <1>4 DEF SendAlerts
  <2> HIDE DEF sending, sent
  <2> QED
    BY <2>1, <2>2, <2>3, <2>4 DEF TypeOK
<1>5. CASE OrgLookupFails
  BY <1>5 DEF OrgLookupFails, TypeOK
<1>6. CASE ServerSynced
  BY <1>6 DEF ServerSynced, TypeOK
<1>7. CASE Restart
  BY <1>7 DEF Restart, TypeOK, EmptyMap
<1>8. CASE UNCHANGED vars
  BY <1>8 DEF vars, TypeOK
<1> QED
  BY <1>1, <1>2, <1>3, <1>4, <1>5, <1>6, <1>7, <1>8 DEF Next

(***************************************************************************)
(* The rule's state keeps its types in every behaviour.                    *)
(***************************************************************************)
THEOREM TypeCorrect == Spec => []TypeOK
<1>1. Init => TypeOK
  <2> SUFFICES ASSUME Init PROVE TypeOK
    OBVIOUS
  <2>1. now \in Nat /\ lastRound \in Nat /\ lastData \in Nat
    BY TimeAssumption DEF Init
  <2>2. obs \in [Series -> Observation]
    BY DEF Init, Observation
  <2>3. DOMAIN Active = {} /\ DOMAIN saved = {} /\ DOMAIN told = {}
    BY DEF Init, EmptyMap
  <2>4. /\ Active \in [DOMAIN Active -> Alert]
        /\ saved \in [DOMAIN saved -> HistoryState]
        /\ told \in [DOMAIN told -> Nat]
    BY DEF Init, EmptyMap
  <2> QED
    BY <2>1, <2>2, <2>3, <2>4 DEF Init, TypeOK
<1>2. TypeOK /\ [Next]_vars => TypeOK'
  BY TypeStep
<1> QED
  BY <1>1, <1>2, PTL DEF Spec

(***************************************************************************)
(* Advancing an alert leaves what was sent of it alone, and either         *)
(* resolves it now or leaves its resolution alone.                         *)
(***************************************************************************)
LEMMA AdvanceClocks ==
    ASSUME NEW a \in Alert, NEW ts \in Nat, NEW b,
           b = Turn(Fire(a, ts)) \/ b = Resolve(a, ts)
    PROVE  /\ b.LastSentAt = a.LastSentAt
           /\ b.ValidUntil = a.ValidUntil
           /\ \/ /\ a.State # "inactive"
                 /\ b.State = "inactive"
                 /\ b.ResolvedAt = ts
              \/ /\ b.ResolvedAt = a.ResolvedAt
                 /\ b.State = "inactive" <=> a.State = "inactive"
                 /\ b.State = "pending" => a.State = "pending"
<1>1. CASE b = Resolve(a, ts)
  BY <1>1 DEF Resolve, Alert, AlertState
<1>2. CASE b = Turn(Fire(a, ts))
  <2> DEFINE c == Fire(a, ts)
  <2>1. /\ c \in Alert
        /\ c.LastSentAt = a.LastSentAt
        /\ c.ValidUntil = a.ValidUntil
        /\ c.ResolvedAt = a.ResolvedAt
        /\ c.State = "inactive" <=> a.State = "inactive"
        /\ c.State = "pending" => a.State = "pending"
    BY DEF Fire, Fires, Alert, AlertState
  <2>2. b = Turn(c)
    BY <1>2
  <2> HIDE DEF c
  <2> QED
    BY <2>1, <2>2 DEF Turn, Turns, Alert, AlertState
<1> QED
  BY <1>1, <1>2

(***************************************************************************)
(* After the merge an alert is either new, or still the one it was as far  *)
(* as its state and its clocks go.                                         *)
(***************************************************************************)
LEMMA MergedClocks ==
    ASSUME TypeOK, NEW res, NEW ts \in Nat,
           NEW id \in DOMAIN Active \cup DOMAIN res,
           NEW a, a = Merged(res, ts)[id]
    PROVE  \/ /\ a.State = "pending"
              /\ a.LastSentAt = 0
              /\ a.ResolvedAt = 0
           \/ /\ id \in DOMAIN Active
              /\ a.State = Active[id].State
              /\ a.LastSentAt = Active[id].LastSentAt
              /\ a.ValidUntil = Active[id].ValidUntil
              /\ a.ResolvedAt = Active[id].ResolvedAt
<1>1. a = IF id \notin DOMAIN res
            THEN Active[id]
            ELSE IF id \in DOMAIN Active /\ Active[id].State # "inactive"
              THEN [Active[id] EXCEPT !.Missing = res[id].Missing,
                                      !.IsRecovering = res[id].IsRecovering]
              ELSE NewAlert(res[id], ts)
  BY DEF Merged
<1>2. id \in DOMAIN Active => Active[id] \in Alert
  BY DEF TypeOK
<1>3. CASE id \notin DOMAIN res
  BY <1>1, <1>3
<1>4. CASE id \in DOMAIN res /\ id \in DOMAIN Active
              /\ Active[id].State # "inactive"
  BY <1>1, <1>2, <1>4 DEF Alert
<1>5. CASE id \in DOMAIN res /\ ~(id \in DOMAIN Active
              /\ Active[id].State # "inactive")
  BY <1>1, <1>5 DEF NewAlert
<1> QED
  BY <1>3, <1>4, <1>5

(***************************************************************************)
(* What an evaluation leaves of an alert: it is new, or it was resolved    *)
(* just now, or its clocks did not move.                                   *)
(***************************************************************************)
LEMMA EvalClocks ==
    ASSUME TypeOK, NEW missed \in MissedTicks,
           NEW o \in [Series -> Observation], NEW written \in BOOLEAN,
           Eval(missed, o, written), NEW id \in DOMAIN Active'
    PROVE  LET b == Active'[id]
           IN  /\ b \in Alert
               /\ \/ /\ b.LastSentAt = 0
                     /\ \/ b.State = "inactive" /\ b.ResolvedAt = now'
                        \/ b.State # "inactive" /\ b.ResolvedAt = 0
                  \/ /\ id \in DOMAIN Active
                     /\ b.LastSentAt = Active[id].LastSentAt
                     /\ b.ValidUntil = Active[id].ValidUntil
                     /\ \/ b.State = "inactive" /\ b.ResolvedAt = now'
                        \/ /\ b.ResolvedAt = Active[id].ResolvedAt
                           /\ b.State = "inactive" <=>
                                Active[id].State = "inactive"
                           /\ b.State = "pending" =>
                                Active[id].State = "pending"
<1> DEFINE res == Result(o, now')
           m == Merged(res, now')
<1>1. now' \in Nat
  BY TickForward DEF Eval
<1>2. /\ m \in [DOMAIN m -> Alert]
      /\ DOMAIN Evaluated(m, res, now') \subseteq DOMAIN m
      /\ Evaluated(m, res, now') \in [DOMAIN Evaluated(m, res, now') -> Alert]
  BY <1>1, EvaluatedType
<1>3. Active' = Evaluated(m, res, now')
  BY DEF Eval
<1>4. DOMAIN m = DOMAIN Active \cup DOMAIN res
  BY DEF Merged
<1> DEFINE a == m[id]
           b == Active'[id]
<1>5. a \in Alert /\ b \in Alert /\ id \in DOMAIN Active \cup DOMAIN res
  BY <1>2, <1>3, <1>4
<1>6. b = Turn(Fire(a, now')) \/ b = Resolve(a, now')
  BY <1>3 DEF Evaluated, Advance
<1>7. \/ /\ a.State = "pending"
         /\ a.LastSentAt = 0
         /\ a.ResolvedAt = 0
      \/ /\ id \in DOMAIN Active
         /\ a.State = Active[id].State
         /\ a.LastSentAt = Active[id].LastSentAt
         /\ a.ValidUntil = Active[id].ValidUntil
         /\ a.ResolvedAt = Active[id].ResolvedAt
  BY <1>1, <1>5, MergedClocks
<1> HIDE DEF a, b
<1>8. /\ b.LastSentAt = a.LastSentAt
      /\ b.ValidUntil = a.ValidUntil
      /\ \/ /\ a.State # "inactive"
            /\ b.State = "inactive"
            /\ b.ResolvedAt = now'
         \/ /\ b.ResolvedAt = a.ResolvedAt
            /\ b.State = "inactive" <=> a.State = "inactive"
            /\ b.State = "pending" => a.State = "pending"
  BY <1>1, <1>5, <1>6, AdvanceClocks
<1> QED
  BY <1>5, <1>7, <1>8 DEF b

(***************************************************************************)
(* Every action keeps the delivery invariant.                              *)
(***************************************************************************)
LEMMA DeliveryStep ==
    ASSUME TypeOK, TypeOK', DeliveryInv, [Next]_vars
    PROVE  DeliveryInv'
<1> USE TimeAssumption
<1> DEFINE Steady == /\ UNCHANGED <<Active, lastRound, told, amReady>>
                     /\ now' \in Nat /\ now' >= now
                     /\ phase' = "evaluated" => lastRound' < now'
<1>1. ASSUME Steady PROVE DeliveryInv'
  <2>1. ASSUME NEW id \in DOMAIN Active' PROVE AlertClocks(id)'
    <3>1. AlertClocks(id) /\ Active[id] \in Alert
      BY <1>1, <2>1 DEF DeliveryInv, TypeOK
    <3> QED
      BY <1>1, <3>1 DEF AlertClocks, EndsAt, Delta, TypeOK, Alert
  <2> QED
    BY <1>1, <2>1 DEF DeliveryInv, TypeOK
<1>2. ASSUME NEW missed \in MissedTicks, NEW o \in [Series -> Observation],
             NEW written \in BOOLEAN, Eval(missed, o, written)
      PROVE  DeliveryInv'
  <2>1. now' \in Nat /\ now' > now
    BY <1>2, TickForward DEF Eval
  <2>2. UNCHANGED <<lastRound, amReady, told>>
    BY <1>2 DEF Eval
  <2>3. ASSUME NEW id \in DOMAIN Active' PROVE AlertClocks(id)'
    <3> DEFINE b == Active'[id]
    <3>1. /\ b \in Alert
          /\ \/ /\ b.LastSentAt = 0
                /\ \/ b.State = "inactive" /\ b.ResolvedAt = now'
                   \/ b.State # "inactive" /\ b.ResolvedAt = 0
             \/ /\ id \in DOMAIN Active
                /\ b.LastSentAt = Active[id].LastSentAt
                /\ b.ValidUntil = Active[id].ValidUntil
                /\ \/ b.State = "inactive" /\ b.ResolvedAt = now'
                   \/ /\ b.ResolvedAt = Active[id].ResolvedAt
                      /\ b.State = "inactive" <=> Active[id].State = "inactive"
                      /\ b.State = "pending" => Active[id].State = "pending"
      BY <1>2, <2>3, EvalClocks
    <3>2. /\ lastRound <= now /\ StartTime <= now
          /\ lastRound \in Nat /\ now \in Nat
          /\ id \in DOMAIN Active => AlertClocks(id) /\ Active[id] \in Alert
          /\ id \in DOMAIN told => told[id] \in Nat
      BY DEF DeliveryInv, TypeOK
    <3> HIDE DEF b
    <3>3. Delta \in Nat
      BY DEF Delta
    <3>4. CASE b.LastSentAt = 0
      <4>1. /\ b.State = "inactive" <=> b.ResolvedAt # 0
            /\ b.ResolvedAt <= now'
            /\ b.ResolvedAt > 0 => b.ResolvedAt > lastRound
        BY <3>1, <3>2, <3>4, <2>1 DEF AlertClocks, Alert
      <4> QED
        BY <4>1, <3>1, <3>2, <3>4, <2>1, <2>2 DEF AlertClocks, Alert, b
    <3>5. CASE b.LastSentAt # 0
      <4>1. /\ id \in DOMAIN Active
            /\ AlertClocks(id)
            /\ Active[id] \in Alert
            /\ b.LastSentAt = Active[id].LastSentAt
            /\ b.ValidUntil = Active[id].ValidUntil
            /\ \/ b.State = "inactive" /\ b.ResolvedAt = now'
               \/ /\ b.ResolvedAt = Active[id].ResolvedAt
                  /\ b.State = "inactive" <=> Active[id].State = "inactive"
                  /\ b.State = "pending" => Active[id].State = "pending"
        BY <3>1, <3>2, <3>5
      <4>2. CASE b.State = "inactive" /\ b.ResolvedAt = now'
        <5>1. b.ResolvedAt > b.LastSentAt
          BY <4>1, <4>2, <3>1, <3>2, <2>1 DEF AlertClocks, Alert
        <5> QED
          BY <5>1, <4>1, <4>2, <3>1, <3>2, <3>3, <2>1, <2>2
          DEF AlertClocks, Alert, Delta, b
      <4>3. CASE /\ b.ResolvedAt = Active[id].ResolvedAt
                 /\ b.State = "inactive" <=> Active[id].State = "inactive"
                 /\ b.State = "pending" => Active[id].State = "pending"
        <5>1. EndsAt(b) = EndsAt(Active[id])
          BY <4>1, <4>3 DEF EndsAt
        <5> QED
          BY <5>1, <4>1, <4>3, <3>1, <3>2, <3>3, <2>1, <2>2
          DEF AlertClocks, Alert, Delta, b
      <4> QED
        BY <4>1, <4>2, <4>3
    <3> QED
      BY <3>1, <3>4, <3>5
  <2> QED
    BY <2>1, <2>2, <2>3 DEF DeliveryInv, TypeOK
<1>3. ASSUME NEW missed \in MissedTicks, NEW duplicate \in BOOLEAN,
             EvalFails(missed, duplicate)
      PROVE  DeliveryInv'
  <2>1. Tick(missed) /\ UNCHANGED <<phase, lastRound, Active, amReady, told>>
    BY <1>3 DEF EvalFails
  <2>2. now' \in Nat /\ now' > now /\ now \in Nat
    BY <2>1, TickForward DEF TypeOK
  <2>3. phase' = "idle"
    BY <2>1 DEF Tick
  <2> QED
    BY <1>1, <2>1, <2>2, <2>3
<1>4. CASE SkipForMaintenance
  <2>1. 0 \in MissedTicks
    BY DEF MissedTicks
  <2>2. Tick(0) /\ UNCHANGED <<phase, lastRound, Active, amReady, told>>
    BY <1>4 DEF SkipForMaintenance
  <2>3. now' \in Nat /\ now' > now /\ now \in Nat
    BY <2>1, <2>2, TickForward DEF TypeOK
  <2>4. phase' = "idle"
    BY <2>2 DEF Tick
  <2> QED
    BY <1>1, <2>2, <2>3, <2>4
<1>5. CASE SendAlerts
  <2> DEFINE sending == {id \in DOMAIN Active : NeedsSending(Active[id], now)}
             sent == [id \in DOMAIN Active |->
                        IF id \in sending THEN Sent(Active[id], now)
                                          ELSE Active[id]]
  <2>1. /\ Active' = sent
        /\ told' = IF amReady
                     THEN [id \in DOMAIN told \cup sending |->
                             IF id \in sending THEN EndsAt(sent[id])
                                               ELSE told[id]]
                     ELSE told
        /\ phase' = "idle" /\ lastRound' = now
        /\ UNCHANGED <<now, amReady>>
    BY <1>5 DEF SendAlerts
  <2>2. now > 0 /\ now \in Nat /\ Delta \in Nat
    BY DEF DeliveryInv, TypeOK, Delta
  <2>3. ASSUME NEW id \in DOMAIN Active' PROVE AlertClocks(id)'
    <3>1. id \in DOMAIN Active /\ AlertClocks(id) /\ Active[id] \in Alert
      BY <2>1 DEF DeliveryInv, TypeOK
    <3>2. lastRound <= now /\ lastRound \in Nat
      BY DEF DeliveryInv, TypeOK
    <3>3. CASE id \in sending
      <4>1. /\ Active'[id] = Sent(Active[id], now)
            /\ Active[id].State # "pending"
        BY <2>1, <3>1, <3>3 DEF NeedsSending
      <4>2. id \in DOMAIN told' => told'[id] = EndsAt(Active'[id])
        BY <2>1, <3>3 DEF DeliveryInv
      <4>3. /\ Active'[id].State = Active[id].State
            /\ Active'[id].ResolvedAt = Active[id].ResolvedAt
            /\ Active'[id].LastSentAt = now
            /\ Active'[id].ValidUntil = now + 4 * Delta
        BY <4>1, <3>1 DEF Sent, Alert
      <4>4. lastRound' = now /\ now' = now /\ Delta' = Delta
        BY <2>1 DEF Delta
      <4>5. Active[id].ResolvedAt \in Nat
        BY <3>1 DEF Alert
      <4> HIDE DEF sent, sending
      <4> QED
        BY <4>1, <4>2, <4>3, <4>4, <4>5, <3>1, <2>2 DEF AlertClocks, EndsAt
    <3>4. CASE id \notin sending
      <4>1. /\ Active'[id] = Active[id]
            /\ ~NeedsSending(Active[id], now)
        BY <2>1, <3>1, <3>4
      <4>2. id \in DOMAIN told' => id \in DOMAIN told /\ told'[id] = told[id]
        BY <2>1, <3>4
      <4> HIDE DEF sending, sent
      <4>3. \/ Active[id].State = "pending"
            \/ /\ Active[id].ResolvedAt <= Active[id].LastSentAt
               /\ now <= Active[id].LastSentAt + ResendDelay
        BY <4>1, <3>1, <2>2 DEF NeedsSending, Alert
      <4> QED
        BY <4>1, <4>2, <4>3, <3>1, <3>2, <2>1, <2>2
        DEF AlertClocks, Alert, EndsAt, Delta
    <3> QED
      BY <3>3, <3>4
  <2>4. ~amReady' => DOMAIN told' = {}
    BY <2>1 DEF DeliveryInv
  <2> QED
    BY <2>1, <2>2, <2>3, <2>4 DEF DeliveryInv, TypeOK
<1>6. CASE OrgLookupFails
  <2>1. Steady
    BY <1>6 DEF OrgLookupFails, TypeOK
  <2> QED
    BY <1>1, <2>1
<1>7. CASE ServerSynced
  <2>1. ASSUME NEW id \in DOMAIN Active' PROVE AlertClocks(id)'
    BY <1>7, <2>1 DEF ServerSynced, DeliveryInv, AlertClocks, EndsAt, Delta
  <2> QED
    BY <1>7, <2>1 DEF ServerSynced, DeliveryInv
<1>8. CASE Restart
  BY <1>8 DEF Restart, DeliveryInv, TypeOK, EmptyMap
<1>9. CASE UNCHANGED vars
  BY <1>9 DEF vars, DeliveryInv, AlertClocks, EndsAt, Delta
<1> QED
  BY <1>2, <1>3, <1>4, <1>5, <1>6, <1>7, <1>8, <1>9 DEF Next

(***************************************************************************)
(* The delivery invariant holds in every behaviour.                        *)
(***************************************************************************)
THEOREM Delivery == Spec => [](TypeOK /\ DeliveryInv)
<1>1. Init => DeliveryInv
  BY TimeAssumption DEF Init, DeliveryInv, EmptyMap
<1>2. TypeOK /\ DeliveryInv /\ [Next]_vars => DeliveryInv'
  BY TypeStep, DeliveryStep
<1> QED
  BY <1>1, <1>2, TypeCorrect, PTL DEF Spec

(***************************************************************************)
(* An alert that keeps firing does not expire in Alertmanager, whatever    *)
(* the interval and the resend delay, while skipped rounds leave room for  *)
(* the resend delay in the validity of four intervals.                     *)
(***************************************************************************)
THEOREM FiringStaysAliveHolds == Spec => []FiringStaysAlive
<1>1. TypeOK /\ DeliveryInv => FiringStaysAlive
  <2> SUFFICES ASSUME TypeOK, DeliveryInv,
                      now - lastRound + ResendDelay < 4 * Delta,
                      NEW id \in DOMAIN Active \cap DOMAIN told,
                      Live(Active[id]), Active[id].LastSentAt # 0
               PROVE  told[id] > now
    BY DEF FiringStaysAlive
  <2>1. /\ Active[id] \in Alert /\ AlertClocks(id)
        /\ now \in Nat /\ lastRound \in Nat
    BY DEF TypeOK, DeliveryInv
  <2>2. Delta \in Nat /\ ResendDelay \in Nat
    BY TimeAssumption DEF Delta
  <2>3. Active[id].ResolvedAt = 0
    BY <2>1 DEF AlertClocks, Live
  <2>4. /\ told[id] = Active[id].LastSentAt + 4 * Delta
        /\ lastRound <= Active[id].LastSentAt + ResendDelay
    BY <2>1, <2>3 DEF AlertClocks, EndsAt, Alert
  <2> QED
    BY <2>1, <2>2, <2>4 DEF Alert
<1> QED
  BY <1>1, Delivery, PTL

(***************************************************************************)
(* After a complete round Alertmanager holds no alert to be firing that    *)
(* the rule has resolved.                                                  *)
(***************************************************************************)
THEOREM ResolvedIsReportedHolds == Spec => []ResolvedIsReported
<1>1. TypeOK /\ DeliveryInv => ResolvedIsReported
  <2> SUFFICES ASSUME TypeOK, DeliveryInv, lastRound = now,
                      NEW id \in DOMAIN Active \cap DOMAIN told,
                      Active[id].State = "inactive"
               PROVE  told[id] <= now
    BY DEF ResolvedIsReported
  <2>1. /\ Active[id] \in Alert /\ AlertClocks(id)
        /\ now \in Nat
    BY DEF TypeOK, DeliveryInv
  <2> QED
    BY <2>1 DEF AlertClocks, EndsAt, Alert
<1> QED
  BY <1>1, Delivery, PTL

NonePending == \A id \in DOMAIN Active : Active[id].State # "pending"

(***************************************************************************)
(* Without a hold duration no alert is left pending by an evaluation.      *)
(***************************************************************************)
LEMMA NonePendingStep ==
    ASSUME HoldDuration = 0, TypeOK, NonePending, [Next]_vars
    PROVE  NonePending'
<1>1. ASSUME NEW missed \in MissedTicks, NEW o \in [Series -> Observation],
             NEW written \in BOOLEAN, Eval(missed, o, written)
      PROVE  NonePending'
  <2> SUFFICES ASSUME NEW id \in DOMAIN Active'
               PROVE  Active'[id].State # "pending"
    BY DEF NonePending
  <2> DEFINE res == Result(o, now')
             m == Merged(res, now')
             a == m[id]
  <2>1. now' \in Nat
    BY <1>1, TickForward DEF Eval
  <2>2. /\ m \in [DOMAIN m -> Alert]
        /\ DOMAIN Evaluated(m, res, now') \subseteq DOMAIN m
    BY <2>1, EvaluatedType
  <2>3. Active' = Evaluated(m, res, now')
    BY <1>1 DEF Eval
  <2>4. /\ id \in DOMAIN m /\ a \in Alert
        /\ Active'[id] = Advance(a, id \in DOMAIN res, now')
    BY <2>2, <2>3 DEF Evaluated
  <2>5. a.State = "pending" => id \in DOMAIN res /\ a.ActiveAt = now'
    <3>1. id \in DOMAIN Active \cup DOMAIN res
      BY <2>4 DEF Merged
    <3>2. a = IF id \notin DOMAIN res
                THEN Active[id]
                ELSE IF id \in DOMAIN Active /\ Active[id].State # "inactive"
                  THEN [Active[id] EXCEPT !.Missing = res[id].Missing,
                                     !.IsRecovering = res[id].IsRecovering]
                  ELSE NewAlert(res[id], now')
      BY <3>1 DEF Merged
    <3>3. id \in DOMAIN Active =>
              Active[id] \in Alert /\ Active[id].State # "pending"
      BY DEF TypeOK, NonePending
    <3> HIDE DEF a, m, res
    <3> QED
      BY <3>1, <3>2, <3>3 DEF NewAlert, Alert
  <2> HIDE DEF a, m, res
  <2>6. CASE id \in DOMAIN res
    <3>1. Active'[id] = Turn(Fire(a, now'))
      BY <2>4, <2>6 DEF Advance
    <3>2. Fire(a, now') \in Alert /\ Fire(a, now').State # "pending"
      <4>1. CASE a.State = "pending"
        <5>1. now' - a.ActiveAt >= HoldDuration
          BY <2>1, <2>5, <4>1
        <5>2. Fire(a, now') = [a EXCEPT !.State = "firing", !.FiredAt = now']
          BY <4>1, <5>1 DEF Fire, Fires
        <5> QED
          BY <5>2, <2>1, <2>4 DEF Alert, AlertState
      <4>2. CASE a.State # "pending"
        BY <2>4, <4>2 DEF Fire, Fires
      <4> QED
        BY <4>1, <4>2
    <3> QED
      BY <3>1, <3>2 DEF Turn, Turns, Alert, AlertState
  <2>7. CASE id \notin DOMAIN res
    <3>1. Active'[id] = Resolve(a, now')
      BY <2>4, <2>7 DEF Advance
    <3> QED
      BY <3>1, <2>4, <2>5, <2>7 DEF Resolve, Alert
  <2> QED
    BY <2>6, <2>7
<1>2. CASE SendAlerts
  <2> SUFFICES ASSUME NEW id \in DOMAIN Active'
               PROVE  Active'[id].State # "pending"
    BY DEF NonePending
  <2>1. /\ id \in DOMAIN Active
        /\ Active'[id] = Active[id] \/ Active'[id] = Sent(Active[id], now)
    BY <1>2 DEF SendAlerts
  <2>2. Active[id] \in Alert
    BY <2>1 DEF TypeOK
  <2> QED
    BY <2>1, <2>2 DEF Sent, Alert, NonePending
<1>3. CASE Restart
  BY <1>3 DEF Restart, NonePending, EmptyMap
<1>4. CASE UNCHANGED Active
  BY <1>4 DEF NonePending
<1> QED
  BY <1>1, <1>2, <1>3, <1>4
  DEF Next, EvalFails, SkipForMaintenance, OrgLookupFails, ServerSynced, vars

(***************************************************************************)
(* Eval drops an alert that Alertmanager holds to be firing only after a   *)
(* silence longer than the retention.                                      *)
(***************************************************************************)
LEMMA NoSilentDropStep ==
    ASSUME MaxQuiet <= ResolvedRetention, TypeOK, TypeOK', DeliveryInv,
           NonePending, NoSilentDrop, [Next]_vars
    PROVE  NoSilentDrop'
<1>1. ASSUME NEW missed \in MissedTicks, NEW o \in [Series -> Observation],
             NEW written \in BOOLEAN, Eval(missed, o, written)
      PROVE  NoSilentDrop'
  <2>1. now' \in Nat /\ now' > now /\ now' - lastRound <= MaxQuiet
    BY <1>1, TickForward DEF Eval
  <2>2. UNCHANGED told
    BY <1>1 DEF Eval
  <2> SUFFICES ASSUME NEW id \in DOMAIN told, told[id] > now'
               PROVE  id \in DOMAIN Active'
    BY <2>2 DEF NoSilentDrop
  <2> DEFINE res == Result(o, now')
             m == Merged(res, now')
  <2>3. /\ id \in DOMAIN Active /\ AlertClocks(id) /\ Active[id] \in Alert
        /\ Active[id].State # "pending"
        /\ told[id] \in Nat /\ now \in Nat /\ lastRound \in Nat
    BY <2>1 DEF NoSilentDrop, DeliveryInv, TypeOK, NonePending
  <2>4. id \in DOMAIN m /\ DOMAIN Active' = {x \in DOMAIN m :
                                ~Over(m[x], x \in DOMAIN res, now')}
    BY <1>1, <2>3 DEF Eval, Evaluated, Merged
  <2>5. id \notin DOMAIN res => m[id] = Active[id]
    BY <2>3 DEF Merged
  <2> HIDE DEF m, res
  <2>6. ~(Active[id].ResolvedAt # 0
              /\ now' - Active[id].ResolvedAt > ResolvedRetention)
    <3> SUFFICES ASSUME Active[id].ResolvedAt # 0,
                        now' - Active[id].ResolvedAt > ResolvedRetention
                 PROVE  FALSE
      OBVIOUS
    <3>1. CASE Active[id].ResolvedAt > Active[id].LastSentAt
      <4>1. Active[id].ResolvedAt > lastRound
        BY <2>3, <3>1 DEF AlertClocks
      <4> QED
        <5>1. Active[id].ResolvedAt \in Nat /\ ResolvedRetention \in Nat
              /\ MaxQuiet \in Nat
          BY <2>3, TimeAssumption DEF Alert
        <5>2. \A t, r, l \in Nat :
                  t - l <= MaxQuiet /\ r > l => ~(t - r > ResolvedRetention)
          BY <5>1
        <5> QED
          BY <4>1, <5>1, <5>2, <2>1, <2>3
    <3>2. CASE ~(Active[id].ResolvedAt > Active[id].LastSentAt)
      <4>1. told[id] = Active[id].ResolvedAt
        BY <2>3, <3>2 DEF AlertClocks, EndsAt, Alert
      <4> QED
        BY <4>1, <2>1, <2>3 DEF AlertClocks, Alert
    <3> QED
      BY <3>1, <3>2
  <2> QED
    BY <2>3, <2>4, <2>5, <2>6 DEF Over
<1>2. ASSUME UNCHANGED <<Active, told>>, now' >= now
      PROVE  NoSilentDrop'
  BY <1>2 DEF NoSilentDrop, TypeOK
<1>3. ASSUME NEW missed \in MissedTicks, NEW duplicate \in BOOLEAN,
             EvalFails(missed, duplicate)
      PROVE  NoSilentDrop'
  <2>1. Tick(missed) /\ UNCHANGED <<Active, told>>
    BY <1>3 DEF EvalFails
  <2>2. now' >= now
    BY <2>1, TickForward DEF TypeOK
  <2> QED
    BY <1>2, <2>1, <2>2
<1>4. CASE SkipForMaintenance
  <2>1. Tick(0) /\ UNCHANGED <<Active, told>> /\ 0 \in MissedTicks
    BY <1>4 DEF SkipForMaintenance, MissedTicks
  <2>2. now' >= now
    BY <2>1, TickForward DEF TypeOK
  <2> QED
    BY <1>2, <2>1, <2>2
<1>5. CASE SendAlerts
  <2>1. /\ DOMAIN Active' = DOMAIN Active
        /\ now' = now
        /\ \A id \in DOMAIN told' :
              id \in DOMAIN Active \/ (id \in DOMAIN told /\ told'[id] = told[id])
    BY <1>5 DEF SendAlerts
  <2> QED
    BY <2>1 DEF NoSilentDrop
<1>6. CASE Restart
  BY <1>6 DEF Restart, NoSilentDrop, EmptyMap
<1>7. CASE UNCHANGED <<Active, told, now>>
  BY <1>2, <1>7 DEF TypeOK
<1> QED
  BY <1>1, <1>3, <1>4, <1>5, <1>6, <1>7
  DEF Next, OrgLookupFails, ServerSynced, vars

(***************************************************************************)
(* The rule forgets no alert that Alertmanager holds to be firing, when it *)
(* never goes longer than ResolvedRetention without a complete round (the  *)
(* code sets no hold duration).                                            *)
(***************************************************************************)
THEOREM NoSilentDropHolds ==
    ASSUME HoldDuration = 0, MaxQuiet <= ResolvedRetention
    PROVE  Spec => []NoSilentDrop
<1>1. Init => NonePending /\ NoSilentDrop
  BY DEF Init, NonePending, NoSilentDrop, EmptyMap
<1>2. TypeOK /\ NonePending /\ [Next]_vars => NonePending'
  BY NonePendingStep
<1>3. TypeOK /\ TypeOK' /\ DeliveryInv /\ NonePending /\ NoSilentDrop
          /\ [Next]_vars => NoSilentDrop'
  BY NoSilentDropStep
<1> QED
  BY <1>1, <1>2, <1>3, Delivery, PTL DEF Spec

-----------------------------------------------------------------------------
(***************************************************************************)
(* The state history.  The alerts of missing data are those of lastSeen    *)
(* labels; a history that is trusted has been reconciled.                  *)
(***************************************************************************)
MissingInv == \A id \in DOMAIN Active : Active[id].Missing = (id[1] = "nodata")

HistoryInv == MissingInv /\ (trusted => handledRestart) /\ HistoryHonest

\* The state of an alert as the history writes it.
Shown(a) == IF a.State = "firing" /\ a.Missing THEN "nodata" ELSE a.State

\* The samples: one of missing data alone, or those of series.
Alone(res) ==
    \A i, j \in DOMAIN res : res[i].Missing => i = j

(***************************************************************************)
(* buildAndRunQuery: a sample of missing data is alone and has its label;  *)
(* without active alerts no sample is recovering.                          *)
(***************************************************************************)
LEMMA ResultSamples ==
    ASSUME NEW o \in [Series -> Observation], NEW ts \in Nat, lastData \in Nat
    PROVE  LET res == Result(o, ts)
           IN  /\ Alone(res)
               /\ \A id \in DOMAIN res : res[id].Missing = (id[1] = "nodata")
               /\ DOMAIN Active = {} =>
                     \A id \in DOMAIN res : res[id].IsRecovering = FALSE
<1> DEFINE ld == LastData(o, ts)
           none == [id \in {NoDataId(ld)} |->
                      [Missing |-> TRUE, IsRecovering |-> FALSE]]
           some == ThresholdSamples(o)
<1>1. Result(o, ts) = none \/ Result(o, ts) = some
  BY DEF Result
<1>2. /\ Alone(none)
      /\ \A id \in DOMAIN none :
            none[id].Missing = (id[1] = "nodata") /\ none[id].IsRecovering = FALSE
  <2>1. NoDataId(ld)[1] = "nodata"
    BY DEF NoDataId
  <2>2. /\ DOMAIN none = {NoDataId(ld)}
        /\ none[NoDataId(ld)] = [Missing |-> TRUE, IsRecovering |-> FALSE]
    OBVIOUS
  <2> HIDE DEF none, ld
  <2>3. \A id \in DOMAIN none :
           /\ id[1] = "nodata" /\ none[id].Missing = TRUE
           /\ none[id].IsRecovering = FALSE
    BY <2>1, <2>2
  <2>4. Alone(none)
    BY <2>2 DEF Alone
  <2> QED
    BY <2>3, <2>4
<1>3. \A id \in DOMAIN some :
         /\ some[id].Missing = FALSE /\ id[1] = "series"
         /\ some[id].IsRecovering = (o[id[2]] = "recovery")
  <2> SUFFICES ASSUME NEW id \in DOMAIN some
               PROVE  /\ some[id].Missing = FALSE /\ id[1] = "series"
                      /\ some[id].IsRecovering = (o[id[2]] = "recovery")
    OBVIOUS
  <2>1. PICK x \in Series : id = SeriesId(x)
    BY DEF ThresholdSamples
  <2>2. id[1] = "series"
    BY <2>1 DEF SeriesId
  <2>3. some[id] = [Missing |-> FALSE, IsRecovering |-> o[id[2]] = "recovery"]
    BY DEF ThresholdSamples
  <2> HIDE DEF some
  <2> QED
    BY <2>2, <2>3
<1>4. ASSUME DOMAIN Active = {}, NEW id \in DOMAIN some
      PROVE  some[id].IsRecovering = FALSE
  <2>1. PICK x \in Series : id = SeriesId(x) /\ o[x] = "target"
    BY <1>4 DEF ThresholdSamples, HasActiveAlert
  <2>2. id[2] = x
    BY <2>1 DEF SeriesId
  <2> QED
    BY <1>3, <2>1, <2>2
<1> HIDE DEF none, some
<1>5. Alone(some)
  BY <1>3 DEF Alone
<1> QED
  BY <1>1, <1>2, <1>3, <1>4, <1>5

\* The end of two items.
LEMMA PairEnds ==
    ASSUME NEW x, NEW y
    PROVE  LET q == <<x>> \o <<y>> IN q # <<>> /\ q[Len(q)] = y
<1> DEFINE S == {x, y}
           u == <<x>>
           v == <<y>>
           q == u \o v
<1>1. u \in Seq(S) /\ v \in Seq(S) /\ Len(u) = 1 /\ Len(v) = 1 /\ v[1] = y
  OBVIOUS
<1> HIDE DEF u, v, S
<1>2. /\ Len(q) = Len(u) + Len(v)
      /\ \A i \in 1 .. Len(u) + Len(v) : q[i] = IF i <= Len(u) THEN u[i] ELSE v[i - Len(u)]
  BY <1>1, ConcatProperties
<1>3. Len(q) = 2 /\ q[2] = v[1]
  BY <1>1, <1>2
<1> HIDE DEF q
<1>4. q # <<>> /\ q[Len(q)] = y
  BY <1>1, <1>3
<1> QED
  BY <1>4 DEF q, u, v

(***************************************************************************)
(* Advancing changes no more than the state, and the items say so: the     *)
(* last one is the state that the alert has then, and there is none when   *)
(* it keeps the state.                                                     *)
(***************************************************************************)
LEMMA ItemsEnd ==
    ASSUME NEW a \in Alert, NEW ts \in Nat, NEW inResult \in BOOLEAN
    PROVE  LET b  == Advance(a, inResult, ts)
               it == Items(a, inResult, ts)
           IN  /\ b.Missing = a.Missing /\ b.State \in AlertState
               /\ ~inResult => b.State = "inactive"
               /\ it = <<>> => b.State = a.State
               /\ it # <<>> => it[Len(it)] = Shown(b)
               /\ it # <<>> /\ ~a.IsRecovering /\ a.State = "pending" =>
                    Head(it) = it[Len(it)]
<1> DEFINE b == Advance(a, inResult, ts)
           it == Items(a, inResult, ts)
           f == Fire(a, ts)
           t == Turn(f)
           first == IF Fires(a, ts) THEN <<IF a.Missing THEN "nodata" ELSE "firing">> ELSE <<>>
           second == IF Turns(f) THEN <<t.State>> ELSE <<>>
<1>1. /\ f \in Alert /\ f.Missing = a.Missing /\ f.IsRecovering = a.IsRecovering
      /\ IF Fires(a, ts) THEN a.State = "pending" /\ f.State = "firing" ELSE f = a
  BY DEF Fire, Fires, Alert, AlertState
<1>2. /\ t \in Alert /\ t.Missing = f.Missing
      /\ IF Turns(f)
           THEN \/ f.State = "firing" /\ f.IsRecovering /\ t.State = "recovering"
                \/ f.State = "recovering" /\ ~f.Missing /\ t.State = "firing"
           ELSE t = f
  <2> HIDE DEF f
  <2> QED
    BY <1>1 DEF Turn, Turns, Alert, AlertState
<1>3. CASE ~inResult
  <2>1. b = Resolve(a, ts) /\ it = IF a.State # "inactive" THEN <<"inactive">> ELSE <<>>
    BY <1>3 DEF Advance, Items
  <2>2. b.Missing = a.Missing /\ b.State = "inactive"
    BY <2>1 DEF Resolve, Alert
  <2>3. it # <<>> => it = <<"inactive">>
    BY <2>1
  <2>4. a.State = "pending" => it = <<"inactive">>
    BY <2>1
  <2>5. it = <<>> => a.State = "inactive"
    BY <2>1
  <2> HIDE DEF b, it
  <2>6. it # <<>> => it[Len(it)] = "inactive" /\ Head(it) = "inactive"
    BY <2>3
  <2>7. b.State \in AlertState /\ Shown(b) = "inactive"
    BY <2>2 DEF Shown, AlertState
  <2> QED
    BY <1>3, <2>2, <2>5, <2>6, <2>7 DEF b, it
<1>4. CASE inResult
  <2>1. b = t /\ it = first \o second
    BY <1>4 DEF Advance, Items
  <2>2. b.Missing = a.Missing /\ b.State \in AlertState
    BY <1>1, <1>2, <2>1 DEF Alert
  <2> HIDE DEF b, it, t, f
  <2>3. CASE Fires(a, ts) /\ Turns(f)
    <3>1. t.State = "recovering" /\ f.IsRecovering /\ a.IsRecovering
      BY <1>1, <1>2, <2>3
    <3> DEFINE x == IF a.Missing THEN "nodata" ELSE "firing"
    <3>2. it = <<x>> \o <<t.State>>
      BY <2>1, <2>3
    <3> HIDE DEF x
    <3>3. it # <<>> /\ it[Len(it)] = t.State
      BY <3>2, PairEnds
    <3> QED
      BY <1>4, <2>1, <2>2, <3>1, <3>3 DEF Shown, b, it
  <2>4. CASE Fires(a, ts) /\ ~Turns(f)
    <3>1. t.State = "firing" /\ t.Missing = a.Missing
      BY <1>1, <1>2, <2>4
    <3>2. it = <<IF a.Missing THEN "nodata" ELSE "firing">>
      BY <2>1, <2>4
    <3>3. it # <<>> /\ it[Len(it)] = (IF a.Missing THEN "nodata" ELSE "firing")
          /\ Head(it) = it[Len(it)]
      BY <3>2
    <3> QED
      BY <1>4, <2>1, <2>2, <3>1, <3>3 DEF Shown, b, it
  <2>5. CASE ~Fires(a, ts) /\ Turns(f)
    <3>1. f = a /\ t.Missing = a.Missing
      BY <1>1, <1>2, <2>5
    <3>2. it = <<t.State>>
      BY <2>1, <2>5
    <3>3. it # <<>> /\ it[Len(it)] = t.State /\ Head(it) = t.State
      BY <3>2
    <3>4. Shown(t) = t.State
      BY <1>1, <1>2, <2>5, <3>1 DEF Shown
    <3> QED
      BY <1>4, <2>1, <2>2, <3>3, <3>4 DEF b, it
  <2>6. CASE ~Fires(a, ts) /\ ~Turns(f)
    <3>1. it = <<>> /\ b = a
      BY <1>1, <1>2, <2>1, <2>6
    <3> QED
      BY <1>4, <2>2, <3>1 DEF b, it
  <2> QED
    BY <2>3, <2>4, <2>5, <2>6
<1> QED
  BY <1>3, <1>4

(***************************************************************************)
(* RecordRuleStateHistory: an alert with items has the state of its last   *)
(* one, on a restart too if it has one item; of the others the state stays *)
(* or, on a restart, what is saved as firing is closed.                    *)
(***************************************************************************)
LEMMA RecordedEntries ==
    ASSUME NEW items, NEW id
    PROVE  LET rec  == Recorded(items)
               has  == id \in DOMAIN items /\ items[id] # <<>>
               last == items[id][Len(items[id])]
           IN  /\ has /\ (handledRestart \/ Head(items[id]) = last) =>
                    id \in DOMAIN rec /\ rec[id] = last
               /\ ~has /\ handledRestart =>
                    /\ id \in DOMAIN rec <=> id \in DOMAIN saved
                    /\ id \in DOMAIN saved => rec[id] = saved[id]
               /\ ~has /\ ~handledRestart /\ id \in DOMAIN rec =>
                    rec[id] \notin {"firing", "nodata"}
<1> DEFINE has == {x \in DOMAIN items : items[x] # <<>>}
           last(x) == items[x][Len(items[x])]
           restart == ~handledRestart /\ DOMAIN saved # {}
           W == IF restart
                  THEN {x \in DOMAIN saved :
                          IF x \in has THEN saved[x] # last(x)
                            ELSE saved[x] \in {"firing", "nodata"}}
                       \cup (has \ DOMAIN saved)
                  ELSE has
           state(x) == IF ~restart THEN last(x)
                       ELSE IF x \notin DOMAIN saved THEN Head(items[x])
                       ELSE IF x \in has THEN last(x) ELSE "inactive"
           rec == Recorded(items)
<1>1. rec = [x \in DOMAIN saved \cup W |-> IF x \in W THEN state(x) ELSE saved[x]]
  BY DEF Recorded
<1> HIDE DEF rec
<1>2. /\ DOMAIN rec = DOMAIN saved \cup W
      /\ id \in DOMAIN rec => rec[id] = IF id \in W THEN state(id) ELSE saved[id]
  <2> HIDE DEF W, state
  <2> QED
    BY <1>1
<1>3. id \in has <=> id \in DOMAIN items /\ items[id] # <<>>
  OBVIOUS
<1> HIDE DEF has, last
<1>4. CASE restart
  <2>1. id \in W <=> \/ id \in DOMAIN saved /\ (IF id \in has THEN saved[id] # last(id)
                                      ELSE saved[id] \in {"firing", "nodata"})
                     \/ id \in has /\ id \notin DOMAIN saved
    BY <1>4
  <2>2. state(id) = IF id \notin DOMAIN saved THEN Head(items[id])
                    ELSE IF id \in has THEN last(id) ELSE "inactive"
    BY <1>4
  <2>3. ~handledRestart
    BY <1>4
  <2> HIDE DEF W, state, restart
  <2>4. id \in has /\ Head(items[id]) = last(id) => id \in DOMAIN rec /\ rec[id] = last(id)
    BY <1>2, <2>1, <2>2
  <2>5. id \notin has /\ id \in DOMAIN rec => rec[id] \notin {"firing", "nodata"}
    BY <1>2, <2>1, <2>2
  <2> QED
    BY <1>3, <2>3, <2>4, <2>5 DEF last, rec
<1>5. CASE ~restart
  <2>1. W = has /\ state(id) = last(id)
    BY <1>5
  <2>2. ~handledRestart => DOMAIN saved = {}
    BY <1>5
  <2> HIDE DEF W, state, restart
  <2>3. id \in has => id \in DOMAIN rec /\ rec[id] = last(id)
    BY <1>2, <2>1
  <2>4. id \notin has =>
           /\ id \in DOMAIN rec <=> id \in DOMAIN saved
           /\ id \in DOMAIN saved => rec[id] = saved[id]
    BY <1>2, <2>1
  <2> QED
    BY <1>3, <2>2, <2>3, <2>4 DEF last, rec
<1> QED
  BY <1>4, <1>5

(***************************************************************************)
(* What Eval makes of an alert, from the alert that it merged.             *)
(***************************************************************************)
LEMMA EvalAlert ==
    ASSUME TypeOK, NEW o \in [Series -> Observation], NEW ts \in Nat, MissingInv,
           NEW id
    PROVE  LET res == Result(o, ts)
               m   == Merged(res, ts)
               ev  == Evaluated(m, res, ts)
           IN  /\ id \in DOMAIN m <=> id \in DOMAIN Active \/ id \in DOMAIN res
               /\ id \in DOMAIN res => id \in DOMAIN m /\ id \in DOMAIN ev
               /\ id \in DOMAIN ev =>
                    id \in DOMAIN m /\ ev[id] = Advance(m[id], id \in DOMAIN res, ts)
               /\ id \in DOMAIN m =>
                    /\ m[id] \in Alert
                    /\ m[id].Missing = (id[1] = "nodata")
                    /\ \/ /\ id \in DOMAIN Active /\ m[id].State = Active[id].State
                          /\ m[id].Missing = Active[id].Missing
                       \/ /\ m[id].State = "pending"
                          /\ id \in DOMAIN res
                          /\ m[id].IsRecovering = res[id].IsRecovering
                          /\ id \in DOMAIN Active => Active[id].State = "inactive"
               /\ id \in DOMAIN m /\ id \in DOMAIN res =>
                    m[id].Missing = res[id].Missing
<1> DEFINE res == Result(o, ts)
           m == Merged(res, ts)
           ev == Evaluated(m, res, ts)
<1>1. m \in [DOMAIN m -> Alert]
  BY EvaluatedType
<1>2. /\ \A x \in DOMAIN res : res[x] \in Sample
      /\ \A x \in DOMAIN res : res[x].Missing = (x[1] = "nodata")
  BY ResultType, ResultSamples DEF TypeOK
<1> HIDE DEF res
<1>3. /\ DOMAIN m = DOMAIN Active \cup DOMAIN res
      /\ id \in DOMAIN m =>
           m[id] = IF id \notin DOMAIN res
                     THEN Active[id]
                     ELSE IF id \in DOMAIN Active /\ Active[id].State # "inactive"
                       THEN [Active[id] EXCEPT !.Missing = res[id].Missing,
                                               !.IsRecovering = res[id].IsRecovering]
                       ELSE NewAlert(res[id], ts)
  BY DEF Merged
<1> HIDE DEF m
<1>4. /\ DOMAIN ev = {x \in DOMAIN m : ~Over(m[x], x \in DOMAIN res, ts)}
      /\ id \in DOMAIN ev => ev[id] = Advance(m[id], id \in DOMAIN res, ts)
  BY DEF Evaluated
<1> HIDE DEF ev
<1>5. id \in DOMAIN res => id \in DOMAIN ev
  BY <1>3, <1>4 DEF Over
<1>6. id \in DOMAIN Active =>
         Active[id] \in Alert /\ Active[id].Missing = (id[1] = "nodata")
  BY DEF TypeOK, MissingInv
<1>7. ASSUME id \in DOMAIN m
      PROVE  /\ m[id] \in Alert
             /\ m[id].Missing = (id[1] = "nodata")
             /\ \/ /\ id \in DOMAIN Active /\ m[id].State = Active[id].State
                   /\ m[id].Missing = Active[id].Missing
                \/ /\ m[id].State = "pending"
                   /\ id \in DOMAIN res
                   /\ m[id].IsRecovering = res[id].IsRecovering
                   /\ id \in DOMAIN Active => Active[id].State = "inactive"
             /\ id \in DOMAIN res => m[id].Missing = res[id].Missing
  <2>1. m[id] \in Alert
    BY <1>1, <1>7
  <2>2. CASE id \notin DOMAIN res
    BY <1>3, <1>6, <1>7, <2>1, <2>2
  <2>3. CASE id \in DOMAIN res /\ id \in DOMAIN Active /\ Active[id].State # "inactive"
    <3>1. m[id] = [Active[id] EXCEPT !.Missing = res[id].Missing,
                                     !.IsRecovering = res[id].IsRecovering]
      BY <1>3, <1>7, <2>3
    <3>2. m[id].Missing = res[id].Missing /\ m[id].State = Active[id].State
      BY <1>6, <2>3, <3>1 DEF Alert
    <3> QED
      BY <1>2, <1>6, <2>1, <2>3, <3>2
  <2>4. CASE id \in DOMAIN res /\ ~(id \in DOMAIN Active /\ Active[id].State # "inactive")
    <3>1. m[id] = NewAlert(res[id], ts)
      BY <1>3, <1>7, <2>4
    <3>2. /\ m[id].Missing = res[id].Missing /\ m[id].State = "pending"
          /\ m[id].IsRecovering = res[id].IsRecovering
      BY <3>1 DEF NewAlert
    <3> QED
      BY <1>2, <2>1, <2>4, <3>2
  <2> QED
    BY <2>2, <2>3, <2>4
<1> QED
  BY <1>3, <1>4, <1>5, <1>7 DEF ev, m, res

(***************************************************************************)
(* Eval: an alert that is not in the result is resolved, and one that is   *)
(* has the items of its change.                                            *)
(***************************************************************************)
LEMMA EvalHistory ==
    ASSUME TypeOK, HistoryInv, NEW missed \in MissedTicks,
           NEW o \in [Series -> Observation], NEW written \in BOOLEAN,
           Eval(missed, o, written)
    PROVE  HistoryInv' /\ NoDataStandsAlone'
<1> DEFINE res == Result(o, now')
           m == Merged(res, now')
           it(id) == Items(m[id], id \in DOMAIN res, now')
           items == [id \in DOMAIN m |-> it(id)]
           in(id) == id \in DOMAIN res
<1>1. now' \in Nat /\ lastData \in Nat
  BY TickForward DEF Eval, TypeOK
<1>2. /\ Active' = Evaluated(m, res, now')
      /\ saved' = IF written THEN Recorded(items) ELSE saved
      /\ trusted' => written /\ (trusted \/ (DOMAIN Active = {} /\ ~handledRestart))
      /\ handledRestart' = (handledRestart \/ written)
  BY DEF Eval
<1>3. MissingInv /\ (trusted => handledRestart) /\ HistoryHonest
  BY DEF HistoryInv
<1>4. /\ Alone(res)
      /\ DOMAIN Active = {} => \A id \in DOMAIN res : res[id].IsRecovering = FALSE
  BY <1>1, ResultSamples
<1>5. \A id :
        /\ id \in DOMAIN m <=> id \in DOMAIN Active \/ in(id)
        /\ in(id) => id \in DOMAIN Active'
        /\ id \in DOMAIN Active' =>
             id \in DOMAIN m /\ Active'[id] = Advance(m[id], in(id), now')
        /\ id \in DOMAIN m =>
             /\ m[id] \in Alert /\ m[id].Missing = (id[1] = "nodata")
             /\ \/ /\ id \in DOMAIN Active /\ m[id].State = Active[id].State
                   /\ m[id].Missing = Active[id].Missing
                \/ /\ m[id].State = "pending" /\ in(id)
                   /\ m[id].IsRecovering = res[id].IsRecovering
                   /\ id \in DOMAIN Active => Active[id].State = "inactive"
        /\ id \in DOMAIN m /\ in(id) => m[id].Missing = res[id].Missing
  BY <1>1, <1>2, <1>3, EvalAlert
<1>6. DOMAIN items = DOMAIN m /\ \A id \in DOMAIN m : items[id] = it(id)
  OBVIOUS
<1> HIDE DEF m, res, items
<1>7. \A id \in DOMAIN m :
        LET b == Advance(m[id], in(id), now')
        IN  /\ b.Missing = m[id].Missing /\ b.State \in AlertState
            /\ ~in(id) => b.State = "inactive"
            /\ items[id] = <<>> => b.State = m[id].State
            /\ items[id] # <<>> => items[id][Len(items[id])] = Shown(b)
            /\ items[id] # <<>> /\ ~m[id].IsRecovering /\ m[id].State = "pending" =>
                 Head(items[id]) = items[id][Len(items[id])]
  <2> SUFFICES ASSUME NEW id \in DOMAIN m
               PROVE  LET b == Advance(m[id], in(id), now')
                      IN  /\ b.Missing = m[id].Missing /\ b.State \in AlertState
                          /\ ~in(id) => b.State = "inactive"
                          /\ it(id) = <<>> => b.State = m[id].State
                          /\ it(id) # <<>> => it(id)[Len(it(id))] = Shown(b)
                          /\ it(id) # <<>> /\ ~m[id].IsRecovering
                               /\ m[id].State = "pending" =>
                                 Head(it(id)) = it(id)[Len(it(id))]
    BY <1>6
  <2>1. m[id] \in Alert /\ in(id) \in BOOLEAN
    BY <1>5
  <2> QED
    BY <1>1, <2>1, ItemsEnd
<1> HIDE DEF it
<1>8. MissingInv'
  <2> SUFFICES ASSUME NEW id \in DOMAIN Active'
               PROVE  Active'[id].Missing = (id[1] = "nodata")
    BY DEF MissingInv
  <2> QED
    BY <1>5, <1>7
<1>9. NoDataStandsAlone'
  <2> SUFFICES ASSUME NEW i \in DOMAIN Active', NEW j \in DOMAIN Active',
                      Active'[i].Missing, Live(Active'[i]), Live(Active'[j])
               PROVE  i = j
    BY DEF NoDataStandsAlone, Live
  <2>1. in(i) /\ in(j)
    BY <1>5, <1>7 DEF Live
  <2>2. res[i].Missing
    BY <1>5, <1>7, <2>1
  <2> QED
    BY <1>4, <2>1, <2>2 DEF Alone
<1>10. trusted' => handledRestart'
  BY <1>2
<1>11. HistoryHonest'
  <2> SUFFICES ASSUME trusted' PROVE HistoryHonest'
    BY DEF HistoryHonest
  <2> DEFINE has(id) == id \in DOMAIN items /\ items[id] # <<>>
             last(id) == items[id][Len(items[id])]
  <2>1. saved' = Recorded(items)
    BY <1>2
  <2>2. /\ trusted => handledRestart
        /\ ~trusted => DOMAIN Active = {} /\ ~handledRestart
    BY <1>2, <1>3
  <2>3. \A id :
          /\ has(id) /\ (handledRestart \/ Head(items[id]) = last(id)) =>
               id \in DOMAIN saved' /\ saved'[id] = last(id)
          /\ ~has(id) /\ handledRestart =>
               /\ id \in DOMAIN saved' <=> id \in DOMAIN saved
               /\ id \in DOMAIN saved => saved'[id] = saved[id]
          /\ ~has(id) /\ ~handledRestart /\ id \in DOMAIN saved' =>
               saved'[id] \notin {"firing", "nodata"}
    BY <2>1, RecordedEntries
  <2>4. ASSUME NEW id, has(id)
        PROVE  /\ id \in DOMAIN m /\ id \in DOMAIN saved'
               /\ saved'[id] = Shown(Advance(m[id], in(id), now'))
    <3>1. id \in DOMAIN m
      BY <1>6, <2>4
    <3>2. last(id) = Shown(Advance(m[id], in(id), now'))
      BY <1>7, <2>4, <3>1
    <3>3. handledRestart \/ Head(items[id]) = last(id)
      <4> SUFFICES ASSUME ~handledRestart PROVE Head(items[id]) = last(id)
        OBVIOUS
      <4>1. DOMAIN Active = {} /\ in(id)
        BY <1>5, <2>2, <3>1
      <4>2. m[id].State = "pending" /\ m[id].IsRecovering = FALSE
        BY <1>4, <1>5, <3>1, <4>1
      <4> QED
        BY <1>7, <2>4, <3>1, <4>2
    <3> QED
      BY <2>3, <2>4, <3>1, <3>2, <3>3
  <2>5. \A b : b.State \in AlertState /\ Shown(b) \in {"firing", "nodata"} => b.State = "firing"
    BY DEF Shown, AlertState
  <2>6. ASSUME NEW id \in DOMAIN saved', saved'[id] \in {"firing", "nodata"}
        PROVE  id \in DOMAIN Active' /\ Active'[id].State = "firing"
    <3> DEFINE b == Advance(m[id], in(id), now')
    <3>1. id \in DOMAIN m /\ b.State = "firing"
      <4>1. CASE has(id)
        BY <1>7, <2>4, <2>5, <2>6, <4>1
      <4>2. CASE ~has(id)
        <5>1. handledRestart /\ trusted
          BY <2>2, <2>3, <2>6, <4>2
        <5>2. id \in DOMAIN saved /\ saved[id] \in {"firing", "nodata"}
          BY <2>3, <2>6, <4>2, <5>1
        <5>3. id \in DOMAIN Active /\ Active[id].State = "firing"
          BY <1>3, <5>1, <5>2 DEF HistoryHonest
        <5>4. id \in DOMAIN m /\ m[id].State = "firing"
          BY <1>5, <5>3
        <5> QED
          BY <1>6, <1>7, <4>2, <5>4
      <4> QED
        BY <4>1, <4>2
    <3>2. in(id)
      BY <1>7, <3>1
    <3> QED
      BY <1>5, <3>1, <3>2
  <2>7. ASSUME NEW id \in DOMAIN Active', Active'[id].State \in {"firing", "recovering"}
        PROVE  id \in DOMAIN saved' /\ saved'[id] = Shown(Active'[id])
    <3>1. id \in DOMAIN m /\ Active'[id] = Advance(m[id], in(id), now')
      BY <1>5
    <3>2. CASE has(id)
      BY <2>4, <3>1, <3>2
    <3>3. CASE ~has(id)
      <4>1. m[id].State = Active'[id].State /\ Active'[id].Missing = m[id].Missing
        BY <1>6, <1>7, <3>1, <3>3
      <4>2. /\ id \in DOMAIN Active /\ Active[id].State = Active'[id].State
            /\ Active[id].Missing = Active'[id].Missing
        BY <1>5, <2>7, <3>1, <4>1
      <4>3. trusted /\ handledRestart
        BY <2>2, <4>2
      <4>4. id \in DOMAIN saved /\ saved[id] = Shown(Active[id])
        BY <1>3, <2>7, <4>2, <4>3 DEF HistoryHonest, Shown
      <4>5. Shown(Active[id]) = Shown(Active'[id])
        BY <4>2 DEF Shown
      <4> QED
        BY <2>3, <3>3, <4>3, <4>4, <4>5
    <3> QED
      BY <3>2, <3>3
  <2> QED
    BY <2>6, <2>7 DEF HistoryHonest, Shown
<1> QED
  BY <1>8, <1>9, <1>10, <1>11 DEF HistoryInv

(***************************************************************************)
(* No other step changes the state of an alert, and a restart leaves none. *)
(***************************************************************************)
LEMMA HistoryStep ==
    ASSUME TypeOK, HistoryInv, NoDataStandsAlone, [Next]_vars
    PROVE  HistoryInv' /\ NoDataStandsAlone'
<1>1. CASE \E missed \in MissedTicks, o \in [Series -> Observation],
              written \in BOOLEAN : Eval(missed, o, written)
  BY <1>1, EvalHistory
<1>2. CASE SendAlerts
  <2>1. /\ DOMAIN Active' = DOMAIN Active
        /\ \A id \in DOMAIN Active :
             Active'[id] = Active[id] \/ Active'[id] = Sent(Active[id], now)
        /\ UNCHANGED <<saved, trusted, handledRestart>>
    BY <1>2 DEF SendAlerts
  <2>2. \A id \in DOMAIN Active : Active[id] \in Alert
    BY DEF TypeOK
  <2>3. \A id \in DOMAIN Active :
           Active'[id].State = Active[id].State /\ Active'[id].Missing = Active[id].Missing
    BY <2>1, <2>2 DEF Sent, Alert
  <2> QED
    BY <2>1, <2>3 DEF HistoryInv, MissingInv, HistoryHonest, NoDataStandsAlone, Live
<1>3. CASE Restart
  BY <1>3 DEF Restart, EmptyMap, HistoryInv, MissingInv, HistoryHonest, NoDataStandsAlone
<1>4. CASE UNCHANGED <<Active, saved, trusted, handledRestart>>
  BY <1>4 DEF HistoryInv, MissingInv, HistoryHonest, NoDataStandsAlone, Live
<1> QED
  BY <1>1, <1>2, <1>3, <1>4
  DEF Next, EvalFails, SkipForMaintenance, OrgLookupFails, ServerSynced, vars

LEMMA HistoryAlways == Spec => [](HistoryInv /\ NoDataStandsAlone)
<1>1. Init => HistoryInv /\ NoDataStandsAlone
  BY DEF Init, EmptyMap, HistoryInv, MissingInv, HistoryHonest, NoDataStandsAlone
<1>2. TypeOK /\ HistoryInv /\ NoDataStandsAlone /\ [Next]_vars
        => HistoryInv' /\ NoDataStandsAlone'
  BY HistoryStep
<1> QED
  BY <1>1, <1>2, TypeCorrect, PTL DEF Spec

(***************************************************************************)
(* The state history agrees with the rule over restarts, whatever the      *)
(* series, the hold duration and the retention, unless a write was lost    *)
(* (RecordRuleStateHistory).                                               *)
(***************************************************************************)
THEOREM HistoryHonestHolds == Spec => []HistoryHonest
<1>1. HistoryInv => HistoryHonest
  BY DEF HistoryInv
<1> QED
  BY <1>1, HistoryAlways, PTL

(***************************************************************************)
(* While a missing-data alert fires nothing else of the rule does          *)
(* (buildAndRunQuery, Eval).                                               *)
(***************************************************************************)
THEOREM NoDataStandsAloneHolds == Spec => []NoDataStandsAlone
BY HistoryAlways, PTL
=============================================================================
