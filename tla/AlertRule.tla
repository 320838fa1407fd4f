------------------------------ MODULE AlertRule ------------------------------
(***************************************************************************)
(* One alert rule of the ruler: the life of its alerts from evaluation to  *)
(* evaluation, what Alertmanager is told of them and what the rule state   *)
(* history remembers (pkg/query-service/rules: ThresholdRule.Eval,         *)
(* PromRule.Eval, BaseRule, RuleTask.Run/Eval; ruletypes: Alert,           *)
(* BasicRuleThresholds; rulestatehistory module).                          *)
(*                                                                         *)
(* Time is counted in an arbitrary unit from the zero time of Go, which is *)
(* 0 here; `now' is the evaluation timestamp of the latest tick.  The      *)
(* values of a series are abstracted to what the thresholds make of them.  *)
(***************************************************************************)
EXTENDS Integers, Sequences

CONSTANTS
    Series,             \* pairs of a result series and a threshold of the rule
    Frequency,          \* interval of the rule's task
    ResendDelay,        \* ManagerOptions.ResendDelay
    ResolvedRetention,  \* how long a resolved alert stays in Active
    HoldDuration,       \* BaseRule.holdDuration
    AlertOnAbsent,      \* RuleCondition.AlertOnAbsent
    AbsentFor,          \* RuleCondition.AbsentFor
    StartTime,          \* the wall clock when the model starts
    MaxTime,            \* bound: the model's last tick
    MaxQuiet            \* fault assumption: longest time without a full round

ASSUME TimeAssumption ==
    /\ Frequency \in Nat \ {0}
    /\ ResendDelay \in Nat
    /\ ResolvedRetention \in Nat
    /\ HoldDuration \in Nat
    /\ AbsentFor \in Nat
    /\ StartTime \in Nat /\ StartTime > ResendDelay + AbsentFor
    /\ MaxTime \in Nat
    /\ MaxQuiet \in Nat

ASSUME AbsentAssumption == AlertOnAbsent \in BOOLEAN

(***************************************************************************)
(* What the query and the thresholds make of a series: it is not in the    *)
(* result, it is there and meets nothing (or has too few points, or is a   *)
(* new group still in its grace period), it meets the recovery target      *)
(* only, or it meets the target.                                           *)
(***************************************************************************)
Observation == {"absent", "ok", "recovery", "target"}

AlertState == {"inactive", "pending", "recovering", "firing"}

HistoryState == {"inactive", "recovering", "firing", "nodata"}

(***************************************************************************)
(* An alert is identified by the hash of its label set: that of its        *)
(* series, or, for a missing-data alert, the lastSeen label (0: none).     *)
(***************************************************************************)
SeriesId(s) == <<"series", s>>

NoDataId(t) == <<"nodata", t>>

AlertId == ({"series"} \X Series) \cup ({"nodata"} \X Nat)

Alert == [State : AlertState, ActiveAt : Nat, FiredAt : Nat, ResolvedAt : Nat,
          LastSentAt : Nat, ValidUntil : Nat,
          Missing : BOOLEAN, IsRecovering : BOOLEAN]

VARIABLES
    now,            \* evaluation timestamp of the latest tick
    phase,          \* "idle", or "evaluated": between Eval and SendAlerts
    lastRound,      \* timestamp of the latest tick whose SendAlerts completed
    obs,            \* what the latest successful evaluation saw
    Active,         \* BaseRule.Active
    lastData,       \* BaseRule.lastTimestampWithDatapoints
    handledRestart, \* BaseRule.handledRestart
    saved,          \* last recorded state of each fingerprint
    trusted,        \* no history write was lost since the restart was handled
    amReady,        \* the alertmanager service has a server for the org
    told            \* EndsAt that Alertmanager last received for an alert

vars == <<now, phase, lastRound, obs, Active, lastData, handledRestart,
          saved, trusted, amReady, told>>

-----------------------------------------------------------------------------

EmptyMap == [id \in {} |-> 0]

NewAlert(smpl, ts) ==
    [State |-> "pending", ActiveAt |-> ts, FiredAt |-> 0, ResolvedAt |-> 0,
     LastSentAt |-> 0, ValidUntil |-> 0,
     Missing |-> smpl.Missing, IsRecovering |-> smpl.IsRecovering]

(***************************************************************************)
(* HandleMissingDataAlert: the missing-data condition, for the last time   *)
(* `ld' at which the rule saw data.                                        *)
(***************************************************************************)
MissingData(ts, ld) == AlertOnAbsent /\ ts >= ld + AbsentFor

HasData(o) == \E s \in Series : o[s] # "absent"

LastData(o, ts) == IF HasData(o) THEN ts ELSE lastData

(***************************************************************************)
(* BasicRuleThresholds.Eval: a series that meets the target gives a        *)
(* sample; one that meets only the recovery target does when its label set *)
(* is among ActiveAlertsLabelFP, that is in Active in whatever state.      *)
(***************************************************************************)
HasActiveAlert(id) == id \in DOMAIN Active

ThresholdSamples(o) ==
    [id \in {SeriesId(s) : s \in {x \in Series :
                \/ o[x] = "target"
                \/ o[x] = "recovery" /\ HasActiveAlert(SeriesId(x))}} |->
        [Missing |-> FALSE, IsRecovering |-> o[id[2]] = "recovery"]]

(***************************************************************************)
(* buildAndRunQuery: a missing-data alert replaces all other samples.      *)
(***************************************************************************)
Result(o, ts) ==
    IF MissingData(ts, LastData(o, ts))
      THEN [id \in {NoDataId(LastData(o, ts))} |->
              [Missing |-> TRUE, IsRecovering |-> FALSE]]
      ELSE ThresholdSamples(o)

(***************************************************************************)
(* The three stages of Eval on Active: merge the result in, advance the    *)
(* state of every alert, forget what is over.                              *)
(***************************************************************************)
Merged(res, ts) ==
    [id \in DOMAIN Active \cup DOMAIN res |->
        IF id \notin DOMAIN res
          THEN Active[id]
          ELSE IF id \in DOMAIN Active /\ Active[id].State # "inactive"
            THEN [Active[id] EXCEPT !.Missing = res[id].Missing,
                                    !.IsRecovering = res[id].IsRecovering]
            ELSE NewAlert(res[id], ts)]

Resolve(a, ts) ==
    IF a.State # "inactive"
      THEN [a EXCEPT !.State = "inactive", !.ResolvedAt = ts]
      ELSE a

Fires(a, ts) == a.State = "pending" /\ ts - a.ActiveAt >= HoldDuration

\* Mutant of Fire: the state of the history item is given to the alert.
FireAsNoData(a, ts) ==
    IF Fires(a, ts)
      THEN [a EXCEPT !.State = IF a.Missing THEN "nodata" ELSE "firing",
                     !.FiredAt = ts]
      ELSE a

Fire(a, ts) ==
    IF Fires(a, ts) THEN [a EXCEPT !.State = "firing", !.FiredAt = ts] ELSE a

Turns(a) ==
    \/ a.State = "firing" /\ a.IsRecovering
    \/ a.State = "recovering" /\ ~a.IsRecovering /\ ~a.Missing

Turn(a) ==
    IF Turns(a)
      THEN [a EXCEPT !.State = IF a.State = "firing" THEN "recovering"
                                                     ELSE "firing"]
      ELSE a

\* Mutant of Advance: an alert that left the result is not resolved.
AdvanceKeepsLive(a, inResult, ts) ==
    IF inResult THEN Turn(Fire(a, ts)) ELSE a

Advance(a, inResult, ts) ==
    IF inResult THEN Turn(Fire(a, ts)) ELSE Resolve(a, ts)

\* Mutant of Over: a resolved alert is forgotten at the next evaluation.
OverAtOnce(a, inResult, ts) ==
    ~inResult /\ (a.State = "pending" \/ a.ResolvedAt # 0)

Over(a, inResult, ts) ==
    /\ ~inResult
    /\ \/ a.State = "pending"
       \/ a.ResolvedAt # 0 /\ ts - a.ResolvedAt > ResolvedRetention

(***************************************************************************)
(* The history items of one alert in one evaluation, in order.             *)
(***************************************************************************)
Items(a, inResult, ts) ==
    IF inResult
      THEN (IF Fires(a, ts)
              THEN <<IF a.Missing THEN "nodata" ELSE "firing">> ELSE <<>>)
           \o (IF Turns(Fire(a, ts))
                 THEN <<Turn(Fire(a, ts)).State>> ELSE <<>>)
      ELSE IF a.State # "inactive" THEN <<"inactive">> ELSE <<>>

Evaluated(m, res, ts) ==
    [id \in {x \in DOMAIN m : ~Over(m[x], x \in DOMAIN res, ts)} |->
        Advance(m[id], id \in DOMAIN res, ts)]

\* Mutant of Recorded: the last saved state is not reconciled on a restart.
RecordedBlindly(items) ==
    [id \in DOMAIN saved \cup {x \in DOMAIN items : items[x] # <<>>} |->
        IF id \in DOMAIN items /\ items[id] # <<>>
          THEN items[id][Len(items[id])] ELSE saved[id]]

(***************************************************************************)
(* module.RecordRuleStateHistory: the states written for a family of item  *)
(* lists.  Until the restart is handled the items are reconciled with the  *)
(* last saved state: what is saved as firing and has no item is closed,    *)
(* what is saved already is skipped.                                       *)
(***************************************************************************)
Recorded(items) ==
    LET has == {id \in DOMAIN items : items[id] # <<>>}
        last(id) == items[id][Len(items[id])]
        restart == ~handledRestart /\ DOMAIN saved # {}
        written == IF restart
                     THEN {id \in DOMAIN saved :
                             IF id \in has THEN saved[id] # last(id)
                               ELSE saved[id] \in {"firing", "nodata"}}
                          \cup (has \ DOMAIN saved)
                     ELSE has
        state(id) == IF ~restart THEN last(id)
                     ELSE IF id \notin DOMAIN saved THEN Head(items[id])
                     ELSE IF id \in has THEN last(id) ELSE "inactive"
    IN  [id \in DOMAIN saved \cup written |->
            IF id \in written THEN state(id) ELSE saved[id]]

\* Mutant of NeedsSending: a resolution waits for the resend delay.
NeedsSendingByDelay(a, ts) ==
    a.State # "pending" /\ a.LastSentAt + ResendDelay < ts

(***************************************************************************)
(* Alert.NeedsSending, and what SendAlerts does to an alert that needs it. *)
(***************************************************************************)
NeedsSending(a, ts) ==
    /\ a.State # "pending"
    /\ \/ a.ResolvedAt > a.LastSentAt
       \/ a.LastSentAt + ResendDelay < ts

Delta == IF Frequency > ResendDelay THEN Frequency ELSE ResendDelay

\* Mutant of Sent: the alert is valid for one delta only.
SentForOneDelta(a, ts) ==
    [a EXCEPT !.LastSentAt = ts, !.ValidUntil = ts + Delta]

Sent(a, ts) == [a EXCEPT !.LastSentAt = ts, !.ValidUntil = ts + 4 * Delta]

(***************************************************************************)
(* notifyFunc: the EndsAt of the alert that is put into Alertmanager.      *)
(***************************************************************************)
EndsAt(a) == IF a.ResolvedAt # 0 THEN a.ResolvedAt ELSE a.ValidUntil

-----------------------------------------------------------------------------

Init ==
    /\ now = StartTime
    /\ phase = "idle"
    /\ lastRound = StartTime
    /\ obs = [s \in Series |-> "absent"]
    /\ Active = EmptyMap
    /\ lastData = 0
    /\ handledRestart = FALSE
    /\ saved = EmptyMap
    /\ trusted = FALSE
    /\ amReady = FALSE
    /\ told = EmptyMap

(***************************************************************************)
(* RuleTask.Run: the next tick, `missed' ticks after the one expected.     *)
(***************************************************************************)
Tick(missed) ==
    /\ phase = "idle"
    /\ now' = now + (missed + 1) * Frequency
    /\ now' <= MaxTime
    /\ now' - lastRound <= MaxQuiet

MissedTicks == 0 .. 1

(***************************************************************************)
(* ThresholdRule.Eval / PromRule.Eval that ends without an error.  The     *)
(* error of RecordRuleStateHistory (`written' is FALSE) is ignored.        *)
(***************************************************************************)
Eval(missed, o, written) ==
    /\ Tick(missed)
    /\ LET res == Result(o, now')
           m == Merged(res, now')
           items == [id \in DOMAIN m |-> Items(m[id], id \in DOMAIN res, now')]
           fresh == DOMAIN Active = {} /\ ~handledRestart
       IN  /\ Active' = Evaluated(m, res, now')
           /\ saved' = IF written THEN Recorded(items) ELSE saved
           /\ trusted' = (written /\ (trusted \/ fresh))
    /\ handledRestart' = (handledRestart \/ written)
    /\ obs' = o
    /\ lastData' = LastData(o, now')
    /\ phase' = "evaluated"
    /\ UNCHANGED <<lastRound, amReady, told>>

(***************************************************************************)
(* An evaluation that fails: the query does, or two samples have the same  *)
(* labels once the rule's labels are set, after the data was seen.         *)
(* RuleTask.Eval then sends nothing.                                       *)
(***************************************************************************)
EvalFails(missed, duplicate) ==
    /\ Tick(missed)
    /\ duplicate => ~MissingData(now', now')
    /\ lastData' = IF duplicate THEN now' ELSE lastData
    /\ UNCHANGED <<phase, lastRound, obs, Active, handledRestart, saved,
                   trusted, amReady, told>>

(***************************************************************************)
(* RuleTask.Eval skips the rule: a planned maintenance covers it.          *)
(***************************************************************************)
SkipForMaintenance ==
    /\ Tick(0)
    /\ UNCHANGED <<phase, lastRound, obs, Active, lastData, handledRestart,
                   saved, trusted, amReady, told>>

(***************************************************************************)
(* BaseRule.SendAlerts.  notifyFunc drops the error of PutAlerts, which is *)
(* returned while the service has no server for the org.                   *)
(***************************************************************************)
SendAlerts ==
    LET sending == {id \in DOMAIN Active : NeedsSending(Active[id], now)}
        sent == [id \in DOMAIN Active |->
                    IF id \in sending THEN Sent(Active[id], now)
                                      ELSE Active[id]]
    IN  /\ phase = "evaluated"
        /\ Active' = sent
        /\ told' = IF amReady
                     THEN [id \in DOMAIN told \cup sending |->
                             IF id \in sending THEN EndsAt(sent[id])
                                               ELSE told[id]]
                     ELSE told
        /\ phase' = "idle"
        /\ lastRound' = now
        /\ UNCHANGED <<now, obs, lastData, handledRestart, saved, trusted,
                       amReady>>

(***************************************************************************)
(* SendAlerts returns early: the organization cannot be read.              *)
(***************************************************************************)
OrgLookupFails ==
    /\ phase = "evaluated"
    /\ phase' = "idle"
    /\ UNCHANGED <<now, lastRound, obs, Active, lastData, handledRestart,
                   saved, trusted, amReady, told>>

(***************************************************************************)
(* Service.SyncServers creates the org's alertmanager server.              *)
(***************************************************************************)
ServerSynced ==
    /\ ~amReady
    /\ amReady' = TRUE
    /\ UNCHANGED <<now, phase, lastRound, obs, Active, lastData,
                   handledRestart, saved, trusted, told>>

(***************************************************************************)
(* The process stops at any point and starts again: NewBaseRule.  The      *)
(* rule's state and Alertmanager's alerts are only in memory; the history  *)
(* is not.                                                                 *)
(***************************************************************************)
Restart ==
    /\ Active' = EmptyMap
    /\ lastData' = 0
    /\ handledRestart' = FALSE
    /\ trusted' = FALSE
    /\ amReady' = FALSE
    /\ told' = EmptyMap
    /\ phase' = "idle"
    /\ lastRound' = now
    /\ UNCHANGED <<now, obs, saved>>

Next ==
    \/ \E missed \in MissedTicks, o \in [Series -> Observation],
          written \in BOOLEAN : Eval(missed, o, written)
    \/ \E missed \in MissedTicks, duplicate \in BOOLEAN :
          EvalFails(missed, duplicate)
    \/ SkipForMaintenance
    \/ SendAlerts
    \/ OrgLookupFails
    \/ ServerSynced
    \/ Restart

Spec == Init /\ [][Next]_vars

-----------------------------------------------------------------------------

Live(a) == a.State \in {"firing", "recovering"}

(***************************************************************************)
(* Every variable has its type.                                            *)
(***************************************************************************)
TypeOK ==
    /\ now \in Nat
    /\ phase \in {"idle", "evaluated"}
    /\ lastRound \in Nat
    /\ obs \in [Series -> Observation]
    /\ DOMAIN Active \subseteq AlertId
    /\ Active \in [DOMAIN Active -> Alert]
    /\ lastData \in Nat
    /\ handledRestart \in BOOLEAN
    /\ DOMAIN saved \subseteq AlertId
    /\ saved \in [DOMAIN saved -> HistoryState]
    /\ trusted \in BOOLEAN
    /\ amReady \in BOOLEAN
    /\ DOMAIN told \subseteq AlertId
    /\ told \in [DOMAIN told -> Nat]

(***************************************************************************)
(* How the clocks of an alert relate to what was sent of it: a sent alert  *)
(* was sent again within ResendDelay of the last complete round, a         *)
(* resolution is unsent only since then, and Alertmanager holds the EndsAt *)
(* of the last send.                                                       *)
(***************************************************************************)
AlertClocks(id) ==
    LET a == Active[id]
    IN  /\ a.State = "inactive" <=> a.ResolvedAt # 0
        /\ a.State = "pending" => a.LastSentAt = 0
        /\ a.ResolvedAt <= now
        /\ a.LastSentAt <= lastRound
        /\ a.LastSentAt # 0 => /\ a.ValidUntil = a.LastSentAt + 4 * Delta
                               /\ lastRound <= a.LastSentAt + ResendDelay
        /\ a.ResolvedAt > a.LastSentAt => a.ResolvedAt > lastRound
        /\ (/\ id \in DOMAIN told
            /\ a.LastSentAt # 0
            /\ a.ResolvedAt <= a.LastSentAt) => told[id] = EndsAt(a)

(***************************************************************************)
(* The inductive invariant behind FiringStaysAlive, ResolvedIsReported and *)
(* NoSilentDrop.                                                           *)
(***************************************************************************)
DeliveryInv ==
    /\ StartTime <= now
    /\ lastRound <= now
    /\ phase = "evaluated" => lastRound < now
    /\ ~amReady => DOMAIN told = {}
    /\ \A id \in DOMAIN Active : AlertClocks(id)

(***************************************************************************)
(* An alert that still fires does not expire in Alertmanager: when the     *)
(* rule is about to send, the EndsAt sent last is still ahead, as long as  *)
(* the rounds that were skipped leave room for the resend delay within     *)
(* the validity of 4 * max(interval, resendDelay) that SendAlerts sets.    *)
(***************************************************************************)
FiringStaysAlive ==
    (phase = "evaluated" /\ (now - lastRound) + ResendDelay < 4 * Delta) =>
        \A id \in DOMAIN Active \cap DOMAIN told :
            (Live(Active[id]) /\ Active[id].LastSentAt # 0) => told[id] > now

(***************************************************************************)
(* Once a round is complete Alertmanager does not hold an alert to be      *)
(* firing that the rule has resolved (NeedsSending resends what was        *)
(* resolved since the last send).                                          *)
(***************************************************************************)
ResolvedIsReported ==
    (phase = "idle" /\ lastRound = now) =>
        \A id \in DOMAIN Active \cap DOMAIN told :
            Active[id].State = "inactive" => told[id] <= now

(***************************************************************************)
(* The rule does not forget an alert that Alertmanager holds to be firing: *)
(* Eval keeps a resolved alert for ResolvedRetention "so it is reported as *)
(* resolved to the AlertManager" (threshold_rule.go, Eval).                *)
(***************************************************************************)
NoSilentDrop ==
    \A id \in DOMAIN told : told[id] > now => id \in DOMAIN Active

(***************************************************************************)
(* The state history agrees with the rule, restarts included: what is last *)
(* recorded as firing or nodata is firing, and what fires or recovers is   *)
(* recorded so, unless a write of the history was lost.                    *)
(***************************************************************************)
HistoryHonest ==
    trusted =>
        /\ \A id \in DOMAIN saved : saved[id] \in {"firing", "nodata"} =>
              id \in DOMAIN Active /\ Active[id].State = "firing"
        /\ \A id \in DOMAIN Active :
              /\ Active[id].State = "firing" =>
                    /\ id \in DOMAIN saved
                    /\ saved[id] = IF Active[id].Missing THEN "nodata"
                                                         ELSE "firing"
              /\ Active[id].State = "recovering" =>
                    id \in DOMAIN saved /\ saved[id] = "recovering"

(***************************************************************************)
(* A missing-data alert stands alone: while it fires no series of the rule *)
(* does, and no second missing-data alert with an older lastSeen is left   *)
(* behind (buildAndRunQuery returns it instead of the other samples, so    *)
(* Eval resolves them).                                                    *)
(***************************************************************************)
NoDataStandsAlone ==
    \A i, j \in DOMAIN Active :
        (Active[i].Missing /\ Live(Active[i]) /\ Live(Active[j])) => i = j

(***************************************************************************)
(* "Alert fires only if t2 - t1 > AbsentFor" (prom_rule_test.go,           *)
(* TestPromRule_NoData_AbsentFor): t1 the last evaluation with data, t2    *)
(* the one without.                                                        *)
(***************************************************************************)
NoDataAfterGrace ==
    \A id \in DOMAIN Active :
        (Active[id].Missing /\ Active[id].State = "firing" /\ lastData # 0)
            => now - lastData > AbsentFor

(***************************************************************************)
(* A series that does not fire starts to do so only by meeting the target: *)
(* the recovery target is only for "a sample [that] is part of an active   *)
(* alert" (threshold.go, EvalData).                                        *)
(***************************************************************************)
FiresOnlyOnTarget ==
    [][\A s \in Series :
         LET id == SeriesId(s)
         IN  (/\ id \in DOMAIN Active' /\ Live(Active'[id])
              /\ ~(id \in DOMAIN Active /\ Live(Active[id])))
             => obs'[s] = "target"]_vars
=============================================================================
