-------------------------- MODULE RuleManagerProofs --------------------------
(***************************************************************************)
(* Proofs about RuleManager, for every set of rules, organizations and     *)
(* requests, every pool size, and with or without faults: the evaluation   *)
(* loops (TaskInv), and what the row lock protects (LockInv, MatchInv) for *)
(* the operations that the last two theorems name.                         *)
(***************************************************************************)
EXTENDS RuleManager, TLAPS

(***************************************************************************)
(* Task instances of different requests, and those that initiate makes,    *)
(* differ, and no instance is NoInst.                                      *)
(***************************************************************************)
LEMMA InstFacts ==
    /\ \A r \in Req : <<r, 1>> \in Inst /\ <<r, 2>> \in Inst
    /\ \A id \in Rule : <<id, 0>> \in Inst
    /\ NoInst \notin Inst
    /\ \A r, s \in Req, j, k \in {1, 2} :
          <<r, j>> = <<s, k>> => r = s /\ j = k
    /\ \A r \in Req, id \in Rule, k \in {1, 2} : <<r, k>> # <<id, 0>>
    /\ \A x, y \in Rule : <<x, 0>> = <<y, 0>> => x = y
    /\ \A id \in Rule : <<id, 0>>[1] = id
BY RequestAssumption DEF Inst, NoInst

(***************************************************************************)
(* The initial states have the right types.                                *)
(***************************************************************************)
LEMMA TypeInit == Init => TypeOK
<1> SUFFICES ASSUME Init PROVE TypeOK
  OBVIOUS
<1>1. store \in [Rule -> Def \cup {NoDef}] /\ unused \in SUBSET Rule
  BY DEF Init
<1>2. lock \in [Rule -> Req \cup {None}] /\ mtx \in Req \cup {None}
  BY DEF Init
<1>3. /\ tasks \in [Rule -> Inst \cup {NoInst}]
      /\ rules \in [Rule -> Inst \cup {NoInst}]
  BY InstFacts DEF Init
<1>4. def \in [Inst -> Def \cup {NoDef}]
  BY <1>1 DEF Init
<1>5. loop \in [Inst -> {"none", "wait", "query", "send", "gone"}]
  BY DEF Init
<1>6. done \in SUBSET Inst /\ mgr \in {"up", "stopping", "down"}
  BY DEF Init
<1>7. req \in [Req -> RequestState]
  BY DEF Init, Request, RequestState, Pcs
<1> QED
  BY <1>1, <1>2, <1>3, <1>4, <1>5, <1>6, <1>7 DEF TypeOK

(***************************************************************************)
(* Unmarshalling a patch over a definition gives a definition.             *)
(***************************************************************************)
LEMMA PatchedDef ==
    ASSUME NEW d \in Def, NEW b \in Body
    PROVE  [d EXCEPT !.Body = b] \in Def
BY DEF Def

(***************************************************************************)
(* A step of a request keeps the types.                                    *)
(***************************************************************************)
LEMMA TypeRequest ==
    ASSUME TypeOK, Targeted, NEW r \in Req, RequestStep(r)
    PROVE  TypeOK'
<1>0. /\ req \in [Req -> RequestState]
      /\ NewInst(r) \in Inst
      /\ \A pc \in Pcs : Goto(r, pc) => req' \in [Req -> RequestState]
  <2>1. req \in [Req -> RequestState]
    BY DEF TypeOK
  <2>2. req[r].try \in {1, 2}
    BY <2>1 DEF RequestState
  <2>3. NewInst(r) \in Inst
    BY <2>2, InstFacts DEF NewInst
  <2>4. ASSUME NEW pc \in Pcs, Goto(r, pc)
        PROVE  req' \in [Req -> RequestState]
    <3>1. [req[r] EXCEPT !.pc = pc] \in RequestState
      BY <2>1 DEF RequestState
    <3> QED
      BY <2>1, <2>4, <3>1 DEF Goto
  <2> QED
    BY <2>1, <2>3, <2>4
<1>p. {"new", "read", "update", "write", "check", "act", "stopping", "commit",
        "end"} \subseteq Pcs /\ AfterSync(r) \in Pcs
  BY DEF Pcs, AfterSync
<1>d. req[r].def \in Def \cup {NoDef}
  BY <1>0 DEF RequestState
<1>b. ASSUME NEW pc \in Pcs, NEW b \in {"none", "add", "edit", "delete"}
      PROVE  [req EXCEPT ![r].branch = b, ![r].pc = pc] \in [Req -> RequestState]
  <2>1. [req[r] EXCEPT !.branch = b, !.pc = pc] \in RequestState
    <3>1. req[r] \in RequestState
      BY <1>0
    <3> QED
      BY <3>1 DEF RequestState
  <2> QED
    BY <1>0, <2>1
<1>c. ASSUME NEW pc \in Pcs, NEW b \in {"none", "add", "edit", "delete"}
      PROVE  [req EXCEPT ![r].pc = pc, ![r].branch = b] \in [Req -> RequestState]
  <2>1. [req[r] EXCEPT !.pc = pc, !.branch = b] \in RequestState
    <3>1. req[r] \in RequestState
      BY <1>0
    <3> QED
      BY <3>1 DEF RequestState
  <2> QED
    BY <1>0, <2>1
<1>u. Unlock(r) => lock' \in [Rule -> Req \cup {None}]
  BY DEF TypeOK, Unlock
<1>s. req[r].id \in Rule /\ StartTask(r) =>
        /\ def' \in [Inst -> Def \cup {NoDef}]
        /\ loop' \in [Inst -> {"none", "wait", "query", "send", "gone"}]
        /\ tasks' \in [Rule -> Inst \cup {NoInst}]
  BY <1>0 DEF TypeOK, StartTask, RequestState
<1>t. ~Finished(r) => req[r].id \in Rule
  BY DEF Targeted
<1>1. ASSUME NEW op \in Ops, NEW id \in Rule, NEW d \in Def, Begin(r, op, id, d)
      PROVE  TypeOK'
  <2>1. \A pc \in Pcs : Request(pc, op, id, d) \in RequestState
    BY RequestAssumption DEF Request, RequestState
  <2>2. req' \in [Req -> RequestState]
    BY <1>0, <1>1, <1>p, <2>1 DEF Begin
  <2> QED
    BY <1>1, <2>2 DEF Begin, TypeOK
<1>2. CASE ReadRule(r)
  <2>1. req' \in [Req -> RequestState]
    <3>1. CASE store[req[r].id] # NoDef /\ req[r].op = "patch"
      <4>1. req[r].id \in Rule
        BY <1>2, <1>t DEF ReadRule, Finished
      <4>2. store[req[r].id].Body \in Body
        BY <3>1, <4>1 DEF TypeOK, Def
      <4>3. [req[r].def EXCEPT !.Body = store[req[r].id].Body] \in Def
        BY <1>2, <4>2, PatchedDef DEF Targeted, ReadRule, Finished
      <4> QED
        BY <1>0, <1>2, <1>p, <3>1, <4>3 DEF ReadRule, RequestState
    <3>2. CASE ~(store[req[r].id] # NoDef /\ req[r].op = "patch")
      BY <1>0, <1>2, <1>p, <3>2 DEF ReadRule
    <3> QED
      BY <3>1, <3>2
  <2> QED
    BY <1>2, <2>1 DEF ReadRule, TypeOK
<1>3. CASE Update(r)
  <2>1. req' \in [Req -> RequestState]
    <3>1. req[r].op \in {"edit", "patch"} => req' \in [Req -> RequestState]
      BY <1>0, <1>3, <1>p DEF Update
    <3>2. ASSUME req[r].op \in {"create", "delete"}
          PROVE  req' \in [Req -> RequestState]
      <4>1. PICK b \in {"add", "delete"} :
              req' = [req EXCEPT ![r].pc = "act", ![r].branch = b]
        BY <1>3, <3>2 DEF Update
      <4> QED
        BY <1>c, <1>p, <4>1
    <3>3. req[r].op \in {"edit", "patch", "create", "delete"}
      BY <1>0, <1>3, <1>t DEF Update, Targeted, Finished, RequestState
    <3> QED
      BY <3>1, <3>2, <3>3
  <2> QED
    BY <1>3, <2>1 DEF Update, TypeOK
<1>4. CASE StatementFails(r)
  <2>1. req' \in [Req -> RequestState]
    BY <1>0, <1>4, <1>p DEF StatementFails, RequestState
  <2> QED
    BY <1>4, <2>1 DEF StatementFails, TypeOK
<1>5. CASE Check(r)
  <2>1. req' \in [Req -> RequestState]
    <3> DEFINE b == IF req[r].def.Disabled
                     THEN IF tasks[req[r].id] # NoInst THEN "delete" ELSE "none"
                     ELSE IF tasks[req[r].id] # NoInst THEN "edit" ELSE "add"
    <3>1. b \in {"none", "add", "edit", "delete"}
      OBVIOUS
    <3>2. (IF b = "none" THEN AfterSync(r) ELSE "act") \in Pcs
      BY <1>p
    <3>3. req' = [req EXCEPT ![r].branch = b,
                    ![r].pc = IF b = "none" THEN AfterSync(r) ELSE "act"]
      BY <1>5 DEF Check
    <3> HIDE DEF b
    <3> QED
      BY <1>b, <3>1, <3>2, <3>3
  <2> QED
    BY <1>5, <2>1 DEF Check, TypeOK
<1>6. CASE AddTask(r)
  <2>1. req[r].id \in Rule
    BY <1>6, <1>t DEF AddTask, Finished
  <2>2. req' \in [Req -> RequestState]
    BY <1>0, <1>6, <1>p DEF AddTask
  <2>3. rules' \in [Rule -> Inst \cup {NoInst}]
    BY <1>0, <1>6 DEF AddTask, TypeOK
  <2>4. /\ def' \in [Inst -> Def \cup {NoDef}]
        /\ loop' \in [Inst -> {"none", "wait", "query", "send", "gone"}]
        /\ tasks' \in [Rule -> Inst \cup {NoInst}]
        /\ lock' \in [Rule -> Req \cup {None}]
    BY <1>0, <1>6, <1>d, <1>s, <1>u, <2>1 DEF AddTask, TypeOK
  <2> QED
    BY <1>6, <2>2, <2>3, <2>4 DEF AddTask, TypeOK
<1>7. CASE EditTask(r)
  <2>1. req[r].id \in Rule
    BY <1>7, <1>t DEF EditTask, Finished
  <2>2. tasks[req[r].id] \in Inst \cup {NoInst}
    BY <2>1 DEF TypeOK
  <2>3. req' \in [Req -> RequestState]
    BY <1>0, <1>7, <1>p, <2>2 DEF EditTask, RequestState
  <2>4. /\ rules' \in [Rule -> Inst \cup {NoInst}]
        /\ mtx' \in Req \cup {None}
        /\ done' \in SUBSET Inst
    BY <1>0, <1>7, <2>2 DEF EditTask, TypeOK
  <2>5. /\ def' \in [Inst -> Def \cup {NoDef}]
        /\ loop' \in [Inst -> {"none", "wait", "query", "send", "gone"}]
        /\ tasks' \in [Rule -> Inst \cup {NoInst}]
    BY <1>0, <1>7, <1>d, <1>s, <2>1 DEF EditTask, TypeOK
  <2> QED
    BY <1>7, <2>3, <2>4, <2>5 DEF EditTask, TypeOK
<1>8. CASE DeleteTask(r)
  <2>1. req[r].id \in Rule
    BY <1>8, <1>t DEF DeleteTask, Finished
  <2>2. tasks[req[r].id] \in Inst \cup {NoInst}
    BY <2>1 DEF TypeOK
  <2>3. req' \in [Req -> RequestState]
    BY <1>0, <1>8, <1>p, <2>2 DEF DeleteTask, RequestState
  <2>4. mtx' \in Req \cup {None} /\ done' \in SUBSET Inst
    BY <1>8, <2>2 DEF DeleteTask, TypeOK
  <2> QED
    BY <1>8, <2>3, <2>4 DEF DeleteTask, TypeOK
<1>9. CASE PrepareFails(r)
  <2>1. req' \in [Req -> RequestState]
    BY <1>0, <1>9, <1>p DEF PrepareFails
  <2> QED
    BY <1>9, <1>u, <2>1 DEF PrepareFails, TypeOK
<1>10. CASE StopReturns(r)
  <2>1. req[r].id \in Rule
    BY <1>10, <1>t DEF StopReturns, Finished
  <2>2. req' \in [Req -> RequestState]
    BY <1>0, <1>10, <1>p DEF StopReturns
  <2>3. /\ def' \in [Inst -> Def \cup {NoDef}]
        /\ loop' \in [Inst -> {"none", "wait", "query", "send", "gone"}]
        /\ tasks' \in [Rule -> Inst \cup {NoInst}]
        /\ rules' \in [Rule -> Inst \cup {NoInst}]
    BY <1>0, <1>10, <1>s, <2>1 DEF StopReturns, TypeOK
  <2> QED
    BY <1>10, <2>2, <2>3 DEF StopReturns, TypeOK
<1>11. CASE Commit(r)
  <2>1. req' \in [Req -> RequestState]
    BY <1>0, <1>11, <1>p DEF Commit
  <2>2. store' \in [Rule -> Def \cup {NoDef}]
    BY <1>d, <1>11 DEF Commit, Written, TypeOK
  <2> QED
    BY <1>11, <1>u, <2>1, <2>2 DEF Commit, TypeOK
<1>12. CASE CommitFails(r)
  <2>1. req' \in [Req -> RequestState]
    BY <1>0, <1>12, <1>p DEF CommitFails, RequestState
  <2> QED
    BY <1>12, <1>u, <2>1 DEF CommitFails, TypeOK
<1>13. CASE BeginTx(r)
  <2>1. req' \in [Req -> RequestState]
    BY <1>0, <1>13, <1>p DEF BeginTx
  <2> QED
    BY <1>13, <2>1 DEF BeginTx, TypeOK
<1> QED
  BY <1>1, <1>2, <1>3, <1>4, <1>5, <1>6, <1>7, <1>8, <1>9, <1>10, <1>11, <1>12,
     <1>13
  DEF RequestStep

(***************************************************************************)
(* A step of a loop or of the manager keeps the types.                     *)
(***************************************************************************)
LEMMA TypeLoop ==
    ASSUME TypeOK, NEW i \in Inst, LoopStep(i)
    PROVE  TypeOK'
BY DEF TypeOK, LoopStep, TickArrives, DoneSeen, Evaluate, Send, LoopTo

LEMMA TypeManager ==
    ASSUME TypeOK,
           \/ Stop
           \/ \E id \in Rule : StopTask(id)
           \/ StopEnds
           \/ \E loaded \in SUBSET Org : Restart(loaded)
    PROVE  TypeOK'
<1>1. CASE Stop
  BY <1>1 DEF TypeOK, Stop
<1>2. CASE \E id \in Rule : StopTask(id)
  BY <1>2 DEF TypeOK, StopTask
<1>3. CASE StopEnds
  BY <1>3 DEF TypeOK, StopEnds
<1>4. ASSUME NEW loaded \in SUBSET Org, Restart(loaded)
      PROVE  TypeOK'
  <2>1. store' \in [Rule -> Def \cup {NoDef}] /\ unused' \in SUBSET Rule
    BY <1>4 DEF Restart, TypeOK
  <2>2. lock' \in [Rule -> Req \cup {None}] /\ mtx' \in Req \cup {None}
    BY <1>4 DEF Restart
  <2>3. /\ tasks' \in [Rule -> Inst \cup {NoInst}]
        /\ rules' \in [Rule -> Inst \cup {NoInst}]
    BY <1>4, InstFacts DEF Restart
  <2>4. def' \in [Inst -> Def \cup {NoDef}]
    BY <1>4 DEF Restart, TypeOK
  <2>5. loop' \in [Inst -> {"none", "wait", "query", "send", "gone"}]
    BY <1>4 DEF Restart
  <2>6. done' \in SUBSET Inst /\ mgr' \in {"up", "stopping", "down"}
    BY <1>4 DEF Restart
  <2>7. req' \in [Req -> RequestState]
    <3>1. ASSUME NEW r \in Req, NEW pc \in Pcs
          PROVE  [req[r] EXCEPT !.pc = pc, !.old = NoInst] \in RequestState
      <4>1. req[r] \in RequestState
        BY DEF TypeOK
      <4> QED
        BY <4>1 DEF RequestState
    <3>2. {"new", "end"} \subseteq Pcs
      BY DEF Pcs
    <3> QED
      BY <1>4, <3>1, <3>2 DEF Restart
  <2> QED
    BY <2>1, <2>2, <2>3, <2>4, <2>5, <2>6, <2>7 DEF TypeOK
<1> QED
  BY <1>1, <1>2, <1>3, <1>4

(***************************************************************************)
(* Initially the tasks are those of the stored rules, and nothing stops.   *)
(***************************************************************************)
LEMMA TaskInit == Init => TaskInv
<1> SUFFICES ASSUME Init PROVE TaskInv
  OBVIOUS
<1>0. \A r \in Req : req[r].pc = "new" /\ req[r].try = 1
  BY DEF Init, Request
<1>1. Targeted
  BY <1>0 DEF Targeted, Finished
<1>2. Waits
  BY <1>0 DEF Waits, Init
<1>3. \A r \in Req : loop[<<r, 1>>] = "none" /\ loop[<<r, 2>>] = "none"
  BY InstFacts DEF Init, NoInst
<1>4. Unstarted
  BY <1>0, <1>3 DEF Unstarted, NewInst
<1>5. \A id \in Rule : tasks[id] = NoInst \/ tasks[id] = <<id, 0>>
  BY DEF Init
<1>6. Distinct
  <2>1. ASSUME NEW id \in Rule, tasks[id] = <<id, 0>>
        PROVE  loop[<<id, 0>>] = "wait"
    BY <2>1, InstFacts DEF Init
  <2> QED
    BY <1>5, <2>1, InstFacts DEF Distinct, Init
<1>7. StoppedByHolder
  BY DEF StoppedByHolder, Init
<1>8. NoStrayEvaluator
  BY DEF NoStrayEvaluator, Running, Init
<1> QED
  BY <1>1, <1>2, <1>4, <1>6, <1>7, <1>8 DEF TaskInv

(***************************************************************************)
(* A step that changes one request, none that waits, and no task.          *)
(***************************************************************************)
LEMMA RequestOnly ==
    ASSUME TypeOK, TaskInv, NEW r \in Req,
           req[r].pc # "stopping", req'[r].pc # "stopping",
           \A s \in Req \ {r} : req'[s] = req[s],
           UNCHANGED <<tasks, loop, done, mtx, mgr>>,
           Targeted', Unstarted'
    PROVE  TaskInv'
<1>0. mtx # r /\ mtx \in Req \cup {None}
  BY RequestAssumption DEF TypeOK, TaskInv, Waits
<1>1. Waits'
  BY <1>0 DEF TaskInv, Waits
<1>2. Distinct'
  BY DEF TaskInv, Distinct
<1>3. StoppedByHolder'
  BY <1>0 DEF TaskInv, StoppedByHolder
<1>4. NoStrayEvaluator'
  BY DEF TaskInv, NoStrayEvaluator, Running
<1> QED
  BY <1>1, <1>2, <1>3, <1>4 DEF TaskInv

(***************************************************************************)
(* Stopping no task and starting at most the one that the request r was to *)
(* start: what editTask and addTask do, and StopReturns for an edit.       *)
(***************************************************************************)
LEMMA TaskStarted ==
    ASSUME TypeOK, TaskInv, NEW r \in Req, mtx \in {None, r}, req[r].id \in Rule,
           loop[NewInst(r)] = "none",
           tasks[req[r].id] = NoInst, StartTask(r), Goto(r, AfterSync(r)),
           req[r].pc \in {"act", "stopping"},
           req[r].pc = "stopping" => loop[req[r].old] = "gone",
           mtx' = None, UNCHANGED <<done, mgr>>
    PROVE  TaskInv'
<1>0. /\ NewInst(r) \in Inst
      /\ req[r].try \in {1, 2}
      /\ req[r] \in RequestState
      /\ \A s \in Req : req[s].try \in {1, 2}
  BY InstFacts DEF TypeOK, RequestState, NewInst
<1>1. /\ req'[r].pc = AfterSync(r)
      /\ req'[r].try = req[r].try /\ req'[r].op = req[r].op
      /\ req'[r].id = req[r].id /\ req'[r].def = req[r].def
      /\ \A s \in Req \ {r} : req'[s] = req[s]
      /\ AfterSync(r) \in {"commit", "update", "end"}
      /\ AfterSync(r) = "update" => req[r].op = "patch" /\ req[r].try = 1
  BY <1>0 DEF TypeOK, Goto, AfterSync, RequestState
<1>2. /\ \A i \in Inst \ {NewInst(r)} : loop'[i] = loop[i]
      /\ loop'[NewInst(r)] = "wait"
      /\ \A x \in Rule \ {req[r].id} : tasks'[x] = tasks[x]
      /\ tasks'[req[r].id] = NewInst(r)
  BY <1>0 DEF TypeOK, StartTask
<1>3. Targeted'
  <2>1. /\ req[r].op # "none" /\ req[r].def \in Def
        /\ \A s \in Req \ {r} : Finished(s)' <=> Finished(s)
    BY <1>1 DEF TaskInv, Targeted, Finished
  <2> QED
    BY <1>1, <2>1 DEF TaskInv, Targeted, Finished, AfterSync
<1>4. Waits'
  <2>1. \A s \in Req : req'[s].pc # "stopping"
    BY <1>1, RequestAssumption DEF TaskInv, Waits
  <2> QED
    BY <2>1 DEF Waits
<1>5. Unstarted'
  <2> SUFFICES ASSUME NEW s \in Req
               PROVE  /\ req'[s].try = 1 => loop'[<<s, 2>>] = "none"
                      /\ (\/ req'[s].pc \in {"new", "read", "check", "act"}
                          \/ req'[s].pc = "stopping" /\ req'[s].branch = "edit"
                          \/ req'[s].pc \in {"update", "write"} /\ req'[s].op # "patch")
                            => loop'[<<s, req'[s].try>>] = "none"
    BY DEF Unstarted, NewInst
  <2>1. CASE s = r
    <3>1. req[r].try = 1 => loop'[<<r, 2>>] = "none"
      BY <1>2, InstFacts DEF TaskInv, Unstarted, NewInst
    <3> QED
      BY <1>1, <2>1, <3>1
  <2>2. CASE s # r
    <3>1. <<s, 2>> # NewInst(r) /\ <<s, req[s].try>> # NewInst(r)
      BY <1>0, <2>2, InstFacts DEF NewInst
    <3>2. <<s, 2>> \in Inst /\ <<s, req[s].try>> \in Inst
      BY <1>0, InstFacts
    <3> QED
      BY <1>1, <1>2, <2>2, <3>1, <3>2 DEF TaskInv, Unstarted, NewInst
  <2> QED
    BY <2>1, <2>2
<1>6. \A x \in Rule : tasks[x] # NewInst(r)
  BY <1>0, InstFacts DEF TaskInv, Distinct, TypeOK
<1>7. NewInst(r) \notin done
  BY DEF TaskInv, Distinct
<1>8. Distinct'
  BY <1>0, <1>2, <1>6, <1>7 DEF TaskInv, Distinct, TypeOK
<1>9. StoppedByHolder'
  BY <1>2, <1>7, RequestAssumption DEF TaskInv, StoppedByHolder
<1>10. NoStrayEvaluator'
  <2> SUFFICES ASSUME NEW i \in Inst, Running(i)'
               PROVE  \/ \E id \in Rule : tasks'[id] = i
                      \/ \E s \in Req : req'[s].pc = "stopping" /\ req'[s].old = i
    BY DEF NoStrayEvaluator
  <2>1. CASE i = NewInst(r)
    BY <1>2, <2>1
  <2>2. CASE i # NewInst(r)
    <3>1. Running(i)
      BY <1>2, <2>2 DEF Running
    <3>2. CASE \E id \in Rule : tasks[id] = i
      BY <1>2, <3>2, InstFacts
    <3>3. ASSUME NEW s \in Req, req[s].pc = "stopping", req[s].old = i
          PROVE  \E t \in Req : req'[t].pc = "stopping" /\ req'[t].old = i
      BY <1>1, <3>1, <3>3 DEF Running
    <3> QED
      BY <3>1, <3>2, <3>3 DEF TaskInv, NoStrayEvaluator
  <2> QED
    BY <2>1, <2>2
<1> QED
  BY <1>3, <1>4, <1>5, <1>8, <1>9, <1>10 DEF TaskInv

(***************************************************************************)
(* A request that begins to wait for a task to stop.                       *)
(***************************************************************************)
LEMMA TaskStopping ==
    ASSUME TypeOK, TaskInv, NEW r \in Req, mtx = None, req[r].id \in Rule,
           tasks[req[r].id] # NoInst,
           req[r].pc = "act",
           \/ req[r].branch = "edit" /\ tasks' = [tasks EXCEPT ![req[r].id] = NoInst]
           \/ req[r].branch = "delete" /\ tasks' = tasks,
           req' = [req EXCEPT ![r].pc = "stopping",
                              ![r].old = tasks[req[r].id]],
           done' = done \cup {tasks[req[r].id]}, mtx' = r, UNCHANGED <<loop, mgr>>
    PROVE  TaskInv'
<1>0. /\ req'[r].pc = "stopping" /\ req'[r].old = tasks[req[r].id]
      /\ req'[r].try = req[r].try /\ req'[r].op = req[r].op
      /\ req'[r].id = req[r].id /\ req'[r].def = req[r].def
      /\ req'[r].branch = req[r].branch
      /\ \A s \in Req \ {r} : req'[s] = req[s]
  BY DEF TypeOK, RequestState
<1>1. /\ \A x \in Rule \ {req[r].id} : tasks'[x] = tasks[x]
      /\ tasks'[req[r].id] \in {NoInst, tasks[req[r].id]}
      /\ req[r].branch = "edit" => tasks'[req[r].id] = NoInst
      /\ req[r].branch = "delete" => tasks'[req[r].id] = tasks[req[r].id]
  BY DEF TypeOK
<1>2. Targeted'
  <2> SUFFICES ASSUME NEW s \in Req
               PROVE  /\ req'[s].pc \notin {"new", "end"} =>
                            /\ req'[s].id \in Rule
                            /\ req'[s].op # "none"
                            /\ req'[s].def \in Def
                      /\ req'[s].pc \in {"new", "read"} => req'[s].try = 1
                      /\ (req'[s].op = "patch"
                            /\ req'[s].pc \in {"update", "write", "commit"})
                            => req'[s].try = 1
    BY DEF Targeted, Finished
  <2>1. CASE s = r
    <3>1. req[r].id \in Rule /\ req[r].op # "none" /\ req[r].def \in Def
      BY DEF TaskInv, Targeted, Finished
    <3> QED
      BY <1>0, <2>1, <3>1
  <2>2. CASE s # r
    <3>1. req'[s] = req[s]
      BY <1>0, <2>2
    <3> QED
      BY <3>1 DEF TaskInv, Targeted, Finished
  <2> QED
    BY <2>1, <2>2
<1>3. Waits'
  <2>1. \A s \in Req : req[s].pc # "stopping"
    BY RequestAssumption DEF TaskInv, Waits
  <2>2. \A s \in Req : req'[s].pc = "stopping" => s = r
    BY <1>0, <2>1
  <2>3. mtx' # None => req'[mtx'].pc = "stopping"
    BY <1>0
  <2>4. /\ req'[r].old \in done'
        /\ \/ req'[r].branch = "edit" /\ tasks'[req'[r].id] = NoInst
           \/ req'[r].branch = "delete" /\ tasks'[req'[r].id] = req'[r].old
    BY <1>0, <1>1
  <2> QED
    BY <2>2, <2>3, <2>4 DEF Waits
<1>4. Unstarted'
  <2> SUFFICES ASSUME NEW s \in Req
               PROVE  /\ req'[s].try = 1 => loop[<<s, 2>>] = "none"
                      /\ (\/ req'[s].pc \in {"new", "read", "check", "act"}
                          \/ req'[s].pc = "stopping" /\ req'[s].branch = "edit"
                          \/ req'[s].pc \in {"update", "write"} /\ req'[s].op # "patch")
                            => loop[<<s, req'[s].try>>] = "none"
    BY DEF Unstarted, NewInst
  <2>1. /\ req[s].try = 1 => loop[<<s, 2>>] = "none"
        /\ (\/ req[s].pc \in {"new", "read", "check", "act"}
            \/ req[s].pc = "stopping" /\ req[s].branch = "edit"
            \/ req[s].pc \in {"update", "write"} /\ req[s].op # "patch")
              => loop[<<s, req[s].try>>] = "none"
    BY DEF TaskInv, Unstarted, NewInst
  <2>2. CASE s = r
    <3>1. /\ req'[s].pc = "stopping" /\ req'[s].try = req[s].try
          /\ req[s].pc = "act"
      BY <1>0, <2>2
    <3> QED
      BY <2>1, <3>1
  <2>3. CASE s # r
    <3>1. req'[s] = req[s]
      BY <1>0, <2>3
    <3> QED
      BY <2>1, <3>1
  <2> QED
    BY <2>2, <2>3
<1>5. Distinct'
  BY <1>1 DEF TaskInv, Distinct
<1>6. StoppedByHolder'
  <2> SUFFICES ASSUME mgr = "up", NEW x \in Rule, tasks'[x] \in done \cup {tasks[req[r].id]}
               PROVE  x = req[r].id
    BY <1>0 DEF StoppedByHolder
  <2>1. CASE x # req[r].id
    <3>1. tasks[x] \in done
      BY <1>1, <2>1 DEF TaskInv, Distinct
    <3> QED
      BY <3>1, RequestAssumption DEF TaskInv, StoppedByHolder
  <2> QED
    BY <2>1
<1>7. NoStrayEvaluator'
  <2>1. \A i \in Inst : Running(i)' <=> Running(i)
    BY DEF Running
  <2>2. \A s \in Req : req[s].pc # "stopping"
    BY RequestAssumption DEF TaskInv, Waits
  <2>3. ASSUME NEW i \in Inst, Running(i)
        PROVE  \/ \E id \in Rule : tasks'[id] = i
               \/ \E s \in Req : req'[s].pc = "stopping" /\ req'[s].old = i
    <3>1. PICK id \in Rule : tasks[id] = i
      BY <2>2, <2>3 DEF TaskInv, NoStrayEvaluator
    <3>2. CASE id = req[r].id
      BY <1>0, <3>1, <3>2
    <3>3. CASE id # req[r].id
      BY <1>1, <3>1, <3>3
    <3> QED
      BY <3>2, <3>3
  <2> QED
    BY <2>1, <2>3 DEF NoStrayEvaluator
<1> QED
  BY <1>2, <1>3, <1>4, <1>5, <1>6, <1>7 DEF TaskInv

(***************************************************************************)
(* What a request may be left with when nothing of it but its own record   *)
(* changes.                                                                *)
(***************************************************************************)
Proper(q, r) ==
    /\ q.pc \notin {"new", "end"} => q.id \in Rule /\ q.op # "none" /\ q.def \in Def
    /\ q.pc \in {"new", "read"} => q.try = 1
    /\ (q.op = "patch" /\ q.pc \in {"update", "write", "commit"}) => q.try = 1
    /\ q.try = 1 => loop[<<r, 2>>] = "none"
    /\ (\/ q.pc \in {"new", "read", "check", "act"}
        \/ q.pc \in {"update", "write"} /\ q.op # "patch")
          => loop[<<r, q.try>>] = "none"

(***************************************************************************)
(* The records of the requests are proper.                                 *)
(***************************************************************************)
LEMMA AllProper ==
    ASSUME Targeted, Unstarted, NEW r \in Req
    PROVE  Proper(req[r], r)
BY DEF Targeted, Unstarted, Proper, Finished, NewInst

(***************************************************************************)
(* A step that gives one request a proper record and touches no task.      *)
(***************************************************************************)
LEMMA RequestProper ==
    ASSUME TypeOK, TaskInv, NEW r \in Req,
           \A s \in Req \ {r} : req'[s] = req[s], Proper(req'[r], r),
           req[r].pc # "stopping", req'[r].pc # "stopping",
           UNCHANGED <<tasks, loop, done, mtx, mgr>>
    PROVE  TaskInv'
<1>1. Targeted'
  <2> SUFFICES ASSUME NEW s \in Req
               PROVE  /\ req'[s].pc \notin {"new", "end"} =>
                            /\ req'[s].id \in Rule
                            /\ req'[s].op # "none"
                            /\ req'[s].def \in Def
                      /\ req'[s].pc \in {"new", "read"} => req'[s].try = 1
                      /\ (req'[s].op = "patch"
                            /\ req'[s].pc \in {"update", "write", "commit"})
                            => req'[s].try = 1
    BY DEF Targeted, Finished
  <2>1. CASE s = r
    BY <2>1 DEF Proper
  <2>2. CASE s # r
    BY <2>2 DEF TaskInv, Targeted, Finished
  <2> QED
    BY <2>1, <2>2
<1>2. Unstarted'
  <2> SUFFICES ASSUME NEW s \in Req
               PROVE  /\ req'[s].try = 1 => loop[<<s, 2>>] = "none"
                      /\ (\/ req'[s].pc \in {"new", "read", "check", "act"}
                          \/ req'[s].pc = "stopping" /\ req'[s].branch = "edit"
                          \/ req'[s].pc \in {"update", "write"} /\ req'[s].op # "patch")
                            => loop[<<s, req'[s].try>>] = "none"
    BY DEF Unstarted, NewInst
  <2>1. CASE s = r
    BY <2>1 DEF Proper
  <2>2. CASE s # r
    BY <2>2 DEF TaskInv, Unstarted, NewInst
  <2> QED
    BY <2>1, <2>2
<1> QED
  BY <1>1, <1>2, RequestOnly

(***************************************************************************)
(* A step of a request preserves the invariant.                            *)
(***************************************************************************)
LEMMA TaskRequest ==
    ASSUME TypeOK, TaskInv, NEW r \in Req, RequestStep(r)
    PROVE  TaskInv'
<1>0. /\ Targeted /\ Unstarted
      /\ Proper(req[r], r)
      /\ req[r] \in RequestState
      /\ req[r].try \in {1, 2}
  <2>1. Targeted /\ Unstarted
    BY DEF TaskInv
  <2>2. req[r] \in RequestState
    BY DEF TypeOK
  <2> QED
    BY <2>1, <2>2, AllProper DEF RequestState
<1>d. Proper(req[r], r) /\ ~Finished(r) =>
        req[r].id \in Rule /\ req[r].op # "none" /\ req[r].def \in Def
  BY DEF Proper, Finished
<1>g. ASSUME NEW pc, Goto(r, pc)
      PROVE  /\ req'[r] = [req[r] EXCEPT !.pc = pc]
             /\ \A s \in Req \ {r} : req'[s] = req[s]
             /\ req'[r].pc = pc
             /\ req'[r].try = req[r].try /\ req'[r].op = req[r].op
             /\ req'[r].id = req[r].id /\ req'[r].def = req[r].def
  BY <1>0, <1>g DEF Goto, TypeOK, RequestState
<1>e. ASSUME Goto(r, "end")
      PROVE  /\ Proper(req'[r], r)
             /\ req'[r].pc # "stopping"
             /\ \A s \in Req \ {r} : req'[s] = req[s]
  <2>1. /\ req'[r].pc = "end"
        /\ req'[r].try = req[r].try /\ req'[r].op = req[r].op
        /\ \A s \in Req \ {r} : req'[s] = req[s]
    BY <1>e, <1>0 DEF Goto, TypeOK, RequestState
  <2> QED
    BY <1>0, <2>1 DEF Proper
<1>1. ASSUME NEW op \in Ops, NEW id \in Rule, NEW d \in Def, Begin(r, op, id, d)
      PROVE  TaskInv'
  <2>1. PICK pc \in {"update", "read"} :
          /\ req' = [req EXCEPT ![r] = Request(pc, op, id, d)]
          /\ pc = "update" => op = "create"
    BY <1>1 DEF Begin
  <2>2. /\ req'[r] = Request(pc, op, id, d)
        /\ \A s \in Req \ {r} : req'[s] = req[s]
    BY <2>1 DEF TypeOK
  <2>3. op \in {"create", "edit", "patch", "delete"} /\ req[r].pc = "new"
    BY <1>1, RequestAssumption DEF Begin
  <2>4. Proper(req'[r], r)
    BY <1>0, <2>1, <2>2, <2>3 DEF Proper, Request
  <2> QED
    BY <1>1, <2>2, <2>3, <2>4, RequestProper DEF Begin, Request
<1>2. CASE ReadRule(r)
  <2>1. req[r].pc = "read" /\ req[r].id \in Rule /\ req[r].op # "none"
    BY <1>0, <1>2, <1>d DEF ReadRule, Finished
  <2>2. Proper(req'[r], r) /\ req'[r].pc # "stopping"
        /\ \A s \in Req \ {r} : req'[s] = req[s]
    <3>1. CASE store[req[r].id] # NoDef /\ req[r].op = "patch"
      <4>1. store[req[r].id].Body \in Body
        BY <2>1, <3>1 DEF TypeOK, Def
      <4>2. [req[r].def EXCEPT !.Body = store[req[r].id].Body] \in Def
        BY <1>0, <1>d, <2>1, <4>1, PatchedDef DEF Finished
      <4>3. /\ req'[r].pc = "check" /\ req'[r].id = req[r].id
            /\ req'[r].op = req[r].op /\ req'[r].try = req[r].try
            /\ req'[r].def = [req[r].def EXCEPT !.Body = store[req[r].id].Body]
            /\ \A s \in Req \ {r} : req'[s] = req[s]
        BY <1>0, <1>2, <3>1 DEF ReadRule, TypeOK, RequestState
      <4> QED
        BY <1>0, <2>1, <4>2, <4>3 DEF Proper
    <3>2. CASE ~(store[req[r].id] # NoDef /\ req[r].op = "patch")
      <4>1. PICK pc \in {"end", "update"} :
              Goto(r, pc) /\ (pc = "update" => req[r].op # "patch")
        BY <1>2, <3>2 DEF ReadRule
      <4> QED
        BY <1>0, <1>d, <1>g, <2>1, <4>1 DEF Proper
    <3> QED
      BY <3>1, <3>2
  <2> QED
    BY <1>2, <2>1, <2>2, RequestProper DEF ReadRule
<1>3. CASE Update(r)
  <2>1. req[r].pc = "write" /\ req[r].op \in {"create", "edit", "patch", "delete"}
    BY <1>0, <1>3, <1>d DEF Update, Finished, RequestState
  <2>2. /\ req'[r].pc \in {"check", "commit", "act"}
        /\ req[r].op = "patch" => req'[r].pc = "commit"
        /\ req'[r].try = req[r].try /\ req'[r].op = req[r].op
        /\ req'[r].id = req[r].id /\ req'[r].def = req[r].def
        /\ \A s \in Req \ {r} : req'[s] = req[s]
    <3>1. CASE req[r].op = "edit"
      BY <1>0, <1>3, <3>1 DEF Update, Goto, TypeOK, RequestState
    <3>2. CASE req[r].op = "patch"
      BY <1>0, <1>3, <3>2 DEF Update, Goto, TypeOK, RequestState
    <3>3. CASE req[r].op = "create"
      BY <1>0, <1>3, <3>3 DEF Update, TypeOK, RequestState
    <3>4. CASE req[r].op = "delete"
      BY <1>0, <1>3, <3>4 DEF Update, TypeOK, RequestState
    <3> QED
      BY <2>1, <3>1, <3>2, <3>3, <3>4
  <2>3. Proper(req'[r], r)
    BY <1>0, <2>1, <2>2 DEF Proper
  <2> QED
    BY <1>3, <2>1, <2>2, <2>3, RequestProper DEF Update
<1>4. CASE StatementFails(r)
  <2>1. /\ req'[r].op = req[r].op
        /\ req'[r].id = req[r].id /\ req'[r].def = req[r].def
        /\ \A s \in Req \ {r} : req'[s] = req[s]
        /\ \/ req'[r].pc = "end" /\ req'[r].try = req[r].try
           \/ /\ req[r].op = "patch"
              /\ req'[r].pc = "check" /\ req'[r].try = 2
    BY <1>0, <1>4 DEF StatementFails, Goto, TypeOK, RequestState
  <2>2. Proper(req'[r], r)
    BY <1>0, <1>4, <2>1 DEF StatementFails, Proper
  <2> QED
    BY <1>4, <2>1, <2>2, RequestProper DEF StatementFails
<1>5. CASE Check(r)
  <2>1. /\ req'[r].try = req[r].try /\ req'[r].op = req[r].op
        /\ req'[r].id = req[r].id /\ req'[r].def = req[r].def
        /\ \A s \in Req \ {r} : req'[s] = req[s]
        /\ req'[r].pc \in {"act", AfterSync(r)}
    BY <1>0, <1>5 DEF Check, TypeOK, RequestState
  <2>2. /\ AfterSync(r) \in {"commit", "update", "end"}
        /\ AfterSync(r) = "update" => req[r].op = "patch" /\ req[r].try = 1
        /\ AfterSync(r) = "commit" => req[r].op # "patch"
    BY DEF AfterSync
  <2>3. Proper(req'[r], r)
    BY <1>0, <1>5, <2>1, <2>2 DEF Check, Proper
  <2> QED
    BY <1>5, <2>1, <2>2, <2>3, RequestProper DEF Check
<1>6. CASE AddTask(r)
  <2>1. /\ req[r].pc = "act" /\ req[r].id \in Rule /\ mtx = None
        /\ loop[NewInst(r)] = "none"
    BY <1>0, <1>6, <1>d DEF AddTask, Finished, Unstarted
  <2>2. CASE tasks[req[r].id] = NoInst
    BY <1>6, <2>1, <2>2, TaskStarted DEF AddTask
  <2>3. CASE tasks[req[r].id] # NoInst
    <3>1. Goto(r, "end")
      BY <1>6, <2>3 DEF AddTask
    <3> QED
      BY <1>6, <1>e, <2>1, <2>3, <3>1, RequestProper DEF AddTask
  <2> QED
    BY <2>2, <2>3
<1>7. CASE EditTask(r)
  <2>1. /\ req[r].pc = "act" /\ req[r].id \in Rule /\ mtx = None
        /\ loop[NewInst(r)] = "none"
    BY <1>0, <1>7, <1>d DEF EditTask, Finished, Unstarted
  <2>2. CASE tasks[req[r].id] = NoInst
    BY <1>7, <2>1, <2>2, TaskStarted DEF EditTask
  <2>3. CASE tasks[req[r].id] # NoInst
    BY <1>7, <2>1, <2>3, TaskStopping DEF EditTask
  <2> QED
    BY <2>2, <2>3
<1>8. CASE DeleteTask(r)
  <2>1. req[r].pc = "act" /\ req[r].id \in Rule /\ mtx = None
    BY <1>0, <1>8, <1>d DEF DeleteTask, Finished
  <2>2. CASE tasks[req[r].id] = NoInst
    <3>1. Goto(r, AfterSync(r))
      BY <1>8, <2>2 DEF DeleteTask
    <3>2. /\ AfterSync(r) \in {"commit", "update", "end"}
          /\ AfterSync(r) = "update" => req[r].op = "patch" /\ req[r].try = 1
          /\ AfterSync(r) = "commit" => req[r].op # "patch"
      BY DEF AfterSync
    <3>3. Proper(req'[r], r)
      BY <1>0, <1>g, <2>1, <3>1, <3>2 DEF Proper
    <3> QED
      BY <1>8, <1>g, <2>1, <2>2, <3>1, <3>2, <3>3, RequestProper DEF DeleteTask
  <2>3. CASE tasks[req[r].id] # NoInst
    BY <1>8, <2>1, <2>3, TaskStopping DEF DeleteTask
  <2> QED
    BY <2>2, <2>3
<1>9. CASE PrepareFails(r)
  <2>1. Goto(r, "end") /\ req[r].pc = "act"
    BY <1>9 DEF PrepareFails
  <2> QED
    BY <1>9, <1>e, <2>1, RequestProper DEF PrepareFails
<1>11. CASE Commit(r)
  <2>1. Goto(r, "end") /\ req[r].pc = "commit"
    BY <1>11 DEF Commit
  <2> QED
    BY <1>11, <1>e, <2>1, RequestProper DEF Commit
<1>12. CASE CommitFails(r)
  <2>1. /\ req'[r].op = req[r].op
        /\ req'[r].id = req[r].id /\ req'[r].def = req[r].def
        /\ \A s \in Req \ {r} : req'[s] = req[s]
        /\ \/ req'[r].pc = "end" /\ req'[r].try = req[r].try
           \/ /\ req[r].op = "patch"
              /\ req'[r].pc = "check" /\ req'[r].try = 2
    BY <1>0, <1>12 DEF CommitFails, Goto, TypeOK, RequestState
  <2>2. Proper(req'[r], r)
    BY <1>0, <1>12, <2>1 DEF CommitFails, Proper
  <2> QED
    BY <1>12, <2>1, <2>2, RequestProper DEF CommitFails
<1>10. CASE StopReturns(r)
  <2>1. /\ req[r].pc = "stopping" /\ req[r].id \in Rule /\ mtx = r
        /\ loop[req[r].old] = "gone"
        /\ req[r].old \in done
        /\ \/ req[r].branch = "edit" /\ tasks[req[r].id] = NoInst
           \/ req[r].branch = "delete" /\ tasks[req[r].id] = req[r].old
    BY <1>0, <1>10, <1>d DEF StopReturns, Finished, TaskInv, Waits
  <2>2. CASE req[r].branch = "edit"
    <3>1. loop[NewInst(r)] = "none" /\ tasks[req[r].id] = NoInst
      BY <1>0, <2>1, <2>2 DEF Unstarted
    <3> QED
      BY <1>10, <2>1, <2>2, <3>1, TaskStarted DEF StopReturns
  <2>3. CASE req[r].branch = "delete"
    <3>0. /\ Goto(r, AfterSync(r)) /\ mtx' = None
          /\ UNCHANGED <<loop, done, mgr>>
          /\ tasks[req[r].id] = req[r].old
          /\ tasks' = [tasks EXCEPT ![req[r].id] = NoInst]
      BY <1>10, <2>1, <2>3 DEF StopReturns
    <3>1. /\ \A x \in Rule \ {req[r].id} : tasks'[x] = tasks[x]
          /\ tasks'[req[r].id] = NoInst
      BY <2>1, <3>0 DEF TypeOK
    <3>2. /\ AfterSync(r) \in {"commit", "update", "end"}
          /\ AfterSync(r) = "update" => req[r].op = "patch" /\ req[r].try = 1
          /\ AfterSync(r) = "commit" => req[r].op # "patch"
      BY DEF AfterSync
    <3>3. Proper(req'[r], r)
      BY <1>0, <1>g, <2>1, <3>0, <3>2 DEF Proper
    <3>4. \A s \in Req \ {r} : Proper(req'[s], s) /\ req'[s].pc # "stopping"
      <4>1. \A s \in Req \ {r} : req'[s] = req[s]
        BY <1>g, <3>0
      <4>2. \A s \in Req \ {r} : req[s].pc # "stopping"
        BY <2>1 DEF TaskInv, Waits
      <4> QED
        BY <1>0, <4>1, <4>2, AllProper
    <3>p. \A s \in Req : Proper(req'[s], s) /\ req'[s].pc # "stopping"
      BY <1>g, <3>0, <3>2, <3>3, <3>4
    <3>5. Targeted' /\ Unstarted'
      <4>2. Targeted'
        BY <3>p DEF Targeted, Finished, Proper
      <4>3. Unstarted'
        BY <3>0, <3>p DEF Unstarted, NewInst, Proper
      <4> QED
        BY <4>2, <4>3
    <3>6. Waits'
      BY <3>0, <3>p DEF Waits
    <3>7. Distinct'
      BY <3>0, <3>1 DEF TaskInv, Distinct
    <3>8. StoppedByHolder'
      <4>1. NoInst \notin done
        BY InstFacts DEF TypeOK
      <4> QED
        BY <2>1, <3>0, <3>1, <4>1 DEF TaskInv, StoppedByHolder
    <3>9. NoStrayEvaluator'
      <4> SUFFICES ASSUME NEW i \in Inst, Running(i)'
                   PROVE  \E id \in Rule : tasks'[id] = i
        BY DEF NoStrayEvaluator
      <4>1. Running(i) /\ i # req[r].old
        BY <2>1, <3>0 DEF Running
      <4>2. \A s \in Req : req[s].pc = "stopping" => s = r
        BY <2>1 DEF TaskInv, Waits
      <4>3. PICK id \in Rule : tasks[id] = i
        BY <4>1, <4>2 DEF TaskInv, NoStrayEvaluator
      <4>4. id # req[r].id
        BY <3>0, <4>1, <4>3
      <4> QED
        BY <3>1, <4>3, <4>4
    <3> QED
      BY <3>5, <3>6, <3>7, <3>8, <3>9 DEF TaskInv
  <2> QED
    BY <2>1, <2>2, <2>3
<1>13. CASE BeginTx(r)
  <2>1. Goto(r, "write") /\ req[r].pc = "update"
    BY <1>13 DEF BeginTx
  <2>2. /\ req'[r].pc = "write"
        /\ req'[r].try = req[r].try /\ req'[r].op = req[r].op
        /\ req'[r].id = req[r].id /\ req'[r].def = req[r].def
        /\ \A s \in Req \ {r} : req'[s] = req[s]
    BY <1>0, <2>1 DEF Goto, TypeOK, RequestState
  <2>3. Proper(req'[r], r)
    BY <1>0, <2>1, <2>2 DEF Proper
  <2> QED
    BY <1>13, <2>1, <2>2, <2>3, RequestProper DEF BeginTx
<1> QED
  BY <1>1, <1>2, <1>3, <1>4, <1>5, <1>6, <1>7, <1>8, <1>9, <1>10, <1>11, <1>12,
     <1>13
  DEF RequestStep

(***************************************************************************)
(* A step of a loop preserves the invariant: no loop starts or comes back. *)
(***************************************************************************)
LEMMA TaskLoop ==
    ASSUME TypeOK, TaskInv, NEW i \in Inst, LoopStep(i)
    PROVE  TaskInv'
<1>1. /\ UNCHANGED <<tasks, done, mtx, mgr, req>>
      /\ loop[i] \in {"wait", "query", "send"} /\ loop'[i] # "none"
      /\ \A j \in Inst \ {i} : loop'[j] = loop[j]
  BY DEF TypeOK, LoopStep, TickArrives, DoneSeen, Evaluate, Send, LoopTo
<1>2. \A j \in Inst : (loop'[j] = "none" <=> loop[j] = "none")
                      /\ (Running(j)' => Running(j))
  BY <1>1 DEF Running
<1>3. Targeted' /\ Waits' /\ StoppedByHolder'
  BY <1>1 DEF TaskInv, Targeted, Waits, StoppedByHolder, Finished
<1>4. Unstarted'
  <2>1. \A r \in Req : <<r, 2>> \in Inst /\ <<r, req[r].try>> \in Inst
    BY InstFacts DEF TypeOK, RequestState
  <2> QED
    BY <1>1, <1>2, <2>1 DEF TaskInv, Unstarted, NewInst
<1>5. Distinct'
  BY <1>1, <1>2 DEF TaskInv, Distinct, TypeOK
<1>6. NoStrayEvaluator'
  BY <1>1, <1>2 DEF TaskInv, NoStrayEvaluator
<1> QED
  BY <1>3, <1>4, <1>5, <1>6 DEF TaskInv

(***************************************************************************)
(* Stopping and restarting the manager preserve the invariant.             *)
(***************************************************************************)
LEMMA TaskManager ==
    ASSUME TypeOK, TaskInv,
           \/ Stop
           \/ \E id \in Rule : StopTask(id)
           \/ StopEnds
           \/ \E loaded \in SUBSET Org : Restart(loaded)
    PROVE  TaskInv'
<1>1. ASSUME UNCHANGED <<tasks, loop, mtx, req>>, mgr' # "up",
             done' = done \/ \E id \in Rule : /\ tasks[id] # NoInst
                                             /\ done' = done \cup {tasks[id]}
      PROVE  TaskInv'
  <2>1. Targeted' /\ Unstarted' /\ NoStrayEvaluator' /\ StoppedByHolder'
    BY <1>1 DEF TaskInv, Targeted, Unstarted, NoStrayEvaluator, Running,
                StoppedByHolder, Finished, NewInst
  <2>2. Waits'
    BY <1>1 DEF TaskInv, Waits
  <2>3. Distinct'
    BY <1>1 DEF TaskInv, Distinct
  <2> QED
    BY <2>1, <2>2, <2>3 DEF TaskInv
<1>2. CASE Stop
  BY <1>1, <1>2 DEF Stop
<1>3. CASE \E id \in Rule : StopTask(id)
  BY <1>1, <1>3 DEF StopTask
<1>4. CASE StopEnds
  BY <1>1, <1>4 DEF StopEnds
<1>5. ASSUME NEW loaded \in SUBSET Org, Restart(loaded)
      PROVE  TaskInv'
  <2>1. \A r \in Req : /\ req'[r].pc \in {"new", "end"}
                       /\ req'[r].try = req[r].try
                       /\ req'[r].pc = "new" => req[r].pc = "new"
    <3> SUFFICES ASSUME NEW r \in Req
                 PROVE  /\ req'[r].pc \in {"new", "end"}
                        /\ req'[r].try = req[r].try
                        /\ req'[r].pc = "new" => req[r].pc = "new"
      OBVIOUS
    <3> DEFINE pc == IF req[r].pc = "new" THEN "new" ELSE "end"
    <3>1. req[r] \in RequestState
      BY DEF TypeOK
    <3>2. req'[r] = [req[r] EXCEPT !.pc = pc, !.old = NoInst]
      BY <1>5 DEF Restart
    <3>3. req'[r].pc = pc /\ req'[r].try = req[r].try
      BY <3>1, <3>2 DEF RequestState
    <3> QED
      BY <3>3
  <2>2. \A id \in Rule : tasks'[id] = NoInst \/ tasks'[id] = <<id, 0>>
    BY <1>5 DEF Restart
  <2>3. \A r \in Req, k \in {1, 2} : loop'[<<r, k>>] = "none"
    BY <1>5, <2>2, InstFacts DEF Restart, NoInst
  <2>4. \A id \in Rule : tasks'[id] # NoInst => loop'[tasks'[id]] # "none"
    BY <1>5, <2>2, InstFacts DEF Restart
  <2>5. \A i \in Inst : Running(i)' => \E id \in Rule : tasks'[id] = i
    BY <1>5 DEF Restart, Running
  <2>6. Targeted'
    BY <2>1 DEF TaskInv, Targeted, Finished
  <2>7. Waits'
    BY <1>5, <2>1 DEF Restart, Waits
  <2>8. Unstarted'
    <3>1. \A r \in Req : req'[r].try \in {1, 2}
      BY <2>1 DEF TypeOK, RequestState
    <3> QED
      BY <2>3, <3>1 DEF Unstarted, NewInst
  <2>9. Distinct'
    BY <1>5, <2>2, <2>4, InstFacts DEF Restart, Distinct
  <2>10. StoppedByHolder' /\ NoStrayEvaluator'
    BY <1>5, <2>5 DEF Restart, StoppedByHolder, NoStrayEvaluator
  <2> QED
    BY <2>6, <2>7, <2>8, <2>9, <2>10 DEF TaskInv
<1> QED
  BY <1>2, <1>3, <1>4, <1>5

(***************************************************************************)
(* Every variable of the rule manager always has its type, and the tasks   *)
(* satisfy the invariant.                                                  *)
(***************************************************************************)
THEOREM TaskSafety == Spec => [](TypeOK /\ TaskInv)
<1>1. Init => TypeOK /\ TaskInv
  BY TypeInit, TaskInit
<1>2. TypeOK /\ TaskInv /\ [Next]_vars => (TypeOK /\ TaskInv)'
  <2> SUFFICES ASSUME TypeOK, TaskInv, [Next]_vars
               PROVE  TypeOK' /\ TaskInv'
    OBVIOUS
  <2>t. Targeted
    BY DEF TaskInv
  <2>1. ASSUME NEW r \in Req, RequestStep(r)
        PROVE  TypeOK' /\ TaskInv'
    BY <2>1, <2>t, TypeRequest, TaskRequest
  <2>2. ASSUME NEW i \in Inst, LoopStep(i)
        PROVE  TypeOK' /\ TaskInv'
    BY <2>2, TypeLoop, TaskLoop
  <2>3. CASE \/ Stop
             \/ \E id \in Rule : StopTask(id)
             \/ StopEnds
             \/ \E loaded \in SUBSET Org : Restart(loaded)
    BY <2>3, TypeManager, TaskManager
  <2>4. CASE UNCHANGED vars
    BY <2>4 DEF vars, TypeOK, TaskInv, Targeted, Waits, Unstarted, Distinct,
                StoppedByHolder, NoStrayEvaluator, Finished, NewInst, Running
  <2> QED
    BY <2>1, <2>2, <2>3, <2>4 DEF Next
<1> QED
  BY <1>1, <1>2, PTL DEF Spec

(***************************************************************************)
(* Whatever requests race, fail or are cut off by a restart, an evaluation *)
(* loop that runs is the task of a rule or is being stopped: no loop keeps *)
(* evaluating, and sending alerts, where nobody can stop it.               *)
(***************************************************************************)
THEOREM NoStrayEvaluatorHolds == Spec => []NoStrayEvaluator
<1>1. TypeOK /\ TaskInv => NoStrayEvaluator
  BY DEF TaskInv
<1> QED
  BY <1>1, TaskSafety, PTL

(***************************************************************************)
(* No task's done channel is closed twice: whoever may take the mutex      *)
(* finds no stopped task.                                                  *)
(***************************************************************************)
THEOREM StoppedOnceHolds == Spec => []StoppedOnce
<1>1. TypeOK /\ TaskInv => StoppedOnce
  BY RequestAssumption DEF TypeOK, TaskInv, StoppedByHolder, StoppedOnce
<1> QED
  BY <1>1, TaskSafety, PTL

(***************************************************************************)
(* Every variable of the rule manager always has its type.                 *)
(***************************************************************************)
THEOREM TypeCorrect == Spec => []TypeOK
BY TaskSafety, PTL

-----------------------------------------------------------------------------
(***************************************************************************)
(* What the row lock protects.  Without patches a request touches the task *)
(* of a rule only in its transaction, and then it has locked the row or    *)
(* the row is gone.                                                        *)
(***************************************************************************)
Holding == {"check", "act", "stopping", "commit"}

HasRow(r) == req[r].pc \in Holding /\ lock[req[r].id] = r

RowInv ==
    /\ \A r \in Req : req[r].op # "patch"
    /\ \A r \in Req : req[r].pc \in Holding => HasRow(r) \/ ~RowFound(r)
    /\ \A id \in Rule : lock[id] # None =>
          /\ req[lock[id]].id = id
          /\ req[lock[id]].pc \in Holding
          /\ RowFound(lock[id])

(***************************************************************************)
(* An id that a create took is its own until it commits: the others that   *)
(* have the id do not find the rule.                                       *)
(***************************************************************************)
CreateInv ==
    /\ \A id \in unused :
          store[id] = NoDef /\ tasks[id] = NoInst /\ rules[id] = NoInst
    /\ \A r \in Req : ~Finished(r) => req[r].id \notin unused
    /\ \A r \in Req : req[r].pc = "read" => req[r].op # "create"
    /\ \A r \in Req :
          (req[r].op = "create" /\ ~Finished(r)) =>
             /\ store[req[r].id] = NoDef
             /\ req[r].pc \in {"update", "write"} =>
                   tasks[req[r].id] = NoInst /\ rules[req[r].id] = NoInst
             /\ \A s \in Req \ {r} :
                   (~Finished(s) /\ req[s].id = req[r].id) => req[s].pc = "read"

(***************************************************************************)
(* Manager.rules and Manager.tasks agree on a stored rule but while the    *)
(* holder of its row waits in editTask.                                    *)
(***************************************************************************)
ShownInv ==
    /\ \A id \in Rule : store[id] # NoDef /\ lock[id] = None =>
          rules[id] = tasks[id]
    /\ \A r \in Req : HasRow(r) =>
          /\ req[r].pc \in {"check", "act", "commit"} =>
                rules[req[r].id] = tasks[req[r].id]
          /\ req[r].pc = "act" /\ req[r].branch = "add" => tasks[req[r].id] = NoInst
          /\ req[r].pc = "stopping" /\ req[r].branch = "edit" =>
                rules[req[r].id] = NewInst(r)

LockInv == RowInv /\ CreateInv /\ ShownInv

(***************************************************************************)
(* With edits and deletes, and no faults, the task of a stored rule is     *)
(* that of its definition, or of the definition that the holder of its row *)
(* is about to commit.                                                     *)
(***************************************************************************)
Fits(t, d, f) == IF d.Disabled THEN t = NoInst ELSE t # NoInst /\ f[t] = d

Matches(id, d) == Fits(tasks[id], d, def)

MatchInv ==
    /\ \A id \in Rule : store[id] # NoDef /\ lock[id] = None =>
          Matches(id, store[id])
    /\ \A r \in Req :
          /\ req[r].op \in {"none", "edit", "delete"}
          /\ HasRow(r) /\ req[r].op = "edit" =>
                /\ req[r].pc \in {"act", "stopping"} =>
                      /\ req[r].def.Disabled => req[r].branch = "delete"
                      /\ ~req[r].def.Disabled => req[r].branch \in {"add", "edit"}
                /\ req[r].pc = "commit" => Matches(req[r].id, req[r].def)

(***************************************************************************)
(* A step of the request r in its transaction, or on the way into it, that *)
(* leaves the other requests and the other rules alone.                    *)
(***************************************************************************)
Aside(r) ==
    /\ \A s \in Req \ {r} : req'[s] = req[s]
    /\ \A x \in Rule \ {req[r].id} :
          /\ lock'[x] = lock[x] /\ tasks'[x] = tasks[x]
          /\ rules'[x] = rules[x] /\ store'[x] = store[x]
          /\ tasks[x] # NoInst => def'[tasks[x]] = def[tasks[x]]
    /\ unused' = unused
    /\ req'[r].id = req[r].id /\ req'[r].op = req[r].op
    /\ req'[r].try = req[r].try /\ req'[r].def = req[r].def

\* What such a step leaves of the request and its rule, whose row it has found.
Own(r) ==
    LET k == req[r].id
        q == req'[r]
    IN  /\ lock[k] \in {None, r} /\ lock'[k] \in {None, r}
        /\ q.pc \in Holding \cup {"end"}
        /\ lock'[k] = r <=> q.pc \in Holding
        /\ lock'[k] = None \/ q.pc \in {"check", "act", "commit"} => rules'[k] = tasks'[k]
        /\ q.pc = "act" /\ q.branch = "add" => tasks'[k] = NoInst
        /\ q.pc = "stopping" /\ q.branch = "edit" => rules'[k] = NewInst(r)
        /\ q.op = "create" /\ q.pc # "end" => store'[k] = NoDef
        /\ q.op # "create" /\ q.pc # "end" => store'[k] # NoDef

\* What it leaves when the row is gone.
Lost(r) ==
    LET k == req[r].id
        q == req'[r]
    IN  /\ store[k] = NoDef /\ store'[k] = NoDef
        /\ lock[k] = None /\ lock'[k] = None
        /\ q.pc \in Holding \cup {"end"}
        /\ q.op # "create"

(***************************************************************************)
(* A request in its transaction has the row it found to itself, and nobody *)
(* has a row that is gone.                                                 *)
(***************************************************************************)
LEMMA InTransaction ==
    ASSUME TypeOK, TaskInv, LockInv, NEW r \in Req,
           req[r].pc \in Holding \cup {"write"}
    PROVE  /\ ~Finished(r) /\ req[r].id \in Rule /\ req[r].id \notin unused
           /\ req[r].op \in {"create", "edit", "delete"} /\ req[r].def \in Def
           /\ RowFound(r) => (lock[req[r].id] = r <=> req[r].pc \in Holding)
           /\ ~RowFound(r) => lock[req[r].id] = None
           /\ \A x \in Rule : lock[x] = r => x = req[r].id
           /\ AfterSync(r) = "commit"
<1>1. ~Finished(r)
  BY DEF Finished, Holding
<1>2. req[r].id \in Rule /\ req[r].op # "none" /\ req[r].def \in Def
  BY <1>1 DEF TaskInv, Targeted
<1>3. req[r].op \in {"none", "create", "edit", "patch", "delete"}
  BY DEF TypeOK, RequestState
<1>4. req[r].op # "patch"
  BY DEF LockInv, RowInv
<1>5. r # None
  BY RequestAssumption
<1>6. /\ RowFound(r) => (lock[req[r].id] = r <=> req[r].pc \in Holding)
      /\ \A x \in Rule : lock[x] = r => x = req[r].id
  BY <1>2, <1>5 DEF LockInv, RowInv, HasRow
<1>7. req[r].id \notin unused
  BY <1>1 DEF LockInv, CreateInv
<1>8. AfterSync(r) = "commit"
  BY <1>4 DEF AfterSync
<1>9. ASSUME ~RowFound(r), lock[req[r].id] # None PROVE FALSE
  <2> DEFINE s == lock[req[r].id]
  <2>1. s \in Req
    BY <1>2, <1>9 DEF TypeOK
  <2>2. req[s].id = req[r].id /\ req[s].pc \in Holding /\ RowFound(s)
    BY <1>2, <1>9 DEF LockInv, RowInv
  <2>3. req[s].op = "create" /\ s # r /\ ~Finished(s)
    BY <1>9, <2>2 DEF RowFound, Finished, Holding
  <2>4. req[r].pc = "read"
    BY <1>1, <2>1, <2>2, <2>3 DEF LockInv, CreateInv
  <2> QED
    BY <2>4 DEF Holding
<1> QED
  BY <1>1, <1>2, <1>3, <1>4, <1>6, <1>7, <1>8, <1>9

(***************************************************************************)
(* Such a step keeps what the row lock protects.                           *)
(***************************************************************************)
LEMMA LockKept ==
    ASSUME TypeOK, TaskInv, LockInv, NEW r \in Req, RowFound(r),
           req[r].pc \in Holding \cup {"write"}, Aside(r), Own(r)
    PROVE  LockInv'
<1> DEFINE k == req[r].id
<1>1. /\ ~Finished(r) /\ k \in Rule /\ k \notin unused
      /\ req[r].op \in {"create", "edit", "delete"}
      /\ \A x \in Rule : lock[x] = r => x = k
  BY InTransaction
<1>2. RowInv /\ CreateInv /\ ShownInv
  BY DEF LockInv
<1>3. /\ \A s \in Req \ {r} : req'[s] = req[s]
      /\ \A x \in Rule \ {k} :
            /\ lock'[x] = lock[x] /\ tasks'[x] = tasks[x]
            /\ rules'[x] = rules[x] /\ store'[x] = store[x]
      /\ unused' = unused
      /\ req'[r].id = k /\ req'[r].op = req[r].op /\ req'[r].try = req[r].try
  BY DEF Aside
<1>4. /\ lock[k] \in {None, r} /\ lock'[k] \in {None, r}
      /\ req'[r].pc \in Holding \cup {"end"}
      /\ lock'[k] = r <=> req'[r].pc \in Holding
      /\ lock'[k] = None \/ req'[r].pc \in {"check", "act", "commit"}
           => rules'[k] = tasks'[k]
      /\ req'[r].pc = "act" /\ req'[r].branch = "add" => tasks'[k] = NoInst
      /\ req'[r].pc = "stopping" /\ req'[r].branch = "edit" => rules'[k] = NewInst(r)
      /\ req'[r].op = "create" /\ req'[r].pc # "end" => store'[k] = NoDef
      /\ req'[r].op # "create" /\ req'[r].pc # "end" => store'[k] # NoDef
  BY DEF Own
<1>5. r # None /\ lock \in [Rule -> Req \cup {None}]
      /\ \A s \in Req : s # None
  BY RequestAssumption DEF TypeOK
<1> HIDE DEF k
<1>6. \A s \in Req \ {r} : req[s].pc \in Holding =>
          req[s].id \in Rule \ {k}
  <2> SUFFICES ASSUME NEW s \in Req \ {r}, req[s].pc \in Holding
               PROVE  req[s].id \in Rule \ {k}
    OBVIOUS
  <2>1. req[s].id \in Rule
    BY InTransaction
  <2>2. ASSUME req[s].id = k PROVE FALSE
    <3>1. req[r].op # "create"
      BY <1>1, <1>2, <2>2 DEF CreateInv, Finished, Holding, k
    <3>2. RowFound(s)
      BY <2>2, <3>1 DEF RowFound, k
    <3>3. lock[k] = s
      BY <2>2, <3>2, InTransaction
    <3> QED
      BY <1>4, <1>5, <3>3
  <2> QED
    BY <2>1, <2>2
<1>7. RowInv'
  <2>1. \A s \in Req : req'[s].op # "patch"
    BY <1>1, <1>2, <1>3 DEF RowInv
  <2>2. ASSUME NEW s \in Req, req'[s].pc \in Holding
        PROVE  HasRow(s)' \/ ~RowFound(s)'
    <3>1. CASE s = r
      BY <1>3, <1>4, <2>2, <3>1 DEF HasRow
    <3>2. CASE s # r
      <4>1. req'[s] = req[s] /\ req[s].id \in Rule \ {k} /\ req[s].pc \in Holding
        BY <1>3, <1>6, <2>2, <3>2
      <4>2. lock'[req[s].id] = lock[req[s].id] /\ store'[req[s].id] = store[req[s].id]
        BY <1>3, <4>1
      <4> QED
        BY <1>2, <4>1, <4>2 DEF RowInv, HasRow, RowFound
    <3> QED
      BY <3>1, <3>2
  <2>3. ASSUME NEW id \in Rule, lock'[id] # None
        PROVE  /\ req'[lock'[id]].id = id /\ req'[lock'[id]].pc \in Holding
               /\ req'[lock'[id]].op = "create" \/ store'[id] # NoDef
    <3>1. CASE id = k
      BY <1>3, <1>4, <2>3, <3>1 DEF Holding
    <3>2. CASE id # k
      <4>1. lock'[id] = lock[id] /\ lock[id] \in Req \ {r} /\ store'[id] = store[id]
        BY <1>1, <1>3, <1>5, <2>3, <3>2
      <4>2. /\ req[lock[id]].id = id /\ req[lock[id]].pc \in Holding
            /\ req[lock[id]].op = "create" \/ store[id] # NoDef
        BY <1>2, <2>3, <4>1 DEF RowInv, RowFound
      <4> QED
        BY <1>3, <4>1, <4>2
    <3> QED
      BY <3>1, <3>2
  <2> QED
    BY <2>1, <2>2, <2>3 DEF RowInv, RowFound
<1>8. ShownInv'
  <2>1. \A id \in Rule : store'[id] # NoDef /\ lock'[id] = None =>
           rules'[id] = tasks'[id]
    BY <1>2, <1>3, <1>4 DEF ShownInv
  <2>2. ASSUME NEW s \in Req, HasRow(s)'
        PROVE  /\ req'[s].pc \in {"check", "act", "commit"} =>
                     rules'[req'[s].id] = tasks'[req'[s].id]
               /\ req'[s].pc = "act" /\ req'[s].branch = "add" =>
                     tasks'[req'[s].id] = NoInst
               /\ req'[s].pc = "stopping" /\ req'[s].branch = "edit" =>
                     rules'[req'[s].id] = <<s, req'[s].try>>
    <3>1. CASE s = r
      BY <1>3, <1>4, <3>1 DEF NewInst
    <3>2. CASE s # r
      <4>1. req'[s] = req[s] /\ req[s].pc \in Holding
        BY <1>3, <2>2, <3>2 DEF HasRow
      <4>2. req[s].id \in Rule \ {k}
        BY <1>6, <3>2, <4>1
      <4>3. /\ rules'[req[s].id] = rules[req[s].id] /\ tasks'[req[s].id] = tasks[req[s].id]
            /\ lock'[req[s].id] = lock[req[s].id]
        BY <1>3, <4>2
      <4>4. HasRow(s)
        BY <2>2, <4>1, <4>3 DEF HasRow
      <4> QED
        BY <1>2, <4>1, <4>3, <4>4 DEF ShownInv, NewInst
    <3> QED
      BY <3>1, <3>2
  <2> QED
    BY <2>1, <2>2 DEF ShownInv, NewInst
<1>9. CreateInv'
  <2>1. \A id \in unused : store'[id] = NoDef /\ tasks'[id] = NoInst /\ rules'[id] = NoInst
    BY <1>1, <1>2, <1>3 DEF CreateInv, TypeOK
  <2>2. \A s \in Req : req'[s].pc \notin {"new", "end"} => req'[s].id \notin unused
    BY <1>1, <1>2, <1>3 DEF CreateInv, Finished
  <2>4. \A s \in Req : req'[s].pc = "read" => req'[s].op # "create"
    BY <1>2, <1>3, <1>4 DEF CreateInv, Holding
  <2>3. ASSUME NEW s \in Req, req'[s].op = "create", req'[s].pc \notin {"new", "end"}
        PROVE  /\ store'[req'[s].id] = NoDef
               /\ req'[s].pc \in {"update", "write"} =>
                     tasks'[req'[s].id] = NoInst /\ rules'[req'[s].id] = NoInst
               /\ \A t \in Req \ {s} :
                     (req'[t].pc \notin {"new", "end"} /\ req'[t].id = req'[s].id)
                       => req'[t].pc = "read"
    <3>1. CASE s = r
      <4>1. store'[k] = NoDef /\ req'[r].pc \notin {"update", "write"}
        BY <1>3, <1>4, <2>3, <3>1 DEF Holding
      <4>2. \A t \in Req \ {r} : (~Finished(t) /\ req[t].id = k) => req[t].pc = "read"
        BY <1>1, <1>2, <1>3, <2>3, <3>1 DEF CreateInv, k
      <4> QED
        BY <1>3, <3>1, <4>1, <4>2 DEF Finished
    <3>2. CASE s # r
      <4>1. req'[s] = req[s] /\ ~Finished(s) /\ req[s].op = "create"
        BY <1>3, <2>3, <3>2 DEF Finished
      <4>2. /\ store[req[s].id] = NoDef /\ req[s].id \in Rule
            /\ req[s].pc \in {"update", "write"} =>
                  tasks[req[s].id] = NoInst /\ rules[req[s].id] = NoInst
            /\ \A t \in Req \ {s} :
                  (~Finished(t) /\ req[t].id = req[s].id) => req[t].pc = "read"
        BY <1>2, <4>1 DEF CreateInv, TaskInv, Targeted
      <4>3. req[s].id # k
        BY <1>1, <3>2, <4>2 DEF k, Holding
      <4>4. /\ store'[req[s].id] = store[req[s].id]
            /\ tasks'[req[s].id] = tasks[req[s].id] /\ rules'[req[s].id] = rules[req[s].id]
        BY <1>3, <4>2, <4>3
      <4>5. \A t \in Req \ {s} :
              (req'[t].pc \notin {"new", "end"} /\ req'[t].id = req[s].id)
                 => req'[t].pc = "read"
        BY <1>3, <4>2, <4>3 DEF Finished
      <4> QED
        BY <4>1, <4>2, <4>4, <4>5
    <3> QED
      BY <3>1, <3>2
  <2> QED
    BY <1>3, <2>1, <2>2, <2>3, <2>4 DEF CreateInv, Finished
<1> QED
  BY <1>7, <1>8, <1>9 DEF LockInv

(***************************************************************************)
(* A step of a request whose row is gone disturbs nobody who has a row.    *)
(***************************************************************************)
LEMMA LostKept ==
    ASSUME TypeOK, TaskInv, LockInv, NEW r \in Req,
           req[r].pc \in Holding \cup {"write"}, Aside(r), Lost(r)
    PROVE  LockInv'
<1> DEFINE k == req[r].id
<1>1. /\ ~Finished(r) /\ k \in Rule /\ k \notin unused
      /\ req[r].op \in {"create", "edit", "delete"}
      /\ \A x \in Rule : lock[x] = r => x = k
  BY InTransaction
<1>2. RowInv /\ CreateInv /\ ShownInv
  BY DEF LockInv
<1>3. /\ \A s \in Req \ {r} : req'[s] = req[s]
      /\ \A x \in Rule \ {k} :
            /\ lock'[x] = lock[x] /\ tasks'[x] = tasks[x]
            /\ rules'[x] = rules[x] /\ store'[x] = store[x]
      /\ unused' = unused
      /\ req'[r].id = k /\ req'[r].op = req[r].op
  BY DEF Aside
<1>4. /\ store[k] = NoDef /\ store'[k] = NoDef /\ lock[k] = None /\ lock'[k] = None
      /\ req'[r].pc \in Holding \cup {"end"} /\ req'[r].op # "create"
  BY DEF Lost
<1>5. /\ lock \in [Rule -> Req \cup {None}]
      /\ \A s \in Req : s # None
  BY RequestAssumption DEF TypeOK
<1>6. \A s \in Req : req[s].pc \in Holding => req[s].id \in Rule
  BY InTransaction
<1>7. \A s \in Req : req[s].op = "create" /\ ~Finished(s) => req[s].id \in Rule \ {k}
  BY <1>1, <1>2, <1>3, <1>4 DEF CreateInv, TaskInv, Targeted, Holding
<1> HIDE DEF k
<1>8. RowInv'
  <2>1. \A s \in Req : req'[s].op # "patch"
    BY <1>1, <1>2, <1>3 DEF RowInv
  <2>2. ASSUME NEW s \in Req, req'[s].pc \in Holding
        PROVE  HasRow(s)' \/ ~RowFound(s)'
    <3>1. CASE s = r
      BY <1>3, <1>4, <3>1 DEF RowFound
    <3>2. CASE s # r
      <4>1. req'[s] = req[s] /\ req[s].pc \in Holding /\ req[s].id \in Rule
        BY <1>3, <1>6, <2>2, <3>2
      <4>2. HasRow(s) \/ ~RowFound(s)
        BY <1>2, <4>1 DEF RowInv
      <4>3. CASE req[s].id = k
        <5>1. ~HasRow(s)
          BY <1>4, <1>5, <4>3 DEF HasRow
        <5> QED
          BY <1>4, <4>1, <4>2, <4>3, <5>1 DEF RowFound
      <4>4. CASE req[s].id # k
        <5>1. lock'[req[s].id] = lock[req[s].id] /\ store'[req[s].id] = store[req[s].id]
          BY <1>3, <4>1, <4>4
        <5> QED
          BY <4>1, <4>2, <5>1 DEF HasRow, RowFound
      <4> QED
        BY <4>3, <4>4
    <3> QED
      BY <3>1, <3>2
  <2>3. ASSUME NEW id \in Rule, lock'[id] # None
        PROVE  /\ req'[lock'[id]].id = id /\ req'[lock'[id]].pc \in Holding
               /\ req'[lock'[id]].op = "create" \/ store'[id] # NoDef
    <3>1. lock'[id] = lock[id] /\ lock[id] \in Req \ {r} /\ store'[id] = store[id]
      BY <1>1, <1>3, <1>4, <1>5, <2>3
    <3>2. /\ req[lock[id]].id = id /\ req[lock[id]].pc \in Holding
          /\ req[lock[id]].op = "create" \/ store[id] # NoDef
      BY <1>2, <2>3, <3>1 DEF RowInv, RowFound
    <3> QED
      BY <1>3, <3>1, <3>2
  <2> QED
    BY <2>1, <2>2, <2>3 DEF RowInv, RowFound
<1>9. ShownInv'
  <2>1. \A id \in Rule : store'[id] # NoDef /\ lock'[id] = None =>
           rules'[id] = tasks'[id]
    BY <1>2, <1>3, <1>4 DEF ShownInv
  <2>2. ASSUME NEW s \in Req, HasRow(s)'
        PROVE  /\ req'[s].pc \in {"check", "act", "commit"} =>
                     rules'[req'[s].id] = tasks'[req'[s].id]
               /\ req'[s].pc = "act" /\ req'[s].branch = "add" =>
                     tasks'[req'[s].id] = NoInst
               /\ req'[s].pc = "stopping" /\ req'[s].branch = "edit" =>
                     rules'[req'[s].id] = <<s, req'[s].try>>
    <3>1. req'[s].id # k
      BY <1>4, <1>5, <2>2 DEF HasRow
    <3>2. req'[s] = req[s] /\ req[s].pc \in Holding /\ req[s].id \in Rule \ {k}
      BY <1>3, <1>6, <2>2, <3>1 DEF HasRow
    <3>3. /\ rules'[req[s].id] = rules[req[s].id] /\ tasks'[req[s].id] = tasks[req[s].id]
          /\ lock'[req[s].id] = lock[req[s].id]
      BY <1>3, <3>2
    <3>4. HasRow(s)
      BY <2>2, <3>2, <3>3 DEF HasRow
    <3> QED
      BY <1>2, <3>2, <3>3, <3>4 DEF ShownInv, NewInst
  <2> QED
    BY <2>1, <2>2 DEF ShownInv, NewInst
<1>10. CreateInv'
  <2>1. \A id \in unused : store'[id] = NoDef /\ tasks'[id] = NoInst /\ rules'[id] = NoInst
    BY <1>1, <1>2, <1>3 DEF CreateInv, TypeOK
  <2>2. \A s \in Req : req'[s].pc \notin {"new", "end"} => req'[s].id \notin unused
    BY <1>1, <1>2, <1>3 DEF CreateInv, Finished
  <2>3. \A s \in Req : req'[s].pc = "read" => req'[s].op # "create"
    BY <1>2, <1>3, <1>4 DEF CreateInv, Holding
  <2>4. ASSUME NEW s \in Req, req'[s].op = "create", req'[s].pc \notin {"new", "end"}
        PROVE  /\ store'[req'[s].id] = NoDef
               /\ req'[s].pc \in {"update", "write"} =>
                     tasks'[req'[s].id] = NoInst /\ rules'[req'[s].id] = NoInst
               /\ \A t \in Req \ {s} :
                     (req'[t].pc \notin {"new", "end"} /\ req'[t].id = req'[s].id)
                       => req'[t].pc = "read"
    <3>1. s # r /\ req'[s] = req[s] /\ ~Finished(s) /\ req[s].op = "create"
      BY <1>3, <1>4, <2>4 DEF Finished
    <3>2. req[s].id \in Rule \ {k}
      BY <1>7, <3>1
    <3>3. /\ store[req[s].id] = NoDef
          /\ req[s].pc \in {"update", "write"} =>
                tasks[req[s].id] = NoInst /\ rules[req[s].id] = NoInst
          /\ \A t \in Req \ {s} :
                (~Finished(t) /\ req[t].id = req[s].id) => req[t].pc = "read"
      BY <1>2, <3>1 DEF CreateInv
    <3>4. /\ store'[req[s].id] = store[req[s].id]
          /\ tasks'[req[s].id] = tasks[req[s].id] /\ rules'[req[s].id] = rules[req[s].id]
      BY <1>3, <3>2
    <3>5. \A t \in Req \ {s} :
            (req'[t].pc \notin {"new", "end"} /\ req'[t].id = req[s].id)
               => req'[t].pc = "read"
      BY <1>3, <3>2, <3>3 DEF Finished
    <3> QED
      BY <3>1, <3>3, <3>4, <3>5
  <2> QED
    BY <1>3, <2>1, <2>2, <2>3, <2>4 DEF CreateInv, Finished
<1> QED
  BY <1>8, <1>9, <1>10 DEF LockInv

\* The steps of a request before its transaction, and one that fails.
Outside(r) ==
    \/ ReadRule(r) \/ BeginTx(r) \/ StatementFails(r)

\* The steps of a request in its transaction.
Inside(r) ==
    \/ Update(r) \/ Check(r) \/ AddTask(r) \/ EditTask(r) \/ DeleteTask(r)
    \/ PrepareFails(r) \/ StopReturns(r) \/ Commit(r) \/ CommitFails(r)

(***************************************************************************)
(* An instance that is not started yet is nobody's task.                   *)
(***************************************************************************)
LEMMA NewInstFree ==
    ASSUME TypeOK, TaskInv, NEW r \in Req,
           req[r].pc = "act" \/ (req[r].pc = "stopping" /\ req[r].branch = "edit")
    PROVE  /\ NewInst(r) \in Inst /\ NewInst(r) # NoInst
           /\ \A x \in Rule : tasks[x] # NewInst(r)
<1>1. NewInst(r) \in Inst
  BY InstFacts DEF TypeOK, RequestState, NewInst
<1>2. loop[NewInst(r)] = "none"
  BY DEF TaskInv, Unstarted
<1> QED
  BY <1>1, <1>2, InstFacts DEF TaskInv, Distinct

(***************************************************************************)
(* The rollback or commit frees the row and no other.                      *)
(***************************************************************************)
LEMMA Unlocks ==
    ASSUME TypeOK, TaskInv, LockInv, NEW r \in Req, req[r].pc \in Holding, Unlock(r)
    PROVE  /\ lock'[req[r].id] = None
           /\ \A x \in Rule \ {req[r].id} : lock'[x] = lock[x]
<1>1. /\ req[r].id \in Rule /\ lock[req[r].id] \in {r, None}
      /\ \A x \in Rule : lock[x] = r => x = req[r].id
  BY InTransaction
<1> QED
  BY <1>1 DEF Unlock

(***************************************************************************)
(* What a request that has found its row does in its transaction touches   *)
(* its own rule only.                                                      *)
(***************************************************************************)
LEMMA InsideAside ==
    ASSUME TypeOK, TaskInv, LockInv, NEW r \in Req, RowFound(r), Inside(r)
    PROVE  /\ req[r].pc \in Holding \cup {"write"}
           /\ Aside(r) /\ Own(r)
<1> DEFINE k == req[r].id
<1>1. req[r].pc \in Holding \cup {"write"}
  BY DEF Inside, Update, Check, AddTask, EditTask, DeleteTask, PrepareFails,
         StopReturns, Commit, CommitFails, Holding
<1>2. /\ k \in Rule /\ req[r].op \in {"create", "edit", "delete"}
      /\ lock[k] = r <=> req[r].pc \in Holding
      /\ AfterSync(r) = "commit" /\ ~Finished(r)
  BY <1>1, InTransaction
<1>3. /\ lock \in [Rule -> Req \cup {None}] /\ r # None /\ req[r] \in RequestState
      /\ tasks \in [Rule -> Inst \cup {NoInst}] /\ rules \in [Rule -> Inst \cup {NoInst}]
      /\ store \in [Rule -> Def \cup {NoDef}] /\ def \in [Inst -> Def \cup {NoDef}]
      /\ req \in [Req -> RequestState]
  BY RequestAssumption DEF TypeOK
<1>4. /\ req[r].pc \in {"check", "act", "commit"} => rules[k] = tasks[k]
      /\ req[r].pc = "act" /\ req[r].branch = "add" => tasks[k] = NoInst
      /\ req[r].pc = "stopping" /\ req[r].branch = "edit" => rules[k] = NewInst(r)
      /\ lock[k] = None => rules[k] = tasks[k]
      /\ req[r].op = "create" => store[k] = NoDef
      /\ req[r].op # "create" => store[k] # NoDef
      /\ req[r].op = "create" /\ req[r].pc = "write" => tasks[k] = NoInst
  <2>1. req[r].pc \in Holding => HasRow(r)
    BY <1>2 DEF HasRow
  <2>2. /\ req[r].op = "create" => store[k] = NoDef
        /\ req[r].op # "create" => store[k] # NoDef
        /\ req[r].op = "create" /\ req[r].pc = "write" =>
              tasks[k] = NoInst /\ rules[k] = NoInst
    BY <1>2 DEF LockInv, CreateInv, RowFound
  <2>3. lock[k] = None => rules[k] = tasks[k]
    BY <1>1, <1>2, <1>3, <2>2 DEF LockInv, ShownInv
  <2> QED
    BY <2>1, <2>2, <2>3 DEF LockInv, ShownInv, Holding
<1>g. ASSUME NEW pc, Goto(r, pc)
      PROVE  /\ \A s \in Req \ {r} : req'[s] = req[s]
             /\ req'[r].pc = pc /\ req'[r].branch = req[r].branch
             /\ req'[r].try = req[r].try /\ req'[r].op = req[r].op
             /\ req'[r].id = k /\ req'[r].def = req[r].def
  BY <1>3, <1>g DEF Goto, RequestState
<1>5. CASE Update(r)
  <2>1. /\ req[r].pc = "write" /\ lock[k] = None /\ lock' = [lock EXCEPT ![k] = r]
        /\ UNCHANGED <<store, unused, tasks, rules, def>>
    BY <1>5 DEF Update, RowFound
  <2>2. /\ \A s \in Req \ {r} : req'[s] = req[s]
        /\ req'[r].pc \in {"check", "act"}
        /\ req'[r].pc = "act" /\ req'[r].branch = "add" => req[r].op = "create"
        /\ req'[r].try = req[r].try /\ req'[r].op = req[r].op
        /\ req'[r].id = k /\ req'[r].def = req[r].def
    <3>1. CASE req[r].op = "edit"
      BY <1>5, <1>g, <3>1 DEF Update
    <3>2. CASE req[r].op = "create"
      <4>1. req' = [req EXCEPT ![r].pc = "act", ![r].branch = "add"]
        BY <1>5, <3>2 DEF Update
      <4> QED
        BY <1>3, <3>2, <4>1 DEF RequestState
    <3>3. CASE req[r].op = "delete"
      <4>1. req' = [req EXCEPT ![r].pc = "act", ![r].branch = "delete"]
        BY <1>5, <3>3 DEF Update
      <4> QED
        BY <1>3, <3>3, <4>1 DEF RequestState
    <3> QED
      BY <1>2, <3>1, <3>2, <3>3
  <2>3. lock'[k] = r /\ \A x \in Rule \ {k} : lock'[x] = lock[x]
    BY <1>2, <1>3, <2>1
  <2>4. Aside(r)
    BY <2>1, <2>2, <2>3 DEF Aside
  <2>5. Own(r)
    BY <1>3, <1>4, <2>1, <2>2, <2>3 DEF Own, Holding
  <2> QED
    BY <1>1, <2>4, <2>5
<1>6. CASE Check(r)
  <2>1. /\ req[r].pc = "check" /\ UNCHANGED <<store, unused, lock, tasks, rules, def>>
        /\ \A s \in Req \ {r} : req'[s] = req[s]
        /\ req'[r].pc \in {"act", "commit"}
        /\ req'[r].branch = "add" => tasks[k] = NoInst
        /\ req'[r].try = req[r].try /\ req'[r].op = req[r].op
        /\ req'[r].id = k /\ req'[r].def = req[r].def
    BY <1>2, <1>3, <1>6 DEF Check, RequestState
  <2>2. Aside(r)
    BY <2>1 DEF Aside
  <2>3. Own(r)
    BY <1>2, <1>3, <1>4, <2>1 DEF Own, Holding
  <2> QED
    BY <1>1, <2>2, <2>3
<1>7. ASSUME req[r].pc = "act" \/ (req[r].pc = "stopping" /\ req[r].branch = "edit"),
             StartTask(r), Goto(r, "commit"), rules'[k] = NewInst(r),
             \A x \in Rule \ {k} : rules'[x] = rules[x],
             UNCHANGED <<store, unused, lock>>
      PROVE  Aside(r) /\ Own(r)
  <2>1. /\ NewInst(r) \in Inst /\ NewInst(r) # NoInst
        /\ \A x \in Rule : tasks[x] # NewInst(r)
    BY <1>7, NewInstFree
  <2>2. /\ tasks'[k] = NewInst(r) /\ \A x \in Rule \ {k} : tasks'[x] = tasks[x]
        /\ \A x \in Rule : tasks[x] # NoInst => def'[tasks[x]] = def[tasks[x]]
    BY <1>2, <1>3, <1>7, <2>1 DEF StartTask
  <2>3. Aside(r)
    BY <1>7, <1>g, <2>2 DEF Aside
  <2>4. Own(r)
    BY <1>2, <1>3, <1>4, <1>7, <1>g, <2>2 DEF Own, Holding
  <2> QED
    BY <2>3, <2>4
<1>8. CASE AddTask(r)
  <2>1. /\ req[r].pc = "act" /\ rules' = [rules EXCEPT ![k] = NewInst(r)]
        /\ StartTask(r) /\ Goto(r, "commit") /\ UNCHANGED <<store, unused, lock>>
    BY <1>2, <1>4, <1>8 DEF AddTask
  <2>2. rules'[k] = NewInst(r) /\ \A x \in Rule \ {k} : rules'[x] = rules[x]
    BY <1>2, <1>3, <2>1
  <2> QED
    BY <1>1, <1>7, <2>1, <2>2
<1>9. CASE PrepareFails(r)
  <2>1. /\ req[r].pc = "act" /\ Goto(r, "end") /\ Unlock(r)
        /\ UNCHANGED <<store, unused, tasks, rules, def>>
    BY <1>9 DEF PrepareFails
  <2>2. lock'[k] = None /\ \A x \in Rule \ {k} : lock'[x] = lock[x]
    BY <2>1, Unlocks DEF Holding
  <2>3. Aside(r)
    BY <1>g, <2>1, <2>2 DEF Aside
  <2>4. Own(r)
    BY <1>2, <1>3, <1>4, <1>g, <2>1, <2>2 DEF Own, Holding
  <2> QED
    BY <1>1, <2>3, <2>4
<1>10. ASSUME req[r].pc = "act", tasks[k] # NoInst,
              req' = [req EXCEPT ![r].pc = "stopping", ![r].old = tasks[k]],
              UNCHANGED <<store, unused, lock>>,
              \/ /\ req[r].branch = "delete" /\ UNCHANGED <<tasks, rules, def>>
              \/ /\ req[r].branch = "edit"
                 /\ tasks' = [tasks EXCEPT ![k] = NoInst]
                 /\ rules' = [rules EXCEPT ![k] = NewInst(r)]
                 /\ def' = [def EXCEPT ![NewInst(r)] = req[r].def]
       PROVE  Aside(r) /\ Own(r)
  <2>1. /\ NewInst(r) \in Inst /\ NewInst(r) # NoInst
        /\ \A x \in Rule : tasks[x] # NewInst(r)
    BY <1>10, NewInstFree
  <2>2. /\ \A s \in Req \ {r} : req'[s] = req[s]
        /\ req'[r].pc = "stopping" /\ req'[r].branch = req[r].branch
        /\ req'[r].try = req[r].try /\ req'[r].op = req[r].op
        /\ req'[r].id = k /\ req'[r].def = req[r].def
    BY <1>3, <1>10 DEF RequestState
  <2>3. /\ \A x \in Rule \ {k} : tasks'[x] = tasks[x] /\ rules'[x] = rules[x]
        /\ \A x \in Rule : tasks[x] # NoInst => def'[tasks[x]] = def[tasks[x]]
        /\ req[r].branch = "edit" => rules'[k] = NewInst(r)
    BY <1>2, <1>3, <1>10, <2>1
  <2>4. Aside(r)
    BY <1>10, <2>2, <2>3 DEF Aside
  <2>5. Own(r)
    BY <1>2, <1>3, <1>4, <1>10, <2>2, <2>3 DEF Own, Holding
  <2> QED
    BY <2>4, <2>5
<1>11. CASE EditTask(r)
  <2>1. CASE tasks[k] = NoInst
    <3>1. /\ req[r].pc = "act" /\ rules' = [rules EXCEPT ![k] = NewInst(r)]
          /\ StartTask(r) /\ Goto(r, "commit") /\ UNCHANGED <<store, unused, lock>>
      BY <1>2, <1>11, <2>1 DEF EditTask
    <3>2. rules'[k] = NewInst(r) /\ \A x \in Rule \ {k} : rules'[x] = rules[x]
      BY <1>2, <1>3, <3>1
    <3> QED
      BY <1>1, <1>7, <3>1, <3>2
  <2>2. CASE tasks[k] # NoInst
    <3>1. /\ req[r].pc = "act" /\ req[r].branch = "edit"
          /\ req' = [req EXCEPT ![r].pc = "stopping", ![r].old = tasks[k]]
          /\ UNCHANGED <<store, unused, lock>>
          /\ tasks' = [tasks EXCEPT ![k] = NoInst]
          /\ rules' = [rules EXCEPT ![k] = NewInst(r)]
          /\ def' = [def EXCEPT ![NewInst(r)] = req[r].def]
      BY <1>11, <2>2 DEF EditTask
    <3> QED
      BY <1>1, <1>10, <2>2, <3>1
  <2> QED
    BY <2>1, <2>2
<1>12. CASE DeleteTask(r)
  <2>1. CASE tasks[k] = NoInst
    <3>1. /\ req[r].pc = "act" /\ Goto(r, "commit")
          /\ UNCHANGED <<store, unused, lock, tasks, rules, def>>
      BY <1>2, <1>12, <2>1 DEF DeleteTask
    <3>2. Aside(r)
      BY <1>g, <3>1 DEF Aside
    <3>3. Own(r)
      BY <1>2, <1>3, <1>4, <1>g, <3>1 DEF Own, Holding
    <3> QED
      BY <1>1, <3>2, <3>3
  <2>2. CASE tasks[k] # NoInst
    <3>1. /\ req[r].pc = "act" /\ req[r].branch = "delete"
          /\ req' = [req EXCEPT ![r].pc = "stopping", ![r].old = tasks[k]]
          /\ UNCHANGED <<store, unused, lock>> /\ UNCHANGED <<tasks, rules, def>>
      BY <1>12, <2>2 DEF DeleteTask
    <3> QED
      BY <1>1, <1>10, <2>2, <3>1
  <2> QED
    BY <2>1, <2>2
<1>13. CASE StopReturns(r)
  <2>1. /\ req[r].pc = "stopping" /\ Goto(r, "commit") /\ UNCHANGED <<store, unused, lock>>
    BY <1>2, <1>13 DEF StopReturns
  <2>2. CASE req[r].branch = "edit"
    <3>1. StartTask(r) /\ rules' = rules
      BY <1>13, <2>2 DEF StopReturns
    <3> QED
      BY <1>1, <1>4, <1>7, <2>1, <2>2, <3>1
  <2>3. CASE req[r].branch # "edit"
    <3>1. /\ tasks' = [tasks EXCEPT ![k] = NoInst] /\ rules' = [rules EXCEPT ![k] = NoInst]
          /\ def' = def
      BY <1>13, <2>3 DEF StopReturns
    <3>2. /\ tasks'[k] = rules'[k]
          /\ \A x \in Rule \ {k} : tasks'[x] = tasks[x] /\ rules'[x] = rules[x]
      BY <1>2, <1>3, <3>1
    <3>3. Aside(r)
      BY <1>g, <2>1, <3>1, <3>2 DEF Aside
    <3>4. Own(r)
      BY <1>2, <1>3, <1>4, <1>g, <2>1, <3>2 DEF Own, Holding
    <3> QED
      BY <1>1, <3>3, <3>4
  <2> QED
    BY <2>2, <2>3
<1>14. CASE Commit(r) \/ CommitFails(r)
  <2>1. /\ req[r].pc = "commit" /\ Goto(r, "end") /\ Unlock(r)
        /\ UNCHANGED <<unused, tasks, rules, def>>
        /\ \A x \in Rule \ {k} : store'[x] = store[x]
    BY <1>2, <1>3, <1>14 DEF Commit, CommitFails
  <2>2. lock'[k] = None /\ \A x \in Rule \ {k} : lock'[x] = lock[x]
    BY <2>1, Unlocks DEF Holding
  <2>3. Aside(r)
    BY <1>g, <2>1, <2>2 DEF Aside
  <2>4. Own(r)
    BY <1>2, <1>3, <1>4, <1>g, <2>1, <2>2 DEF Own, Holding
  <2> QED
    BY <1>1, <2>3, <2>4
<1> QED
  BY <1>5, <1>6, <1>8, <1>9, <1>11, <1>12, <1>13, <1>14 DEF Inside

(***************************************************************************)
(* One whose row is gone touches the task of its own rule, and no row.     *)
(***************************************************************************)
LEMMA InsideLost ==
    ASSUME TypeOK, TaskInv, LockInv, NEW r \in Req, ~RowFound(r), Inside(r)
    PROVE  /\ req[r].pc \in Holding \cup {"write"}
           /\ Aside(r) /\ Lost(r)
<1> DEFINE k == req[r].id
<1>1. req[r].pc \in Holding \cup {"write"}
  BY DEF Inside, Update, Check, AddTask, EditTask, DeleteTask, PrepareFails,
         StopReturns, Commit, CommitFails, Holding
<1>2. /\ k \in Rule /\ req[r].op \in {"edit", "delete"} /\ lock[k] = None
      /\ \A x \in Rule : lock[x] # r
      /\ store[k] = NoDef /\ AfterSync(r) = "commit" /\ r # None
  BY <1>1, InTransaction, RequestAssumption DEF RowFound
<1>3. /\ lock \in [Rule -> Req \cup {None}] /\ req \in [Req -> RequestState]
      /\ tasks \in [Rule -> Inst \cup {NoInst}] /\ rules \in [Rule -> Inst \cup {NoInst}]
      /\ store \in [Rule -> Def \cup {NoDef}] /\ def \in [Inst -> Def \cup {NoDef}]
  BY DEF TypeOK
<1>4. \A x \in Rule : lock'[x] = lock[x]
  <2>1. CASE UNCHANGED lock
    BY <2>1
  <2>2. CASE Unlock(r)
    BY <1>2, <2>2 DEF Unlock
  <2> QED
    BY <2>1, <2>2 DEF Inside, Update, Check, AddTask, EditTask, DeleteTask, PrepareFails,
         StopReturns, Commit, CommitFails
<1>5. store'[k] = NoDef /\ (\A x \in Rule \ {k} : store'[x] = store[x]) /\ unused' = unused
  <2>1. CASE Commit(r)
    <3>1. Written(r) = NoDef
      BY <1>2 DEF Written
    <3> QED
      BY <1>2, <1>3, <2>1, <3>1 DEF Commit
  <2>2. CASE ~Commit(r)
    BY <1>2, <2>2 DEF Inside, Update, Check, AddTask, EditTask, DeleteTask, PrepareFails,
       StopReturns, CommitFails
  <2> QED
    BY <2>1, <2>2
<1>6. /\ \A s \in Req \ {r} : req'[s] = req[s]
      /\ req'[r].id = k /\ req'[r].op = req[r].op
      /\ req'[r].try = req[r].try /\ req'[r].def = req[r].def
      /\ req'[r].pc \in Holding \cup {"end"}
  <2>g. ASSUME NEW pc \in Holding \cup {"end"}, Goto(r, pc)
        PROVE  /\ \A s \in Req \ {r} : req'[s] = req[s]
               /\ req'[r].id = k /\ req'[r].op = req[r].op
               /\ req'[r].try = req[r].try /\ req'[r].def = req[r].def
               /\ req'[r].pc \in Holding \cup {"end"}
    BY <1>3, <2>g DEF Goto, RequestState
  <2>1. CASE Update(r)
    <3>1. \/ Goto(r, "check")
          \/ req' = [req EXCEPT ![r].pc = "act", ![r].branch = "delete"]
      BY <1>2, <2>1 DEF Update
    <3>2. CASE Goto(r, "check")
      BY <2>g, <3>2 DEF Holding
    <3>3. CASE req' = [req EXCEPT ![r].pc = "act", ![r].branch = "delete"]
      BY <1>3, <3>3 DEF RequestState, Holding
    <3> QED
      BY <3>1, <3>2, <3>3
  <2>2. CASE Check(r)
    BY <1>2, <1>3, <2>2 DEF Check, RequestState, Holding
  <2>3. CASE \E old : req' = [req EXCEPT ![r].pc = "stopping", ![r].old = old]
    BY <1>3, <2>3 DEF RequestState, Holding
  <2>4. CASE Goto(r, "commit") \/ Goto(r, "end")
    BY <2>4, <2>g DEF Holding
  <2> QED
    BY <1>2, <2>1, <2>2, <2>3, <2>4 DEF Inside, AddTask, EditTask, DeleteTask, PrepareFails,
       StopReturns, Commit, CommitFails
<1>7. /\ \A x \in Rule \ {k} : tasks'[x] = tasks[x] /\ rules'[x] = rules[x]
      /\ \A x \in Rule : tasks[x] # NoInst => def'[tasks[x]] = def[tasks[x]]
  <2>1. \/ tasks' = tasks
        \/ \E i : tasks' = [tasks EXCEPT ![k] = i]
    BY DEF Inside, Update, Check, AddTask, EditTask, DeleteTask, PrepareFails,
       StopReturns, Commit, CommitFails, StartTask
  <2>2. \/ rules' = rules
        \/ \E i : rules' = [rules EXCEPT ![k] = i]
    BY DEF Inside, Update, Check, AddTask, EditTask, DeleteTask, PrepareFails,
       StopReturns, Commit, CommitFails
  <2>3. \/ def' = def
        \/ /\ req[r].pc = "act" \/ (req[r].pc = "stopping" /\ req[r].branch = "edit")
           /\ def' = [def EXCEPT ![NewInst(r)] = req[r].def]
    BY DEF Inside, Update, Check, AddTask, EditTask, DeleteTask, PrepareFails,
       StopReturns, Commit, CommitFails, StartTask
  <2>4. \A x \in Rule : tasks[x] # NoInst => def'[tasks[x]] = def[tasks[x]]
    <3>1. CASE def' = def
      BY <3>1
    <3>2. CASE def' # def
      BY <1>3, <2>3, <3>2, NewInstFree
    <3> QED
      BY <3>1, <3>2
  <2> QED
    BY <1>3, <2>1, <2>2, <2>4
<1> QED
  BY <1>1, <1>2, <1>4, <1>5, <1>6, <1>7 DEF Aside, Lost

(***************************************************************************)
(* A step of a request that holds no row and takes none.                   *)
(***************************************************************************)
LEMMA RowUntouched ==
    ASSUME TypeOK, LockInv, NEW r \in Req, req[r].pc \notin Holding,
           req'[r].pc \notin Holding, req'[r].op # "patch",
           \A s \in Req \ {r} : req'[s] = req[s],
           UNCHANGED <<store, lock, tasks, rules>>
    PROVE  RowInv' /\ ShownInv'
<1>1. RowInv /\ ShownInv
  BY DEF LockInv
<1>2. \A id \in Rule : lock[id] # None => lock[id] \in Req \ {r}
  BY <1>1 DEF RowInv, TypeOK
<1>3. RowInv'
  BY <1>1, <1>2 DEF RowInv, HasRow, RowFound
<1>4. ShownInv'
  <2>1. ASSUME NEW s \in Req, HasRow(s)'
        PROVE  /\ req'[s].pc \in {"check", "act", "commit"} =>
                     rules[req'[s].id] = tasks[req'[s].id]
               /\ req'[s].pc = "act" /\ req'[s].branch = "add" => tasks[req'[s].id] = NoInst
               /\ req'[s].pc = "stopping" /\ req'[s].branch = "edit" =>
                     rules[req'[s].id] = <<s, req'[s].try>>
    <3>1. CASE s = r
      BY <3>1 DEF Holding
    <3>2. CASE s # r
      BY <1>1, <2>1, <3>2 DEF ShownInv, NewInst, HasRow
    <3> QED
      BY <3>1, <3>2
  <2> QED
    BY <1>1, <2>1 DEF ShownInv, NewInst
<1> QED
  BY <1>3, <1>4

LEMMA OutsideKept ==
    ASSUME TypeOK, TaskInv, LockInv, NEW r \in Req, Outside(r)
    PROVE  /\ LockInv'
           /\ UNCHANGED <<store, unused, lock, tasks, rules, def>>
           /\ \A s \in Req \ {r} : req'[s] = req[s]
           /\ req[r].pc \in {"read", "update", "write"}
           /\ req'[r].pc \in {"update", "write", "end"}
           /\ req'[r].op = req[r].op /\ req'[r].id = req[r].id /\ req'[r].try = req[r].try
           /\ req[r].pc = "read" /\ store[req[r].id] = NoDef => req'[r].pc = "end"
<1>1. req[r].op # "patch" /\ RowInv /\ CreateInv
  BY DEF LockInv, RowInv
<1>2. PICK pc \in {"update", "write", "end"} :
        /\ Goto(r, pc) /\ UNCHANGED <<store, unused, lock, tasks, rules, def>>
        /\ req[r].pc \in {"read", "update", "write"}
        /\ pc = "update" => req[r].pc = "read" /\ store[req[r].id] # NoDef
        /\ pc = "write" => req[r].pc = "update"
        /\ req[r].pc = "read" => (pc = "update" <=> store[req[r].id] # NoDef)
                                 /\ pc \in {"update", "end"}
  BY <1>1 DEF Outside, ReadRule, BeginTx, StatementFails
<1>3. /\ \A s \in Req \ {r} : req'[s] = req[s]
      /\ req'[r].pc = pc /\ req'[r].op = req[r].op /\ req'[r].id = req[r].id
      /\ req'[r].try = req[r].try
  BY <1>2 DEF Goto, TypeOK, RequestState
<1>4. RowInv' /\ ShownInv'
  BY <1>1, <1>2, <1>3, RowUntouched DEF Holding
<1>5. ~Finished(r)
  BY <1>2 DEF Finished
<1>6. CreateInv'
  <2>1. \A s \in Req : req'[s].pc \notin {"new", "end"} =>
           ~Finished(s) /\ req'[s].id = req[s].id /\ req'[s].op = req[s].op
    BY <1>3, <1>5 DEF Finished
  <2>2. \A s \in Req : req'[s].pc = "read" => req'[s].op # "create"
    BY <1>1, <1>2, <1>3 DEF CreateInv
  <2>3. ASSUME NEW s \in Req, req'[s].op = "create", req'[s].pc \notin {"new", "end"}
        PROVE  /\ store[req'[s].id] = NoDef
               /\ req'[s].pc \in {"update", "write"} =>
                     tasks[req'[s].id] = NoInst /\ rules[req'[s].id] = NoInst
               /\ \A t \in Req \ {s} :
                     (req'[t].pc \notin {"new", "end"} /\ req'[t].id = req'[s].id)
                       => req'[t].pc = "read"
    <3>1. /\ store[req[s].id] = NoDef
          /\ req[s].pc \in {"update", "write"} =>
                  tasks[req[s].id] = NoInst /\ rules[req[s].id] = NoInst
          /\ \A t \in Req \ {s} :
                (~Finished(t) /\ req[t].id = req[s].id) => req[t].pc = "read"
          /\ req[s].pc # "read" /\ req'[s].id = req[s].id
      BY <1>1, <2>1, <2>3 DEF CreateInv
    <3>2. req'[s].pc \in {"update", "write"} => req[s].pc \in {"update", "write"}
      BY <1>2, <1>3, <3>1
    <3>3. ASSUME NEW t \in Req \ {s}, req'[t].pc \notin {"new", "end"},
                 req'[t].id = req'[s].id
          PROVE  req'[t].pc = "read"
      <4>1. req[t].pc = "read" /\ req[t].id = req[s].id
        BY <2>1, <3>1, <3>3
      <4> QED
        BY <1>2, <1>3, <3>1, <3>3, <4>1
    <3> QED
      BY <3>1, <3>2, <3>3
  <2> QED
    BY <1>1, <1>2, <2>1, <2>2, <2>3 DEF CreateInv, Finished
<1> QED
  BY <1>2, <1>3, <1>4, <1>6 DEF LockInv

LEMMA BeginKept ==
    ASSUME TypeOK, TaskInv, LockInv, "patch" \notin Ops, NEW r \in Req,
           NEW op \in Ops, NEW id \in Rule, NEW d \in Def, Begin(r, op, id, d)
    PROVE  /\ LockInv'
           /\ UNCHANGED <<store, lock, tasks, rules, def>>
           /\ \A s \in Req \ {r} : req'[s] = req[s]
           /\ req'[r].op = op
           /\ req'[r].pc = IF op = "create" THEN "update" ELSE "read"
<1>1. RowInv /\ CreateInv
  BY DEF LockInv
<1>2. /\ req[r].pc = "new" /\ UNCHANGED <<store, lock, tasks, rules, def>>
      /\ req'[r].pc = IF op = "create" THEN "update" ELSE "read"
      /\ req'[r].op = op /\ req'[r].id = id
      /\ \A s \in Req \ {r} : req'[s] = req[s]
      /\ IF op = "create" THEN id \in unused /\ unused' = unused \ {id}
                          ELSE id \notin unused /\ unused' = unused
  BY DEF Begin, Request, TypeOK
<1>3. op # "patch"
  OBVIOUS
<1>4. RowInv' /\ ShownInv'
  BY <1>2, <1>3, RowUntouched DEF Holding
<1>5. CreateInv'
  <2>1. \A x \in unused' : store[x] = NoDef /\ tasks[x] = NoInst /\ rules[x] = NoInst
    BY <1>1, <1>2 DEF CreateInv
  <2>2. \A s \in Req : req'[s].pc \notin {"new", "end"} => req'[s].id \notin unused'
    BY <1>1, <1>2 DEF CreateInv, Finished
  <2>3. \A s \in Req : req'[s].pc = "read" => req'[s].op # "create"
    BY <1>1, <1>2 DEF CreateInv
  <2>4. ASSUME NEW s \in Req, req'[s].op = "create", req'[s].pc \notin {"new", "end"}
        PROVE  /\ store[req'[s].id] = NoDef
               /\ req'[s].pc \in {"update", "write"} =>
                     tasks[req'[s].id] = NoInst /\ rules[req'[s].id] = NoInst
               /\ \A t \in Req \ {s} :
                     (req'[t].pc \notin {"new", "end"} /\ req'[t].id = req'[s].id)
                       => req'[t].pc = "read"
    <3>1. CASE s = r
      <4>1. id \in unused /\ req'[s].id = id
        BY <1>2, <2>4, <3>1
      <4>2. store[id] = NoDef /\ tasks[id] = NoInst /\ rules[id] = NoInst
        BY <1>1, <4>1 DEF CreateInv
      <4>3. \A t \in Req \ {r} : req[t].pc \notin {"new", "end"} => req[t].id # id
        BY <1>1, <4>1 DEF CreateInv, Finished
      <4> QED
        BY <1>2, <3>1, <4>1, <4>2, <4>3
    <3>2. CASE s # r
      <4>1. /\ req'[s] = req[s] /\ ~Finished(s)
        BY <1>2, <2>4, <3>2 DEF Finished
      <4>2. /\ store[req[s].id] = NoDef /\ req[s].id \notin unused
            /\ req[s].pc \in {"update", "write"} =>
                  tasks[req[s].id] = NoInst /\ rules[req[s].id] = NoInst
            /\ \A t \in Req \ {s} :
                  (~Finished(t) /\ req[t].id = req[s].id) => req[t].pc = "read"
        BY <1>1, <2>4, <4>1 DEF CreateInv
      <4>3. ASSUME NEW t \in Req \ {s}, req'[t].pc \notin {"new", "end"},
                   req'[t].id = req'[s].id
            PROVE  req'[t].pc = "read"
        <5>1. CASE t = r
          BY <1>2, <4>1, <4>2, <4>3, <5>1
        <5>2. CASE t # r
          BY <1>2, <4>1, <4>2, <4>3, <5>2 DEF Finished
        <5> QED
          BY <5>1, <5>2
      <4> QED
        BY <4>1, <4>2, <4>3
    <3> QED
      BY <3>1, <3>2
  <2> QED
    BY <1>2, <2>1, <2>2, <2>3, <2>4 DEF CreateInv, Finished
<1> QED
  BY <1>2, <1>4, <1>5 DEF LockInv

LEMMA RestartKept ==
    ASSUME TypeOK, LockInv, NEW loaded \in SUBSET Org, Restart(loaded)
    PROVE  LockInv'
<1>1. /\ rules' = tasks' /\ lock' = [id \in Rule |-> None] /\ UNCHANGED <<store, unused>>
      /\ tasks' = [id \in Rule |-> IF OrgOf[id] \in loaded /\ ~store[id].Disabled
                                     THEN <<id, 0>> ELSE NoInst]
      /\ req' = [r \in Req |-> [req[r] EXCEPT
                   !.pc = IF req[r].pc = "new" THEN "new" ELSE "end", !.old = NoInst]]
  BY DEF Restart
<1>6. \A r \in Req : req'[r].pc \in {"new", "end"} /\ req'[r].op = req[r].op
  <2> SUFFICES ASSUME NEW r \in Req
               PROVE  req'[r].pc \in {"new", "end"} /\ req'[r].op = req[r].op
    OBVIOUS
  <2>1. req[r] \in RequestState
    BY DEF TypeOK
  <2>2. req'[r] = [req[r] EXCEPT !.pc = IF req[r].pc = "new" THEN "new" ELSE "end",
                                 !.old = NoInst]
    BY <1>1
  <2> QED
    BY <2>1, <2>2 DEF RequestState
<1>7. NoDef.Disabled
  BY DEF NoDef
<1>2. RowInv'
  <2>1. \A id \in Rule : lock'[id] = None
    BY <1>1
  <2>2. \A r \in Req : req'[r].op # "patch" /\ req'[r].pc \notin Holding
    BY <1>6 DEF LockInv, RowInv, Holding
  <2> QED
    BY <2>1, <2>2 DEF RowInv
<1>3. ShownInv'
  BY <1>1, <1>6 DEF ShownInv, HasRow, Holding
<1>4. \A id \in unused : store[id] = NoDef /\ tasks'[id] = NoInst
  <2> SUFFICES ASSUME NEW id \in unused PROVE store[id] = NoDef /\ tasks'[id] = NoInst
    OBVIOUS
  <2>1. id \in Rule /\ store[id] = NoDef
    BY DEF LockInv, CreateInv, TypeOK
  <2> QED
    BY <1>1, <1>7, <2>1
<1>5. CreateInv'
  BY <1>1, <1>4, <1>6 DEF CreateInv, Finished
<1> QED
  BY <1>2, <1>3, <1>5 DEF LockInv

LEMMA LockStep ==
    ASSUME TypeOK, TaskInv, LockInv, "patch" \notin Ops, [Next]_vars
    PROVE  LockInv'
<1>1. ASSUME NEW r \in Req, RequestStep(r) PROVE LockInv'
  <2>1. CASE Inside(r)
    BY <2>1, InsideAside, InsideLost, LockKept, LostKept
  <2>2. CASE Outside(r)
    BY <2>2, OutsideKept
  <2>3. CASE \E op \in Ops, id \in Rule, d \in Def : Begin(r, op, id, d)
    BY <2>3, BeginKept
  <2> QED
    BY <1>1, <2>1, <2>2, <2>3 DEF RequestStep, Inside, Outside
<1>2. CASE UNCHANGED <<store, unused, lock, tasks, rules, req>>
  BY <1>2 DEF LockInv, RowInv, CreateInv, ShownInv, Finished, NewInst, HasRow, RowFound
<1>3. CASE \E loaded \in SUBSET Org : Restart(loaded)
  BY <1>3, RestartKept
<1>4. CASE \/ \E i \in Inst : LoopStep(i)
           \/ Stop \/ (\E id \in Rule : StopTask(id)) \/ StopEnds \/ UNCHANGED vars
  <2>1. UNCHANGED <<store, unused, lock, tasks, rules, req>>
    BY <1>4 DEF LoopStep, TickArrives, DoneSeen, Evaluate, Send, LoopTo, Stop, StopTask,
       StopEnds, vars
  <2> QED
    BY <1>2, <2>1
<1> QED
  BY <1>1, <1>3, <1>4 DEF Next

LEMMA LockInit == Init => LockInv
<1> SUFFICES ASSUME Init PROVE LockInv
  OBVIOUS
<1>1. /\ rules = tasks /\ lock = [id \in Rule |-> None]
      /\ \A r \in Req : req[r].pc = "new" /\ req[r].op = "none"
  BY DEF Init, Request
<1>2. RowInv /\ ShownInv
  BY <1>1 DEF RowInv, ShownInv, Holding, HasRow
<1>3. \A id \in unused : store[id] = NoDef /\ tasks[id] = NoInst /\ rules[id] = NoInst
  <2> SUFFICES ASSUME NEW id \in unused
               PROVE  store[id] = NoDef /\ tasks[id] = NoInst /\ rules[id] = NoInst
    OBVIOUS
  <2>1. NoDef.Disabled
    BY DEF NoDef
  <2>2. id \in Rule /\ store[id] = NoDef
    BY DEF Init
  <2>3. tasks[id] = IF store[id].Disabled THEN NoInst ELSE <<id, 0>>
    BY <2>2 DEF Init
  <2> QED
    BY <1>1, <2>1, <2>2, <2>3
<1>4. CreateInv
  BY <1>1, <1>3 DEF CreateInv, Finished
<1> QED
  BY <1>2, <1>4 DEF LockInv

(***************************************************************************)
(* When no request is under way no row is locked.                          *)
(***************************************************************************)
LEMMA QuietUnlocked ==
    ASSUME TypeOK, RowInv, Quiet
    PROVE  \A id \in Rule : lock[id] = None
BY DEF TypeOK, RowInv, Quiet, Finished, Holding

(***************************************************************************)
(* Without patches, what the API shows of a stored rule is the rule that   *)
(* is evaluated once the requests are done, with creates, edits and        *)
(* deletes that race, fail or are cut off: while a row is there its lock   *)
(* covers syncRuleStateWithTask from its check to its end (manager.go).    *)
(* Nothing is said of a rule that is gone, whose row nobody can lock: two  *)
(* edits that read it before its delete committed may leave two different  *)
(* instances in Manager.rules and Manager.tasks.  PatchRule synchronises   *)
(* outside the transaction.                                                *)
(***************************************************************************)
THEOREM ShownIsEvaluatedHolds ==
    ASSUME "patch" \notin Ops
    PROVE  Spec => []ShownIsEvaluated
<1>1. TypeOK /\ TaskInv /\ LockInv /\ [Next]_vars => LockInv'
  BY LockStep
<1>2. ASSUME TypeOK, LockInv PROVE ShownIsEvaluated
  <2> SUFFICES ASSUME Quiet, NEW id \in Rule, store[id] # NoDef
               PROVE  rules[id] = tasks[id]
    BY DEF ShownIsEvaluated
  <2>1. lock[id] = None
    BY <1>2, QuietUnlocked DEF LockInv
  <2> QED
    BY <1>2, <2>1 DEF LockInv, ShownInv
<1> QED
  BY <1>1, <1>2, LockInit, TaskSafety, PTL DEF Spec

(***************************************************************************)
(* What a step of a request in its transaction does to its own rule, when  *)
(* the requests are edits and deletes.                                     *)
(***************************************************************************)
Edited(r) ==
    LET k == req[r].id
        q == req'[r]
    IN  /\ lock'[k] \in {None, r}
        /\ store'[k] # NoDef /\ lock'[k] = None => Fits(tasks'[k], store'[k], def')
        /\ lock'[k] = r /\ q.op = "edit" =>
              /\ q.pc \in {"act", "stopping"} =>
                    /\ q.def.Disabled => q.branch = "delete"
                    /\ ~q.def.Disabled => q.branch \in {"add", "edit"}
              /\ q.pc = "commit" => Fits(tasks'[k], q.def, def')

LEMMA NoDefFacts ==
    /\ NoDef \notin Def /\ NoDef.Disabled
    /\ \A d \in Def : d.Disabled \in BOOLEAN
BY RequestAssumption DEF NoDef, Def

(***************************************************************************)
(* An edit in its transaction ends with the task of what it commits.       *)
(***************************************************************************)
LEMMA InsideEdited ==
    ASSUME TypeOK, TaskInv, LockInv, MatchInv, ~Faults, NEW r \in Req,
           RowFound(r), req[r].op = "edit", Inside(r)
    PROVE  Edited(r)
<1> DEFINE k == req[r].id
<1>1. req[r].pc \in Holding \cup {"write"} /\ lock'[k] \in {None, r}
  BY InsideAside DEF Own
<1>2. /\ k \in Rule /\ req[r].op = "edit" /\ req[r].def \in Def /\ store[k] # NoDef
      /\ lock[k] = r <=> req[r].pc \in Holding
      /\ AfterSync(r) = "commit" /\ r # None
  BY <1>1, InTransaction, RequestAssumption DEF RowFound
<1>3. /\ lock \in [Rule -> Req \cup {None}] /\ req[r] \in RequestState
      /\ tasks \in [Rule -> Inst \cup {NoInst}]
      /\ store \in [Rule -> Def \cup {NoDef}] /\ def \in [Inst -> Def \cup {NoDef}]
      /\ req \in [Req -> RequestState]
  BY DEF TypeOK
<1>4. /\ req[r].pc \in {"act", "stopping"} =>
            /\ req[r].def.Disabled => req[r].branch = "delete"
            /\ ~req[r].def.Disabled => req[r].branch \in {"add", "edit"}
      /\ req[r].pc = "commit" => Fits(tasks[k], req[r].def, def)
      /\ req[r].pc = "act" /\ req[r].branch = "add" => tasks[k] = NoInst
  <2>1. req[r].pc \in Holding => HasRow(r)
    BY <1>2 DEF HasRow
  <2> QED
    BY <1>2, <2>1 DEF MatchInv, Matches, LockInv, ShownInv, Holding
<1>5. NoDef \notin Def /\ req[r].def.Disabled \in BOOLEAN
  BY <1>2, NoDefFacts
<1>g. ASSUME NEW pc, Goto(r, pc)
      PROVE  /\ req'[r].pc = pc /\ req'[r].branch = req[r].branch
             /\ req'[r].op = req[r].op /\ req'[r].id = k /\ req'[r].def = req[r].def
  BY <1>3, <1>g DEF Goto, RequestState
<1>6. CASE Update(r)
  <2>1. Goto(r, "check") /\ lock' = [lock EXCEPT ![k] = r]
    BY <1>2, <1>6 DEF Update, RowFound
  <2>2. lock'[k] = r
    BY <1>2, <1>3, <2>1
  <2> QED
    BY <1>2, <1>g, <2>1, <2>2 DEF Edited
<1>7. CASE Check(r)
  <2>1. /\ req[r].pc = "check" /\ UNCHANGED <<store, lock, tasks, def>>
        /\ req'[r].op = req[r].op /\ req'[r].id = k /\ req'[r].def = req[r].def
        /\ req'[r].pc = "act" =>
              /\ req[r].def.Disabled => req'[r].branch = "delete"
              /\ ~req[r].def.Disabled => req'[r].branch \in {"add", "edit"}
        /\ req'[r].pc \in {"act", "commit"}
        /\ req'[r].pc = "commit" => req[r].def.Disabled /\ tasks[k] = NoInst
    BY <1>2, <1>3, <1>5, <1>7 DEF Check, RequestState
  <2>2. req'[r].pc = "commit" => Fits(tasks[k], req[r].def, def)
    BY <2>1 DEF Fits
  <2>3. lock'[k] = r
    BY <1>2, <2>1 DEF Holding
  <2> QED
    BY <1>2, <2>1, <2>2, <2>3 DEF Edited
<1>8. ASSUME req[r].pc = "act" \/ (req[r].pc = "stopping" /\ req[r].branch = "edit"),
             req[r].branch \in {"add", "edit"},
             StartTask(r), Goto(r, "commit"), UNCHANGED <<store, lock>>
      PROVE  Edited(r)
  <2>1. NewInst(r) \in Inst /\ NewInst(r) # NoInst
    BY <1>8, NewInstFree
  <2>2. tasks'[k] = NewInst(r) /\ def'[NewInst(r)] = req[r].def
    BY <1>2, <1>3, <1>8, <2>1 DEF StartTask
  <2>3. ~req[r].def.Disabled
    BY <1>4, <1>8
  <2>4. Fits(tasks'[k], req[r].def, def')
    BY <2>1, <2>2, <2>3 DEF Fits
  <2>5. lock'[k] = r
    BY <1>2, <1>3, <1>8 DEF Holding
  <2> QED
    BY <1>2, <1>8, <1>g, <2>4, <2>5 DEF Edited
<1>9. CASE AddTask(r)
  <2>1. /\ req[r].pc = "act" /\ req[r].branch = "add"
        /\ StartTask(r) /\ Goto(r, "commit") /\ UNCHANGED <<store, lock>>
    BY <1>2, <1>4, <1>9 DEF AddTask
  <2> QED
    BY <1>8, <2>1
<1>10. ASSUME req[r].pc = "act", tasks[k] # NoInst,
              req' = [req EXCEPT ![r].pc = "stopping", ![r].old = tasks[k]],
              UNCHANGED <<store, lock>>
       PROVE  Edited(r)
  <2>1. /\ req'[r].pc = "stopping" /\ req'[r].branch = req[r].branch
        /\ req'[r].op = req[r].op /\ req'[r].id = k /\ req'[r].def = req[r].def
    BY <1>3, <1>10 DEF RequestState
  <2>2. lock'[k] = r
    BY <1>2, <1>3, <1>10 DEF Holding
  <2> QED
    BY <1>2, <1>4, <1>10, <2>1, <2>2 DEF Edited
<1>11. CASE EditTask(r)
  <2>1. CASE tasks[k] = NoInst
    <3>1. /\ req[r].pc = "act" /\ req[r].branch = "edit"
          /\ StartTask(r) /\ Goto(r, "commit") /\ UNCHANGED <<store, lock>>
      BY <1>2, <1>11, <2>1 DEF EditTask
    <3> QED
      BY <1>8, <3>1
  <2>2. CASE tasks[k] # NoInst
    <3>1. /\ req[r].pc = "act" /\ UNCHANGED <<store, lock>>
          /\ req' = [req EXCEPT ![r].pc = "stopping", ![r].old = tasks[k]]
      BY <1>11, <2>2 DEF EditTask
    <3> QED
      BY <1>10, <2>2, <3>1
  <2> QED
    BY <2>1, <2>2
<1>12. CASE DeleteTask(r)
  <2>1. CASE tasks[k] = NoInst
    <3>1. /\ req[r].pc = "act" /\ req[r].branch = "delete" /\ Goto(r, "commit")
          /\ UNCHANGED <<store, lock, tasks, def>>
      BY <1>2, <1>12, <2>1 DEF DeleteTask
    <3>2. Fits(tasks[k], req[r].def, def)
      BY <1>4, <1>5, <2>1, <3>1 DEF Fits
    <3>3. lock'[k] = r
      BY <1>2, <1>3, <3>1 DEF Holding
    <3> QED
      BY <1>2, <1>g, <3>1, <3>2, <3>3 DEF Edited
  <2>2. CASE tasks[k] # NoInst
    <3>1. /\ req[r].pc = "act" /\ UNCHANGED <<store, lock>>
          /\ req' = [req EXCEPT ![r].pc = "stopping", ![r].old = tasks[k]]
      BY <1>12, <2>2 DEF DeleteTask
    <3> QED
      BY <1>10, <2>2, <3>1
  <2> QED
    BY <2>1, <2>2
<1>13. CASE StopReturns(r)
  <2>1. /\ req[r].pc = "stopping" /\ Goto(r, "commit") /\ UNCHANGED <<store, lock>>
    BY <1>2, <1>13 DEF StopReturns
  <2>2. CASE req[r].branch = "edit"
    <3>1. StartTask(r)
      BY <1>13, <2>2 DEF StopReturns
    <3> QED
      BY <1>8, <2>1, <2>2, <3>1
  <2>3. CASE req[r].branch # "edit"
    <3>1. tasks' = [tasks EXCEPT ![k] = NoInst] /\ def' = def
      BY <1>13, <2>3 DEF StopReturns
    <3>2. req[r].branch = "delete"
      BY <2>1, <2>3 DEF TaskInv, Waits
    <3>3. req[r].def.Disabled
      BY <1>4, <1>5, <2>1, <3>2
    <3>4. Fits(tasks'[k], req[r].def, def')
      BY <1>2, <1>3, <3>1, <3>3 DEF Fits
    <3>5. lock'[k] = r
      BY <1>2, <1>3, <2>1 DEF Holding
    <3> QED
      BY <1>2, <1>g, <2>1, <3>4, <3>5 DEF Edited
  <2> QED
    BY <2>2, <2>3
<1>14. CASE Commit(r)
  <2>1. /\ req[r].pc = "commit" /\ Goto(r, "end") /\ UNCHANGED <<tasks, def>>
        /\ store' = [store EXCEPT ![k] = Written(r)]
    BY <1>14 DEF Commit
  <2>2. Written(r) = req[r].def
    BY <1>2 DEF Written
  <2>3. store'[k] = req[r].def
    BY <1>2, <1>3, <2>1, <2>2
  <2>4. Fits(tasks'[k], store'[k], def')
    BY <1>4, <2>1, <2>3
  <2> QED
    BY <1>1, <1>g, <2>1, <2>4 DEF Edited
<1> QED
  BY <1>6, <1>7, <1>9, <1>11, <1>12, <1>13, <1>14 DEF Inside, PrepareFails, CommitFails

(***************************************************************************)
(* A delete in its transaction frees the row when the rule is gone.        *)
(***************************************************************************)
LEMMA InsideDeleted ==
    ASSUME TypeOK, TaskInv, LockInv, ~Faults, NEW r \in Req,
           RowFound(r), req[r].op = "delete", Inside(r)
    PROVE  Edited(r)
<1> DEFINE k == req[r].id
<1>1. /\ req[r].pc \in Holding \cup {"write"} /\ lock'[k] \in {None, r}
      /\ lock'[k] = r <=> req'[r].pc \in Holding
      /\ req'[r].op = req[r].op
  BY InsideAside DEF Own, Aside
<1>2. /\ k \in Rule
      /\ lock[k] = r <=> req[r].pc \in Holding
      /\ AfterSync(r) = "commit" /\ r # None /\ store \in [Rule -> Def \cup {NoDef}]
  BY <1>1, InTransaction, RequestAssumption DEF TypeOK
<1>3. CASE Commit(r)
  <2>1. Written(r) = NoDef
    BY DEF Written
  <2>2. store'[k] = NoDef
    BY <1>2, <1>3, <2>1 DEF Commit
  <2> QED
    BY <1>1, <2>2 DEF Edited
<1>4. CASE Update(r)
  <2>1. lock' = [lock EXCEPT ![k] = r]
    BY <1>4 DEF Update, RowFound
  <2> QED
    BY <1>1, <1>2, <2>1 DEF Edited, TypeOK
<1>5. CASE UNCHANGED lock /\ req[r].pc \in Holding
  BY <1>1, <1>2, <1>5 DEF Edited
<1>6. CASE AddTask(r)
  <2>1. HasRow(r)
    BY <1>2, <1>6 DEF HasRow, AddTask, Holding
  <2>2. tasks[k] = NoInst
    BY <1>6, <2>1 DEF AddTask, LockInv, ShownInv
  <2> QED
    BY <1>5, <1>6, <2>1, <2>2 DEF AddTask, HasRow
<1> QED
  BY <1>3, <1>4, <1>5, <1>6 DEF Inside, Check, EditTask, DeleteTask, PrepareFails,
     StopReturns, CommitFails, Holding

LEMMA EditedKept ==
    ASSUME TypeOK, TaskInv, LockInv, MatchInv, NEW r \in Req,
           req[r].pc \in Holding \cup {"write"}, Aside(r), Edited(r)
    PROVE  MatchInv'
<1> DEFINE k == req[r].id
<1>1. /\ k \in Rule /\ r # None /\ req'[r].op = req[r].op /\ req'[r].id = k
      /\ lock'[k] \in {None, r}
  BY InTransaction, RequestAssumption DEF Aside, Edited
<1>2. ASSUME NEW x \in Rule, store'[x] # NoDef, lock'[x] = None
      PROVE  Fits(tasks'[x], store'[x], def')
  <2>1. CASE x = k
    BY <1>2, <2>1 DEF Edited
  <2>2. CASE x # k
    <3>1. /\ lock[x] = None /\ tasks'[x] = tasks[x] /\ store'[x] = store[x]
          /\ tasks[x] # NoInst => def'[tasks[x]] = def[tasks[x]]
      BY <1>2, <2>2 DEF Aside
    <3>2. Fits(tasks[x], store[x], def)
      BY <1>2, <3>1 DEF MatchInv, Matches
    <3> QED
      BY <3>1, <3>2 DEF Fits
  <2> QED
    BY <2>1, <2>2
<1>3. ASSUME NEW s \in Req
      PROVE  req'[s].op \in {"none", "edit", "delete"}
  BY <1>1 DEF MatchInv, Aside
<1>4. ASSUME NEW s \in Req, HasRow(s)', req'[s].op = "edit"
      PROVE  /\ req'[s].pc \in {"act", "stopping"} =>
                   /\ req'[s].def.Disabled => req'[s].branch = "delete"
                   /\ ~req'[s].def.Disabled => req'[s].branch \in {"add", "edit"}
             /\ req'[s].pc = "commit" => Fits(tasks'[req'[s].id], req'[s].def, def')
  <2>1. CASE s = r
    BY <1>1, <1>4, <2>1 DEF Edited, HasRow
  <2>2. CASE s # r
    <3>1. req'[s] = req[s] /\ req[s].pc \in Holding
      BY <1>4, <2>2 DEF Aside, HasRow
    <3>2. req[s].id \in Rule \ {k}
      <4>1. req[s].id \in Rule
        BY <3>1, InTransaction
      <4>2. lock'[req[s].id] = s
        BY <1>4, <3>1 DEF HasRow
      <4> QED
        BY <1>1, <2>2, <4>1, <4>2, RequestAssumption
    <3>3. /\ lock'[req[s].id] = lock[req[s].id] /\ tasks'[req[s].id] = tasks[req[s].id]
          /\ tasks[req[s].id] # NoInst =>
                def'[tasks[req[s].id]] = def[tasks[req[s].id]]
      BY <3>2 DEF Aside
    <3>4. HasRow(s)
      BY <1>4, <3>1, <3>3 DEF HasRow
    <3>5. /\ req[s].pc \in {"act", "stopping"} =>
                /\ req[s].def.Disabled => req[s].branch = "delete"
                /\ ~req[s].def.Disabled => req[s].branch \in {"add", "edit"}
          /\ req[s].pc = "commit" => Fits(tasks[req[s].id], req[s].def, def)
      BY <1>4, <3>1, <3>4 DEF MatchInv, Matches
    <3> QED
      BY <3>1, <3>3, <3>5 DEF Fits
  <2> QED
    BY <2>1, <2>2
<1> QED
  BY <1>2, <1>3, <1>4 DEF MatchInv, Matches

LEMMA InsideMatches ==
    ASSUME TypeOK, TaskInv, LockInv, MatchInv, ~Faults, NEW r \in Req, Inside(r)
    PROVE  MatchInv'
<1>1. CASE RowFound(r)
  <2>1. req[r].pc \in Holding \cup {"write"} /\ Aside(r)
    BY <1>1, InsideAside
  <2>2. req[r].op \in {"edit", "delete"}
    BY <2>1, InTransaction DEF MatchInv
  <2>3. Edited(r)
    BY <1>1, <2>2, InsideEdited, InsideDeleted
  <2> QED
    BY <2>1, <2>3, EditedKept
<1>2. CASE ~RowFound(r)
  <2>1. req[r].pc \in Holding \cup {"write"} /\ Aside(r) /\ Lost(r)
    BY <1>2, InsideLost
  <2>2. Edited(r)
    BY <2>1, RequestAssumption DEF Lost, Edited
  <2> QED
    BY <2>1, <2>2, EditedKept
<1> QED
  BY <1>1, <1>2

(***************************************************************************)
(* A step that leaves the stored rules and the tasks alone and takes no    *)
(* request into a transaction.                                             *)
(***************************************************************************)
LEMMA MatchAside ==
    ASSUME TypeOK, MatchInv, NEW r \in Req,
           \A s \in Req \ {r} : req'[s] = req[s],
           UNCHANGED <<store, lock, tasks, def>>,
           req'[r].op \in {"none", "edit", "delete"},
           req'[r].pc \notin Holding
    PROVE  MatchInv'
<1>1. \A s \in Req : req'[s].op \in {"none", "edit", "delete"}
  BY DEF MatchInv
<1>2. ASSUME NEW s \in Req, HasRow(s)', req'[s].op = "edit"
      PROVE  /\ req'[s].pc \in {"act", "stopping"} =>
                   /\ req'[s].def.Disabled => req'[s].branch = "delete"
                   /\ ~req'[s].def.Disabled => req'[s].branch \in {"add", "edit"}
             /\ req'[s].pc = "commit" => Fits(tasks[req'[s].id], req'[s].def, def)
  <2>1. s # r /\ req'[s] = req[s] /\ HasRow(s)
    BY <1>2 DEF HasRow
  <2> QED
    BY <1>2, <2>1 DEF MatchInv, Matches
<1> QED
  BY <1>1, <1>2 DEF MatchInv, Matches

(***************************************************************************)
(* initiate loads every rule when the rules belong to one organization.    *)
(***************************************************************************)
LEMMA MatchRestart ==
    ASSUME TypeOK, MatchInv, \A o, p \in Org : o = p,
           NEW loaded \in SUBSET Org, Restart(loaded)
    PROVE  MatchInv'
<1>1. /\ loaded \in Loadable /\ store' = store
      /\ tasks' = [id \in Rule |-> IF OrgOf[id] \in loaded /\ ~store[id].Disabled
                                     THEN <<id, 0>> ELSE NoInst]
      /\ def' = [i \in Inst |-> IF i[1] \in Rule THEN store[i[1]] ELSE NoDef]
      /\ req' = [r \in Req |-> [req[r] EXCEPT
                   !.pc = IF req[r].pc = "new" THEN "new" ELSE "end", !.old = NoInst]]
  BY DEF Restart
<1>2. ASSUME NEW r \in Req
      PROVE  req'[r].pc \in {"new", "end"} /\ req'[r].op \in {"none", "edit", "delete"}
  <2>1. req[r] \in RequestState /\ req[r].op \in {"none", "edit", "delete"}
    BY DEF TypeOK, MatchInv
  <2>2. req'[r] = [req[r] EXCEPT !.pc = IF req[r].pc = "new" THEN "new" ELSE "end",
                                 !.old = NoInst]
    BY <1>1
  <2> QED
    BY <2>1, <2>2 DEF RequestState
<1>3. ASSUME NEW id \in Rule
      PROVE  Fits(tasks'[id], store'[id], def')
  <2>1. CASE store[id].Disabled
    <3>1. tasks'[id] = NoInst /\ store'[id] = store[id]
      BY <1>1, <2>1
    <3> QED
      BY <2>1, <3>1 DEF Fits
  <2>2. CASE ~store[id].Disabled
    <3>1. store[id] # NoDef /\ OrgOf[id] \in Org
      BY <2>2, NoDefFacts, RequestAssumption
    <3>2. \A o \in Org : HasRules(o)
      BY <3>1 DEF HasRules
    <3>3. loaded = Org
      BY <1>1, <3>2 DEF Loadable
    <3>4. tasks'[id] = <<id, 0>>
      BY <1>1, <2>2, <3>1, <3>3
    <3>5. <<id, 0>> \in Inst /\ <<id, 0>> # NoInst
      BY InstFacts
    <3>6. def'[<<id, 0>>] = store[id]
      BY <1>1, <3>5
    <3> QED
      BY <1>1, <2>2, <3>4, <3>5, <3>6 DEF Fits
  <2> QED
    BY <2>1, <2>2
<1> QED
  BY <1>2, <1>3 DEF MatchInv, Matches, HasRow, Holding

LEMMA MatchInit == Init => MatchInv
<1> SUFFICES ASSUME Init PROVE MatchInv
  OBVIOUS
<1>1. \A r \in Req : req[r].pc = "new" /\ req[r].op = "none"
  BY DEF Init, Request
<1>2. ASSUME NEW id \in Rule
      PROVE  Fits(tasks[id], store[id], def)
  <2>1. tasks[id] = IF store[id].Disabled THEN NoInst ELSE <<id, 0>>
    BY DEF Init
  <2>2. <<id, 0>> \in Inst /\ <<id, 0>> # NoInst
    BY InstFacts
  <2>3. def[<<id, 0>>] = store[id]
    BY <2>2 DEF Init
  <2> QED
    BY <2>1, <2>2, <2>3 DEF Fits
<1> QED
  BY <1>1, <1>2 DEF MatchInv, Matches, HasRow, Holding

LEMMA MatchStep ==
    ASSUME TypeOK, TaskInv, LockInv, MatchInv, Ops \subseteq {"edit", "delete"}, ~Faults,
           \A o, p \in Org : o = p, [Next]_vars
    PROVE  MatchInv'
<1>1. ASSUME NEW r \in Req, RequestStep(r) PROVE MatchInv'
  <2>1. CASE Inside(r)
    BY <2>1, InsideMatches
  <2>2. CASE Outside(r)
    <3>1. /\ UNCHANGED <<store, lock, tasks, def>>
          /\ \A s \in Req \ {r} : req'[s] = req[s]
          /\ req'[r].pc \notin Holding /\ req'[r].op = req[r].op
      BY <2>2, OutsideKept DEF Holding
    <3>2. req[r].op \in {"none", "edit", "delete"}
      BY DEF MatchInv
    <3> QED
      BY <3>1, <3>2, MatchAside
  <2>3. ASSUME NEW op \in Ops, NEW id \in Rule, NEW d \in Def, Begin(r, op, id, d)
        PROVE  MatchInv'
    <3>1. op \in {"edit", "delete"} /\ "patch" \notin Ops
      OBVIOUS
    <3>2. /\ UNCHANGED <<store, lock, tasks, def>>
          /\ \A s \in Req \ {r} : req'[s] = req[s]
          /\ req'[r].op = op /\ req'[r].pc \notin Holding
      BY <2>3, <3>1, BeginKept DEF Holding
    <3> QED
      BY <3>1, <3>2, MatchAside
  <2> QED
    BY <1>1, <2>1, <2>2, <2>3 DEF RequestStep, Inside, Outside
<1>2. CASE \E loaded \in SUBSET Org : Restart(loaded)
  BY <1>2, MatchRestart
<1>3. CASE \/ \E i \in Inst : LoopStep(i)
           \/ Stop \/ (\E id \in Rule : StopTask(id)) \/ StopEnds \/ UNCHANGED vars
  <2>1. UNCHANGED <<store, lock, tasks, def, req>>
    BY <1>3 DEF LoopStep, TickArrives, DoneSeen, Evaluate, Send, LoopTo, Stop, StopTask,
       StopEnds, vars
  <2> QED
    BY <2>1 DEF MatchInv, Matches, HasRow
<1> QED
  BY <1>1, <1>2, <1>3 DEF Next

(***************************************************************************)
(* Edits and deletes of any number of rules by any number of concurrent    *)
(* requests leave every stored rule that is enabled with a task made from  *)
(* its definition, and one that is disabled with none, once the requests   *)
(* are done (EditRule in manager.go keeps the row lock over                *)
(* syncRuleStateWithTask).  Each hypothesis is needed: a create of a       *)
(* disabled rule, a patch, a commit that fails after the task was replaced *)
(* and a restart with an organization that has no rules each leave a task  *)
(* that does not match.                                                    *)
(***************************************************************************)
THEOREM TasksMatchStoreHolds ==
    ASSUME Ops \subseteq {"edit", "delete"}, ~Faults, \A o, p \in Org : o = p
    PROVE  Spec => []TasksMatchStore
<1>1. TypeOK /\ TaskInv /\ LockInv /\ [Next]_vars => LockInv'
  BY LockStep
<1>2. TypeOK /\ TaskInv /\ LockInv /\ MatchInv /\ [Next]_vars => MatchInv'
  BY MatchStep
<1>3. ASSUME TypeOK, LockInv, MatchInv PROVE TasksMatchStore
  <2> SUFFICES ASSUME Quiet, NEW id \in Rule, store[id] # NoDef
               PROVE  IF store[id].Disabled
                        THEN tasks[id] = NoInst
                        ELSE tasks[id] # NoInst /\ def[tasks[id]] = store[id]
    BY DEF TasksMatchStore
  <2>1. lock[id] = None
    BY <1>3, QuietUnlocked DEF LockInv
  <2> QED
    BY <1>3, <2>1 DEF MatchInv, Matches, Fits
<1> QED
  BY <1>1, <1>2, <1>3, LockInit, MatchInit, TaskSafety, PTL DEF Spec
=============================================================================
