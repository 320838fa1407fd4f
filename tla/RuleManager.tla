----------------------------- MODULE RuleManager -----------------------------
(***************************************************************************)
(* The rule manager of the ruler (pkg/query-service/rules/manager.go): the *)
(* API requests that create, edit, patch and delete rules, each a sequence *)
(* of steps interleaved with the others, the rule store and its            *)
(* transactions (sqlrulestore, sqlstore), and the evaluation loops of the  *)
(* rule tasks (rule_task.go, prom_rule_task.go) that the requests start    *)
(* and stop.                                                               *)
(*                                                                         *)
(* A task is known by the instance that prepareTaskFunc made; what it      *)
(* evaluates is abstracted to the definition it was made from.             *)
(***************************************************************************)
EXTENDS Integers, FiniteSets

CONSTANTS
    Rule,           \* rule ids
    Org,            \* organizations of the key range this process owns
    OrgOf,          \* the organization of a rule
    Req,            \* API requests of the run, each made once
    Ops,            \* operations the requests make
    Body,           \* what a definition says besides Disabled
    MaxOpenConns,   \* connections of the SQL store's pool
    Faults,         \* may statements, callbacks and commits fail?
    None            \* no rule, no task, nobody

ASSUME RequestAssumption ==
    /\ Ops \subseteq {"create", "edit", "patch", "delete"}
    /\ MaxOpenConns \in Nat \ {0}
    /\ Faults \in BOOLEAN
    /\ OrgOf \in [Rule -> Org]
    /\ None \notin Req \cup Rule \cup Body

Def == [Disabled : BOOLEAN, Body : Body]

(***************************************************************************)
(* Task instances: those a request prepares, by its first call of          *)
(* syncRuleStateWithTask and by the one after a failed patch, and those    *)
(* initiate prepares for the stored rules.                                 *)
(***************************************************************************)
Inst == (Req \X {1, 2}) \cup (Rule \X {0})

NoInst == <<None, 0>>

NoDef == [Disabled |-> TRUE, Body |-> None]

VARIABLES
    store,   \* committed rules
    unused,  \* ids that valuer.GenerateUUID has not given out yet
    lock,    \* the transaction that has written a rule's row
    tasks,   \* Manager.tasks
    rules,   \* Manager.rules
    def,     \* definition a task instance was prepared from
    loop,    \* where the evaluation loop of a task instance is
    done,    \* task instances whose done channel is closed
    mtx,     \* who holds Manager.mtx
    mgr,     \* "up", "stopping" or "down"
    req      \* the state of the requests

vars == <<store, unused, lock, tasks, rules, def, loop, done, mtx, mgr, req>>

-----------------------------------------------------------------------------

Request(pc, op, id, d) ==
    [pc |-> pc, op |-> op, id |-> id, def |-> d,
     branch |-> "none", old |-> NoInst, try |-> 1]

Goto(r, pc) == req' = [req EXCEPT ![r].pc = pc]

Finished(r) == req[r].pc \in {"new", "end"}

\* PatchRule synchronises the task before its transaction or after it.
InTx ==
    {r \in Req : \/ req[r].pc \in {"write", "commit"}
                 \/ /\ req[r].pc \in {"check", "act", "stopping"}
                    /\ req[r].op # "patch"}

ConnFree == Cardinality(InTx) < MaxOpenConns

Unlock(r) == lock' = [id \in Rule |-> IF lock[id] = r THEN None ELSE lock[id]]

Running(i) == loop[i] \notin {"none", "gone"}

NewInst(r) == <<r, req[r].try>>

Init ==
    /\ unused \in SUBSET Rule
    /\ store \in [Rule -> Def \cup {NoDef}]
    /\ \A id \in Rule : store[id] = NoDef <=> id \in unused
    /\ lock = [id \in Rule |-> None]
    /\ tasks = [id \in Rule |-> IF store[id].Disabled THEN NoInst
                                                      ELSE <<id, 0>>]
    /\ rules = tasks
    /\ def = [i \in Inst |-> IF i[1] \in Rule THEN store[i[1]] ELSE NoDef]
    /\ loop = [i \in Inst |-> IF i[1] \in Rule /\ tasks[i[1]] = i
                                THEN "wait" ELSE "none"]
    /\ done = {}
    /\ mtx = None
    /\ mgr = "up"
    /\ req = [r \in Req |-> Request("new", "none", None, NoDef)]

-----------------------------------------------------------------------------
(***************************************************************************)
(* The requests, up to the transaction.                                    *)
(***************************************************************************)
Begin(r, op, id, d) ==
    /\ mgr = "up"
    /\ req[r].pc = "new"
    /\ IF op = "create"
         THEN /\ id \in unused
              /\ unused' = unused \ {id}
              /\ req' = [req EXCEPT ![r] = Request("update", op, id, d)]
         ELSE /\ id \notin unused
              /\ unused' = unused
              /\ req' = [req EXCEPT ![r] = Request("read", op, id, d)]
    /\ UNCHANGED <<store, lock, tasks, rules, def, loop, done, mtx, mgr>>

\* Mutant of ReadRule: a patch goes on with a rule that was not found.
ReadRuleUnchecked(r) ==
    /\ req[r].pc = "read"
    /\ ConnFree
    /\ IF req[r].op = "patch"
         THEN req' = [req EXCEPT
                ![r].pc = "check",
                ![r].def.Body = store[req[r].id].Body]
         ELSE Goto(r, "update")
    /\ UNCHANGED <<store, unused, lock, tasks, rules, def, loop, done, mtx,
                   mgr>>

(***************************************************************************)
(* GetStoredRule.  PatchRule unmarshals the patch over what it read.       *)
(***************************************************************************)
ReadRule(r) ==
    /\ req[r].pc = "read"
    /\ ConnFree
    /\ IF store[req[r].id] = NoDef
         THEN Goto(r, "end")
         ELSE IF req[r].op = "patch"
           THEN req' = [req EXCEPT
                  ![r].pc = "check",
                  ![r].def.Body = store[req[r].id].Body]
           ELSE Goto(r, "update")
    /\ UNCHANGED <<store, unused, lock, tasks, rules, def, loop, done, mtx,
                   mgr>>

(***************************************************************************)
(* RunInTxCtx takes a connection, which it keeps until commit or rollback. *)
(***************************************************************************)
BeginTx(r) ==
    /\ req[r].pc = "update"
    /\ ConnFree
    /\ Goto(r, "write")
    /\ UNCHANGED <<store, unused, lock, tasks, rules, def, loop, done, mtx,
                   mgr>>

\* The row that the statement writes: a new one, or the one that is stored.
RowFound(r) == req[r].op = "create" \/ store[req[r].id] # NoDef

\* Mutant of Update: the row is written without waiting for the other writer.
UpdateUnlocked(r) ==
    /\ req[r].pc = "write"
    /\ lock' = IF RowFound(r) THEN [lock EXCEPT ![req[r].id] = r] ELSE lock
    /\ CASE req[r].op = "edit"   -> Goto(r, "check")
         [] req[r].op = "patch"  -> Goto(r, "commit")
         [] req[r].op = "create" ->
              req' = [req EXCEPT ![r].pc = "act", ![r].branch = "add"]
         [] req[r].op = "delete" ->
              req' = [req EXCEPT ![r].pc = "act", ![r].branch = "delete"]
    /\ UNCHANGED <<store, unused, tasks, rules, def, loop, done, mtx, mgr>>

(***************************************************************************)
(* The INSERT, UPDATE or DELETE of the rule's row, which waits for a       *)
(* transaction that has written the row and locks it.  An UPDATE or a      *)
(* DELETE of a row that is gone changes nothing, locks nothing and is no   *)
(* error.  The callback follows within the transaction; that of PatchRule  *)
(* does nothing.                                                           *)
(***************************************************************************)
Update(r) ==
    /\ req[r].pc = "write"
    /\ RowFound(r) => lock[req[r].id] = None
    /\ lock' = IF RowFound(r) THEN [lock EXCEPT ![req[r].id] = r] ELSE lock
    /\ CASE req[r].op = "edit"   -> Goto(r, "check")
         [] req[r].op = "patch"  -> Goto(r, "commit")
         [] req[r].op = "create" ->
              req' = [req EXCEPT ![r].pc = "act", ![r].branch = "add"]
         [] req[r].op = "delete" ->
              req' = [req EXCEPT ![r].pc = "act", ![r].branch = "delete"]
    /\ UNCHANGED <<store, unused, tasks, rules, def, loop, done, mtx, mgr>>

(***************************************************************************)
(* The statement or, before any task is touched, a call of the alert       *)
(* manager fails: the transaction is rolled back.                          *)
(***************************************************************************)
StatementFails(r) ==
    /\ Faults
    /\ req[r].pc = "write"
    /\ IF req[r].op = "patch"
         THEN req' = [req EXCEPT ![r].pc = "check", ![r].try = 2]
         ELSE Goto(r, "end")
    /\ UNCHANGED <<store, unused, lock, tasks, rules, def, loop, done, mtx,
                   mgr>>

-----------------------------------------------------------------------------
(***************************************************************************)
(* syncRuleStateWithTask, addTask, editTask, deleteTask.                   *)
(***************************************************************************)
AfterSync(r) ==
    IF req[r].op # "patch" THEN "commit"
    ELSE IF req[r].try = 1 THEN "update" ELSE "end"

(***************************************************************************)
(* The choice of the branch reads Manager.tasks without Manager.mtx.       *)
(***************************************************************************)
Check(r) ==
    LET has == tasks[req[r].id] # NoInst
        branch == IF req[r].def.Disabled
                    THEN IF has THEN "delete" ELSE "none"
                    ELSE IF has THEN "edit" ELSE "add"
    IN  /\ req[r].pc = "check"
        /\ req' = [req EXCEPT ![r].branch = branch,
                     ![r].pc = IF branch = "none" THEN AfterSync(r) ELSE "act"]
        /\ UNCHANGED <<store, unused, lock, tasks, rules, def, loop, done, mtx,
                       mgr>>

(***************************************************************************)
(* The instance is prepared, its loop is started and entered in tasks.     *)
(***************************************************************************)
StartTask(r) ==
    /\ def' = [def EXCEPT ![NewInst(r)] = req[r].def]
    /\ loop' = [loop EXCEPT ![NewInst(r)] = "wait"]
    /\ tasks' = [tasks EXCEPT ![req[r].id] = NewInst(r)]

\* Mutant of AddTask: a task that is there already is overwritten.
AddTaskOverwrites(r) ==
    /\ req[r].pc = "act" /\ req[r].branch = "add"
    /\ mtx = None
    /\ rules' = [rules EXCEPT ![req[r].id] = NewInst(r)]
    /\ StartTask(r)
    /\ Goto(r, AfterSync(r))
    /\ UNCHANGED <<store, unused, lock, done, mtx, mgr>>

(***************************************************************************)
(* addTask: Manager.rules is set before a task that is there already makes *)
(* the call fail.                                                          *)
(***************************************************************************)
AddTask(r) ==
    /\ req[r].pc = "act" /\ req[r].branch = "add"
    /\ mtx = None
    /\ rules' = [rules EXCEPT ![req[r].id] = NewInst(r)]
    /\ IF tasks[req[r].id] = NoInst
         THEN /\ StartTask(r)
              /\ Goto(r, AfterSync(r))
              /\ UNCHANGED lock
         ELSE /\ def' = [def EXCEPT ![NewInst(r)] = req[r].def]
              /\ Goto(r, "end")
              /\ Unlock(r)
              /\ UNCHANGED <<loop, tasks>>
    /\ UNCHANGED <<store, unused, done, mtx, mgr>>

(***************************************************************************)
(* prepareTaskFunc fails in addTask or editTask.                           *)
(***************************************************************************)
PrepareFails(r) ==
    /\ Faults
    /\ req[r].pc = "act" /\ req[r].branch \in {"add", "edit"}
    /\ mtx = None
    /\ Goto(r, "end")
    /\ Unlock(r)
    /\ UNCHANGED <<store, unused, tasks, rules, def, loop, done, mtx, mgr>>

(***************************************************************************)
(* editTask: with the mutex held the old task leaves tasks, is told to     *)
(* stop and is waited for.                                                 *)
(***************************************************************************)
EditTask(r) ==
    LET old == tasks[req[r].id]
    IN  /\ req[r].pc = "act" /\ req[r].branch = "edit"
        /\ mtx = None
        /\ rules' = [rules EXCEPT ![req[r].id] = NewInst(r)]
        /\ IF old = NoInst
             THEN /\ StartTask(r)
                  /\ Goto(r, AfterSync(r))
                  /\ UNCHANGED <<mtx, done>>
             ELSE /\ def' = [def EXCEPT ![NewInst(r)] = req[r].def]
                  /\ tasks' = [tasks EXCEPT ![req[r].id] = NoInst]
                  /\ done' = done \cup {old}
                  /\ mtx' = r
                  /\ req' = [req EXCEPT ![r].pc = "stopping", ![r].old = old]
                  /\ UNCHANGED loop
        /\ UNCHANGED <<store, unused, lock, mgr>>

(***************************************************************************)
(* deleteTask: the task stays in tasks until it has stopped.               *)
(***************************************************************************)
DeleteTask(r) ==
    LET old == tasks[req[r].id]
    IN  /\ req[r].pc = "act" /\ req[r].branch = "delete"
        /\ mtx = None
        /\ IF old = NoInst
             THEN Goto(r, AfterSync(r)) /\ UNCHANGED <<mtx, done>>
             ELSE /\ done' = done \cup {old}
                  /\ mtx' = r
                  /\ req' = [req EXCEPT ![r].pc = "stopping", ![r].old = old]
        /\ UNCHANGED <<store, unused, lock, tasks, rules, def, loop, mgr>>

\* Mutant of StopReturns: deleteTask forgets to delete the stopped task.
StopReturnsKeeps(r) ==
    /\ req[r].pc = "stopping"
    /\ loop[req[r].old] = "gone"
    /\ mtx' = None
    /\ IF req[r].branch = "edit"
         THEN StartTask(r) /\ UNCHANGED rules
         ELSE /\ rules' = [rules EXCEPT ![req[r].id] = NoInst]
              /\ UNCHANGED <<tasks, def, loop>>
    /\ Goto(r, AfterSync(r))
    /\ UNCHANGED <<store, unused, lock, done, mgr>>

\* Mutant of StopReturns: deleteTask keeps the rule in Manager.rules.
StopReturnsShows(r) ==
    /\ req[r].pc = "stopping"
    /\ loop[req[r].old] = "gone"
    /\ mtx' = None
    /\ IF req[r].branch = "edit"
         THEN StartTask(r)
         ELSE /\ tasks' = [tasks EXCEPT ![req[r].id] = NoInst]
              /\ UNCHANGED <<def, loop>>
    /\ Goto(r, AfterSync(r))
    /\ UNCHANGED <<store, unused, rules, lock, done, mgr>>

(***************************************************************************)
(* Task.Stop returns to editTask or deleteTask: the loop has terminated.   *)
(***************************************************************************)
StopReturns(r) ==
    /\ req[r].pc = "stopping"
    /\ loop[req[r].old] = "gone"
    /\ mtx' = None
    /\ IF req[r].branch = "edit"
         THEN StartTask(r) /\ UNCHANGED rules
         ELSE /\ tasks' = [tasks EXCEPT ![req[r].id] = NoInst]
              /\ rules' = [rules EXCEPT ![req[r].id] = NoInst]
              /\ UNCHANGED <<def, loop>>
    /\ Goto(r, AfterSync(r))
    /\ UNCHANGED <<store, unused, lock, done, mgr>>

-----------------------------------------------------------------------------
(***************************************************************************)
(* The end of the transaction.                                             *)
(***************************************************************************)
Written(r) ==
    CASE req[r].op = "create" -> req[r].def
      [] req[r].op = "delete" -> NoDef
      [] OTHER -> IF store[req[r].id] = NoDef THEN NoDef ELSE req[r].def

Commit(r) ==
    /\ req[r].pc = "commit"
    /\ store' = [store EXCEPT ![req[r].id] = Written(r)]
    /\ Unlock(r)
    /\ Goto(r, "end")
    /\ UNCHANGED <<unused, tasks, rules, def, loop, done, mtx, mgr>>

(***************************************************************************)
(* The commit fails, or the request's context ended before it.  PatchRule  *)
(* then synchronises the task once more, with the patched rule.            *)
(***************************************************************************)
CommitFails(r) ==
    /\ Faults
    /\ req[r].pc = "commit"
    /\ Unlock(r)
    /\ IF req[r].op = "patch"
         THEN req' = [req EXCEPT ![r].pc = "check", ![r].try = 2]
         ELSE Goto(r, "end")
    /\ UNCHANGED <<store, unused, tasks, rules, def, loop, done, mtx, mgr>>

-----------------------------------------------------------------------------
(***************************************************************************)
(* The loop of a task (RuleTask.Run and Eval): "wait" is the inner select, *)
(* "query" the planned maintenances and "send" the organization lookup of  *)
(* SendAlerts, which each take a connection of the pool.                   *)
(***************************************************************************)
LoopTo(i, where) ==
    /\ loop' = [loop EXCEPT ![i] = where]
    /\ UNCHANGED <<store, unused, lock, tasks, rules, def, done, mtx, mgr, req>>

TickArrives(i) == loop[i] = "wait" /\ LoopTo(i, "query")

DoneSeen(i) == loop[i] = "wait" /\ i \in done /\ LoopTo(i, "gone")

\* Mutant of Evaluate: a task that was told to stop never looks at done.
EvaluateDeaf(i) ==
    /\ loop[i] = "query"
    /\ ConnFree
    /\ LoopTo(i, IF i \in done THEN "query" ELSE "send")

Evaluate(i) ==
    /\ loop[i] = "query"
    /\ ConnFree
    /\ LoopTo(i, IF i \in done THEN "gone" ELSE "send")

Send(i) ==
    /\ loop[i] = "send"
    /\ ConnFree
    /\ LoopTo(i, IF i \in done THEN "gone" ELSE "wait")

-----------------------------------------------------------------------------
(***************************************************************************)
(* Manager.Stop, once the HTTP server has shut down and no request is      *)
(* left: the tasks are stopped one after the other.                        *)
(***************************************************************************)
Stop ==
    /\ mgr = "up"
    /\ \A r \in Req : Finished(r)
    /\ mtx = None
    /\ mgr' = "stopping"
    /\ UNCHANGED <<store, unused, lock, tasks, rules, def, loop, done, mtx, req>>

StopTask(id) ==
    /\ mgr = "stopping"
    /\ tasks[id] # NoInst
    /\ tasks[id] \notin done
    /\ \A x \in Rule : tasks[x] \in done => loop[tasks[x]] = "gone"
    /\ done' = done \cup {tasks[id]}
    /\ UNCHANGED <<store, unused, lock, tasks, rules, def, loop, mtx, mgr, req>>

StopEnds ==
    /\ mgr = "stopping"
    /\ \A id \in Rule : tasks[id] # NoInst => loop[tasks[id]] = "gone"
    /\ mgr' = "down"
    /\ UNCHANGED <<store, unused, lock, tasks, rules, def, loop, done, mtx, req>>

(***************************************************************************)
(* initiate goes through the organizations in the order of the database    *)
(* and returns at the first one that has no rules.                         *)
(***************************************************************************)
HasRules(o) == \E id \in Rule : OrgOf[id] = o /\ store[id] # NoDef

Loadable ==
    IF \A o \in Org : HasRules(o) THEN {Org}
                                  ELSE SUBSET {o \in Org : HasRules(o)}

(***************************************************************************)
(* The process ends, at any point, and starts again.                       *)
(***************************************************************************)
Restart(loaded) ==
    /\ loaded \in Loadable
    /\ tasks' = [id \in Rule |->
                   IF OrgOf[id] \in loaded /\ ~store[id].Disabled
                     THEN <<id, 0>> ELSE NoInst]
    /\ rules' = tasks'
    /\ def' = [i \in Inst |-> IF i[1] \in Rule THEN store[i[1]] ELSE NoDef]
    /\ loop' = [i \in Inst |-> IF i[1] \in Rule /\ tasks'[i[1]] = i
                                 THEN "wait" ELSE "none"]
    /\ done' = {}
    /\ lock' = [id \in Rule |-> None]
    /\ mtx' = None
    /\ mgr' = "up"
    /\ req' = [r \in Req |-> [req[r] EXCEPT
                 !.pc = IF req[r].pc = "new" THEN "new" ELSE "end",
                 !.old = NoInst]]
    /\ UNCHANGED <<store, unused>>

-----------------------------------------------------------------------------

RequestStep(r) ==
    \/ \E op \in Ops, id \in Rule, d \in Def : Begin(r, op, id, d)
    \/ ReadRule(r)
    \/ BeginTx(r)
    \/ Update(r)
    \/ StatementFails(r)
    \/ Check(r)
    \/ AddTask(r)
    \/ EditTask(r)
    \/ DeleteTask(r)
    \/ PrepareFails(r)
    \/ StopReturns(r)
    \/ Commit(r)
    \/ CommitFails(r)

LoopStep(i) == TickArrives(i) \/ DoneSeen(i) \/ Evaluate(i) \/ Send(i)

Next ==
    \/ \E r \in Req : RequestStep(r)
    \/ \E i \in Inst : LoopStep(i)
    \/ Stop
    \/ \E id \in Rule : StopTask(id)
    \/ StopEnds
    \/ \E loaded \in SUBSET Org : Restart(loaded)

Spec == Init /\ [][Next]_vars

(***************************************************************************)
(* A handler goes on with its request, a loop with its iteration, and a    *)
(* mutex or a row lock is granted when it stays free.                      *)
(***************************************************************************)
Fairness ==
    /\ \A r \in Req : WF_vars(req[r].pc # "new" /\ RequestStep(r))
    /\ \A i \in Inst : WF_vars(LoopStep(i))

FairSpec == Spec /\ Fairness

-----------------------------------------------------------------------------

Pcs == {"new", "read", "update", "write", "check", "act", "stopping", "commit",
        "end"}

RequestState ==
    [pc : Pcs,
     op : {"none", "create", "edit", "patch", "delete"},
     id : Rule \cup {None},
     def : Def \cup {NoDef},
     branch : {"none", "add", "edit", "delete"},
     old : Inst \cup {NoInst},
     try : {1, 2}]

(***************************************************************************)
(* Every variable has its type.                                            *)
(***************************************************************************)
TypeOK ==
    /\ store \in [Rule -> Def \cup {NoDef}]
    /\ unused \in SUBSET Rule
    /\ lock \in [Rule -> Req \cup {None}]
    /\ tasks \in [Rule -> Inst \cup {NoInst}]
    /\ rules \in [Rule -> Inst \cup {NoInst}]
    /\ def \in [Inst -> Def \cup {NoDef}]
    /\ loop \in [Inst -> {"none", "wait", "query", "send", "gone"}]
    /\ done \in SUBSET Inst
    /\ mtx \in Req \cup {None}
    /\ mgr \in {"up", "stopping", "down"}
    /\ req \in [Req -> RequestState]

(***************************************************************************)
(* No evaluation loop is left behind: one that runs is the task of a rule, *)
(* where a request or Stop can reach it, or is being stopped (editTask     *)
(* waits for the old task, addTask refuses to replace one).                *)
(***************************************************************************)
NoStrayEvaluator ==
    \A i \in Inst : Running(i) =>
        \/ \E id \in Rule : tasks[id] = i
        \/ \E r \in Req : req[r].pc = "stopping" /\ req[r].old = i

(***************************************************************************)
(* No task is stopped twice, which would close its done channel twice and  *)
(* panic: whoever may take the mutex finds no stopped task in tasks.       *)
(***************************************************************************)
StoppedOnce ==
    (mgr = "up" /\ mtx = None) => \A id \in Rule : tasks[id] \notin done

(***************************************************************************)
(* What makes these two inductive.  A request that waits for a task to     *)
(* stop holds the mutex, and only such a request holds it; the instance a  *)
(* request is going to start has not been started; the tasks are different *)
(* started instances; a task that was told to stop is that of the request  *)
(* that holds the mutex.                                                   *)
(***************************************************************************)
Targeted ==
    \A r \in Req :
        /\ ~Finished(r) => /\ req[r].id \in Rule
                           /\ req[r].op # "none"
                           /\ req[r].def \in Def
        /\ req[r].pc \in {"new", "read"} => req[r].try = 1
        /\ (req[r].op = "patch" /\ req[r].pc \in {"update", "write", "commit"})
              => req[r].try = 1

Waits ==
    /\ mtx # None => req[mtx].pc = "stopping"
    /\ \A r \in Req : req[r].pc = "stopping" =>
          /\ mtx = r
          /\ req[r].old \in done
          /\ \/ req[r].branch = "edit" /\ tasks[req[r].id] = NoInst
             \/ req[r].branch = "delete" /\ tasks[req[r].id] = req[r].old

Unstarted ==
    \A r \in Req :
        /\ req[r].try = 1 => loop[<<r, 2>>] = "none"
        /\ (\/ req[r].pc \in {"new", "read", "check", "act"}
            \/ req[r].pc = "stopping" /\ req[r].branch = "edit"
            \/ req[r].pc \in {"update", "write"} /\ req[r].op # "patch")
              => loop[NewInst(r)] = "none"

Distinct ==
    /\ \A id \in Rule : tasks[id] # NoInst => loop[tasks[id]] # "none"
    /\ \A i \in done : loop[i] # "none"
    /\ \A x, y \in Rule : (tasks[x] # NoInst /\ tasks[x] = tasks[y]) => x = y

StoppedByHolder ==
    mgr = "up" => \A id \in Rule :
        tasks[id] \in done => mtx \in Req /\ req[mtx].id = id

TaskInv ==
    /\ Targeted
    /\ Waits
    /\ Unstarted
    /\ Distinct
    /\ StoppedByHolder
    /\ NoStrayEvaluator

Quiet == mgr = "up" /\ \A r \in Req : Finished(r)

(***************************************************************************)
(* When no request is under way, a stored rule that is enabled has a task  *)
(* made from its definition and one that is disabled has none              *)
(* (syncRuleStateWithTask "ensures that the state of a stored rule matches *)
(* the task state").  DeletedHasNoTask is about the other rules.           *)
(***************************************************************************)
TasksMatchStore ==
    Quiet => \A id \in Rule : store[id] # NoDef =>
                IF store[id].Disabled
                  THEN tasks[id] = NoInst
                  ELSE tasks[id] # NoInst /\ def[tasks[id]] = store[id]

(***************************************************************************)
(* The state that the API shows of a stored rule (GetRule and              *)
(* ListRuleStates go through the stored rules and look each one up in      *)
(* Manager.rules) is that of the rule that is evaluated.                   *)
(***************************************************************************)
ShownIsEvaluated ==
    Quiet => \A id \in Rule : store[id] # NoDef => rules[id] = tasks[id]

(***************************************************************************)
(* "if a stored rule is disabled, then there is no task running against    *)
(* it" (manager.go, syncRuleStateWithTask).                                *)
(***************************************************************************)
DisabledHasNoTask ==
    Quiet => \A id \in Rule :
                (store[id] # NoDef /\ store[id].Disabled) => tasks[id] = NoInst

(***************************************************************************)
(* A rule that is not stored has no task.                                  *)
(***************************************************************************)
DeletedHasNoTask ==
    Quiet => \A id \in Rule : store[id] = NoDef => tasks[id] = NoInst

(***************************************************************************)
(* A patch changes the attributes it names and no others: PatchRule "get   *)
(* the latest rule from db - over write the patch attributes received in   *)
(* input" (manager.go).                                                    *)
(***************************************************************************)
PatchKeepsTheRest ==
    [][\A r \in Req :
         (req[r].op = "patch" /\ req[r].pc = "commit" /\ Commit(r))
            => store'[req[r].id].Body = store[req[r].id].Body]_vars

(***************************************************************************)
(* Every request ends: no request waits forever for the mutex, for a row,  *)
(* for a connection or for a task to stop.                                 *)
(***************************************************************************)
RequestsEnd ==
    \A r \in Req : (req[r].pc # "new") ~> (req[r].pc = "end")
=============================================================================
