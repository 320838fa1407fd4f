----------------------------- MODULE Registry -----------------------------
(***************************************************************************)
(* The registry of services (pkg/factory/registry.go) and the life of the  *)
(* process around it (runServer of cmd/community/server.go): NewRegistry   *)
(* validates the declared dependencies, Start runs one goroutine and one   *)
(* watcher for each service, Wait takes the first error or an interrupt,   *)
(* and Stop stops every service.                                           *)
(*                                                                         *)
(* A service is seen through its interface: Start runs until the service   *)
(* is stopped or fails, and Healthy is a channel that it may close.        *)
(* Setting a service's state and closing startReturnedC is one step here:  *)
(* between the two no other goroutine can tell.                            *)
(***************************************************************************)
CONSTANTS
    Service,     \* the names in the registry
    Name,        \* the names a dependency may be declared with
    Declared,    \* the wirings: for each service the dependencies it declares
    HasHealthy,  \* the services that implement Healthy
    Prompt,      \* those whose Start becomes healthy or fails
    Patient,     \* those whose Stop waits for their Start to close Healthy
    None         \* no dependency

ASSUME WiringAssumption ==
    /\ Service \subseteq Name
    /\ None \notin Name
    /\ Declared \subseteq [Service -> SUBSET Name]
    /\ HasHealthy \subseteq Service
    /\ Prompt \subseteq Service
    /\ Patient \subseteq Prompt

VARIABLES
    main,       \* where runServer is
    declared,   \* NamedService.DependsOn
    dependsOn,  \* serviceWithState.dependsOn
    pc,         \* where the service's goroutine is
    left,       \* the dependencies its loop has yet to reach
    at,         \* the dependency it waits for
    watching,   \* is its watcher in its select?
    up,         \* is Healthy() closed?
    state,      \* serviceWithState.state
    healthyC,   \* is it closed?
    startErr,   \* did Start fail, or did a dependency?
    startC,     \* the values in startC, a channel of capacity one
    stopped,    \* the services whose Stop returned
    done        \* is the context cancelled?

wiring == <<declared, dependsOn>>
goroutine == <<pc, left, at>>
health == <<watching, up, state, healthyC, startErr>>
vars == <<main, wiring, goroutine, health, startC, stopped, done>>

Alive == main \notin {"refused", "exit", "stopped"}

startReturnedC(s) == pc[s] \in {"send", "end"}

Init ==
    /\ main = "new"
    /\ declared \in Declared
    /\ dependsOn = [s \in Service |-> {}]
    /\ pc = [s \in Service |-> "idle"]
    /\ left = [s \in Service |-> {}]
    /\ at = [s \in Service |-> None]
    /\ watching = [s \in Service |-> FALSE]
    /\ up = [s \in Service |-> s \notin HasHealthy]
    /\ state = [s \in Service |-> "starting"]
    /\ healthyC = [s \in Service |-> FALSE]
    /\ startErr = [s \in Service |-> FALSE]
    /\ startC = {}
    /\ stopped = {}
    /\ done = FALSE

-----------------------------------------------------------------------------

\* Mutant of Acyclic: only pairs of services are looked at.
AcyclicPairs(deps) == \A s \in Service : \A d \in deps[s] : s \notin deps[d]

(***************************************************************************)
(* detectCyclicDeps: a finite graph has a cycle exactly when some nonempty *)
(* set of nodes has an edge to itself from each of them.                   *)
(***************************************************************************)
Acyclic(deps) ==
    \A S \in SUBSET Service :
        S # {} => \E s \in S : deps[s] \cap S = {}

NewRegistry ==
    LET deps == [s \in Service |-> (declared[s] \cap Service) \ {s}]
    IN  /\ main = "new"
        /\ main' = IF Acyclic(deps) THEN "built" ELSE "refused"
        /\ dependsOn' = deps
        /\ UNCHANGED <<declared, goroutine, health, startC, stopped, done>>

Start ==
    /\ main = "built"
    /\ main' = "bootstrap"
    /\ pc' = [s \in Service |-> "wait"]
    /\ left' = dependsOn
    /\ UNCHANGED <<wiring, at, health, startC, stopped, done>>

(***************************************************************************)
(* The loop over dependsOn. A set stands for the slice: the goroutine      *)
(* reaches its members in some order, and waits for one at a time.         *)
(***************************************************************************)
Reach(s, d) ==
    /\ pc[s] = "wait" /\ at[s] = None
    /\ d \in left[s]
    /\ at' = [at EXCEPT ![s] = d]
    /\ left' = [left EXCEPT ![s] = @ \ {d}]
    /\ UNCHANGED <<main, wiring, pc, health, startC, stopped, done>>

\* Mutant of DependencyHealthy: any end of the wait lets the service start.
DependencyReady(s) ==
    /\ at[s] # None
    /\ healthyC[at[s]] \/ startReturnedC(at[s])
    /\ at' = [at EXCEPT ![s] = None]
    /\ UNCHANGED <<main, wiring, pc, left, health, startC, stopped, done>>

DependencyHealthy(s) ==
    /\ at[s] # None
    /\ healthyC[at[s]]
    /\ at' = [at EXCEPT ![s] = None]
    /\ UNCHANGED <<main, wiring, pc, left, health, startC, stopped, done>>

(***************************************************************************)
(* The branches of the select that end the goroutine: the context is       *)
(* cancelled, or the dependency's Start returned.                          *)
(***************************************************************************)
DependencyFailed(s) ==
    /\ at[s] # None
    /\ done \/ startReturnedC(at[s])
    /\ at' = [at EXCEPT ![s] = None]
    /\ state' = [state EXCEPT ![s] = "failed"]
    /\ startErr' = [startErr EXCEPT ![s] = TRUE]
    /\ pc' = [pc EXCEPT ![s] = "send"]
    /\ UNCHANGED <<main, wiring, left, watching, up, healthyC, startC, stopped,
                   done>>

Begin(s) ==
    /\ pc[s] = "wait" /\ at[s] = None /\ left[s] = {}
    /\ pc' = [pc EXCEPT ![s] = "run"]
    /\ watching' = [watching EXCEPT ![s] = TRUE]
    /\ UNCHANGED <<main, wiring, left, at, up, state, healthyC, startErr, startC,
                   stopped, done>>

(***************************************************************************)
(* The watcher's select: when both channels are closed, either is taken.   *)
(***************************************************************************)
WatchHealthy(s) ==
    /\ watching[s] /\ up[s]
    /\ watching' = [watching EXCEPT ![s] = FALSE]
    /\ state' = [state EXCEPT ![s] = "running"]
    /\ healthyC' = [healthyC EXCEPT ![s] = TRUE]
    /\ UNCHANGED <<main, wiring, goroutine, up, startErr, startC, stopped, done>>

WatchReturned(s) ==
    /\ watching[s] /\ startReturnedC(s)
    /\ watching' = [watching EXCEPT ![s] = FALSE]
    /\ UNCHANGED <<main, wiring, goroutine, up, state, healthyC, startErr, startC,
                   stopped, done>>

(***************************************************************************)
(* The service becomes healthy, or its Start returns: an error at any      *)
(* time (a patient service first becomes healthy), nil once it was         *)
(* stopped.                                                                *)
(***************************************************************************)
BecomeHealthy(s) ==
    /\ pc[s] = "run" /\ ~up[s]
    /\ up' = [up EXCEPT ![s] = TRUE]
    /\ UNCHANGED <<main, wiring, goroutine, watching, state, healthyC, startErr,
                   startC, stopped, done>>

\* Mutant of StartReturns: the error is recorded and not sent.
StartReturnsQuietly(s, err) ==
    /\ pc[s] = "run"
    /\ err \/ s \in stopped
    /\ s \in Patient => up[s]
    /\ pc' = [pc EXCEPT ![s] = "end"]
    /\ state' = [state EXCEPT ![s] = IF err THEN "failed" ELSE @]
    /\ startErr' = [startErr EXCEPT ![s] = err]
    /\ UNCHANGED <<main, wiring, left, at, watching, up, healthyC, startC,
                   stopped, done>>

StartReturns(s, err) ==
    /\ pc[s] = "run"
    /\ err \/ s \in stopped
    /\ s \in Patient => up[s]
    /\ pc' = [pc EXCEPT ![s] = "send"]
    /\ state' = [state EXCEPT ![s] = IF err THEN "failed" ELSE @]
    /\ startErr' = [startErr EXCEPT ![s] = err]
    /\ UNCHANGED <<main, wiring, left, at, watching, up, healthyC, startC,
                   stopped, done>>

Send(s) ==
    /\ pc[s] = "send"
    /\ startC = {}
    /\ startC' = {startErr[s]}
    /\ pc' = [pc EXCEPT ![s] = "end"]
    /\ UNCHANGED <<main, wiring, left, at, health, stopped, done>>

-----------------------------------------------------------------------------
(***************************************************************************)
(* runServer. BootstrapEntraSSO runs after Start; if it fails the server   *)
(* and the registry are stopped.                                           *)
(***************************************************************************)
Bootstrap(ok) ==
    /\ main = "bootstrap"
    /\ main' = IF ok THEN "wait" ELSE "stop"
    /\ UNCHANGED <<wiring, goroutine, health, startC, stopped, done>>

(***************************************************************************)
(* Wait: an interrupt or a cancelled context ends it without an error, and *)
(* so does a service whose Start returned nil.                             *)
(***************************************************************************)
Interrupt ==
    /\ main = "wait"
    /\ main' = "shutdown"
    /\ UNCHANGED <<wiring, goroutine, health, startC, stopped, done>>

WaitReceives(err) ==
    /\ main = "wait"
    /\ err \in startC
    /\ startC' = {}
    /\ main' = IF err THEN "exit" ELSE "shutdown"
    /\ UNCHANGED <<wiring, goroutine, health, stopped, done>>

(***************************************************************************)
(* server.Stop, which closes the HTTP server: runServer returns if it      *)
(* fails.                                                                  *)
(***************************************************************************)
ServerStop(ok) ==
    /\ main = "shutdown"
    /\ main' = IF ok THEN "stop" ELSE "exit"
    /\ UNCHANGED <<wiring, goroutine, health, startC, stopped, done>>

\* Mutant of StopService: it waits for the service to be healthy.
StopServiceWaits(s) ==
    /\ main = "stop" /\ s \notin stopped
    /\ healthyC[s]
    /\ stopped' = stopped \cup {s}
    /\ UNCHANGED <<main, wiring, goroutine, health, startC, done>>

(***************************************************************************)
(* Stop runs a goroutine for each service, and returns when each has left  *)
(* its result in stopC, a channel that holds them all.                     *)
(***************************************************************************)
StopService(s) ==
    /\ main = "stop" /\ s \notin stopped
    /\ s \in Patient => up[s]
    /\ stopped' = stopped \cup {s}
    /\ UNCHANGED <<main, wiring, goroutine, health, startC, done>>

StopReturns ==
    /\ main = "stop" /\ stopped = Service
    /\ main' = "stopped"
    /\ UNCHANGED <<wiring, goroutine, health, startC, stopped, done>>

Cancel ==
    /\ ~done
    /\ done' = TRUE
    /\ UNCHANGED <<main, wiring, goroutine, health, startC, stopped>>

-----------------------------------------------------------------------------

Runs(s) ==
    \/ \E d \in Service : Reach(s, d)
    \/ DependencyHealthy(s)
    \/ DependencyFailed(s)
    \/ Begin(s)

Watches(s) == WatchHealthy(s) \/ WatchReturned(s)

Serves(s) == BecomeHealthy(s) \/ \E err \in BOOLEAN : StartReturns(s, err)

Main ==
    \/ NewRegistry
    \/ Start
    \/ \E ok \in BOOLEAN : Bootstrap(ok)
    \/ Interrupt
    \/ \E err \in BOOLEAN : WaitReceives(err)
    \/ \E ok \in BOOLEAN : ServerStop(ok)
    \/ StopReturns

Gone == ~Alive /\ UNCHANGED vars

Next ==
    \/ /\ Alive
       /\ \/ Main
          \/ Cancel
          \/ \E s \in Service :
                Runs(s) \/ Watches(s) \/ Serves(s) \/ Send(s) \/ StopService(s)
    \/ Gone

Spec == Init /\ [][Next]_vars

(***************************************************************************)
(* The goroutines run, and so does runServer, which need not be            *)
(* interrupted. A prompt service decides (authz creates its store and its  *)
(* model or fails; the auditor's first statement closes its channel); the  *)
(* others may stay unhealthy (the user service retries for ever).          *)
(***************************************************************************)
Fairness ==
    /\ WF_vars(Alive /\ (NewRegistry \/ Start))
    /\ WF_vars(Alive /\ \E ok \in BOOLEAN : Bootstrap(ok))
    /\ WF_vars(Alive /\ \E err \in BOOLEAN : WaitReceives(err))
    /\ WF_vars(Alive /\ \E ok \in BOOLEAN : ServerStop(ok))
    /\ WF_vars(Alive /\ StopReturns)
    /\ \A s \in Service :
        /\ WF_vars(Alive /\ Runs(s))
        /\ WF_vars(Alive /\ Watches(s))
        /\ WF_vars(Alive /\ Send(s))
        /\ WF_vars(Alive /\ StopService(s))
    /\ \A s \in Prompt : WF_vars(Alive /\ ~up[s] /\ Serves(s))

FairSpec == Spec /\ Fairness

-----------------------------------------------------------------------------

(***************************************************************************)
(* Every variable has its type; startC holds at most one value.            *)
(***************************************************************************)
TypeOK ==
    /\ main \in {"new", "refused", "built", "bootstrap", "wait", "shutdown",
                 "stop", "exit", "stopped"}
    /\ declared \in [Service -> SUBSET Name]
    /\ dependsOn \in [Service -> SUBSET Service]
    /\ pc \in [Service -> {"idle", "wait", "run", "send", "end"}]
    /\ left \in [Service -> SUBSET Service]
    /\ at \in [Service -> Service \cup {None}]
    /\ watching \in [Service -> BOOLEAN]
    /\ up \in [Service -> BOOLEAN]
    /\ state \in [Service -> {"starting", "running", "failed"}]
    /\ healthyC \in [Service -> BOOLEAN]
    /\ startErr \in [Service -> BOOLEAN]
    /\ startC \in {{}, {TRUE}, {FALSE}}
    /\ stopped \in SUBSET Service
    /\ done \in BOOLEAN

(***************************************************************************)
(* While a service runs, each of its dependencies was started before it    *)
(* and became healthy, also when one of them has failed since, whatever    *)
(* order the goroutines and their watchers ran in.                         *)
(***************************************************************************)
StartsAfterDependencies ==
    \A s \in Service : pc[s] = "run" =>
        \A d \in dependsOn[s] : up[d] /\ pc[d] \notin {"idle", "wait"}

(***************************************************************************)
(* What makes it inductive: a channel of a service is closed only after    *)
(* the service began, and a waiting goroutine has seen healthy each        *)
(* dependency it neither waits for nor has yet to reach.                   *)
(***************************************************************************)
LoopInv ==
    /\ \A s \in Service :
        /\ watching[s] => pc[s] \notin {"idle", "wait"}
        /\ healthyC[s] => up[s] /\ pc[s] \notin {"idle", "wait"}
        /\ at[s] # None => pc[s] = "wait"
        /\ pc[s] = "wait" =>
            \A d \in dependsOn[s] : d \in left[s] \/ d = at[s] \/ healthyC[d]
        /\ pc[s] = "run" => \A d \in dependsOn[s] : healthyC[d]
        /\ pc[s] # "idle" => main \notin {"new", "built", "refused"}
    /\ main \in {"new", "built", "refused"} => \A s \in Service : at[s] = None

(***************************************************************************)
(* No service waits for its dependencies for ever: it is started or fails. *)
(***************************************************************************)
NoneWaitsForEver ==
    \A s \in Service : (pc[s] = "wait") ~> (pc[s] # "wait" \/ ~Alive)

(***************************************************************************)
(* "Any service error triggers application shutdown" (service.md), however *)
(* many services fail at once and although startC holds one value.         *)
(***************************************************************************)
ErrorEndsWait ==
    (main = "wait" /\ \E s \in Service : startErr[s]) ~> (main # "wait")

(***************************************************************************)
(* Stop returns, also when services failed, were never started or are not  *)
(* healthy.                                                                *)
(***************************************************************************)
StopEnds == (main = "stop") ~> (main = "stopped")

(***************************************************************************)
(* "Its Stop does a final gc and flush before returning, so no data is     *)
(* lost on shutdown" (service.md): the process does not end with a running *)
(* service that was not stopped.                                           *)
(***************************************************************************)
EndsStopped ==
    ~Alive => \A s \in Service : pc[s] = "run" => s \in stopped
=============================================================================
