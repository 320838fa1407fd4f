-------------------------- MODULE RegistryProofs --------------------------
(***************************************************************************)
(* Proofs about Registry: its types, and that a service runs only after    *)
(* its dependencies, for every set of services and every wiring.           *)
(***************************************************************************)
EXTENDS Registry, TLAPS

\* Next, action by action.
LEMMA StepCases ==
    ASSUME Next
    PROVE  \/ NewRegistry \/ Start \/ Interrupt \/ StopReturns \/ Cancel
           \/ \E ok \in BOOLEAN : Bootstrap(ok) \/ ServerStop(ok)
           \/ \E err \in BOOLEAN : WaitReceives(err)
           \/ \E s \in Service :
                \/ \E d \in Service : Reach(s, d)
                \/ DependencyHealthy(s) \/ DependencyFailed(s) \/ Begin(s)
                \/ WatchHealthy(s) \/ WatchReturned(s) \/ BecomeHealthy(s)
                \/ \E err \in BOOLEAN : StartReturns(s, err)
                \/ Send(s) \/ StopService(s)
           \/ UNCHANGED vars
BY DEF Next, Gone, Main, Runs, Watches, Serves

-----------------------------------------------------------------------------

\* A step keeps every variable's type, and startC's capacity.
LEMMA TypeStep ==
    ASSUME TypeOK, Next
    PROVE  TypeOK'
<1>1. CASE NewRegistry
  BY <1>1 DEF TypeOK, NewRegistry, wiring, goroutine, health
<1>2. CASE Start
  BY <1>2 DEF TypeOK, Start, wiring, goroutine, health
<1>3. CASE Interrupt
  BY <1>3 DEF TypeOK, Interrupt, wiring, goroutine, health
<1>4. CASE StopReturns
  BY <1>4 DEF TypeOK, StopReturns, wiring, goroutine, health
<1>5. CASE Cancel
  BY <1>5 DEF TypeOK, Cancel, wiring, goroutine, health
<1>6. ASSUME NEW ok \in BOOLEAN, Bootstrap(ok) PROVE TypeOK'
  BY <1>6 DEF TypeOK, Bootstrap, wiring, goroutine, health
<1>7. ASSUME NEW ok \in BOOLEAN, ServerStop(ok) PROVE TypeOK'
  BY <1>7 DEF TypeOK, ServerStop, wiring, goroutine, health
<1>8. ASSUME NEW err \in BOOLEAN, WaitReceives(err) PROVE TypeOK'
  BY <1>8 DEF TypeOK, WaitReceives, wiring, goroutine, health
<1>9. ASSUME NEW s \in Service, NEW d \in Service, Reach(s, d) PROVE TypeOK'
  BY <1>9 DEF TypeOK, Reach, wiring, goroutine, health
<1>10. ASSUME NEW s \in Service, DependencyHealthy(s) PROVE TypeOK'
  BY <1>10 DEF TypeOK, DependencyHealthy, wiring, goroutine, health
<1>11. ASSUME NEW s \in Service, DependencyFailed(s) PROVE TypeOK'
  BY <1>11 DEF TypeOK, DependencyFailed, wiring, goroutine, health
<1>12. ASSUME NEW s \in Service, Begin(s) PROVE TypeOK'
  BY <1>12 DEF TypeOK, Begin, wiring, goroutine, health
<1>13. ASSUME NEW s \in Service, WatchHealthy(s) PROVE TypeOK'
  BY <1>13 DEF TypeOK, WatchHealthy, wiring, goroutine, health
<1>14. ASSUME NEW s \in Service, WatchReturned(s) PROVE TypeOK'
  BY <1>14 DEF TypeOK, WatchReturned, wiring, goroutine, health
<1>15. ASSUME NEW s \in Service, BecomeHealthy(s) PROVE TypeOK'
  BY <1>15 DEF TypeOK, BecomeHealthy, wiring, goroutine, health
<1>16. ASSUME NEW s \in Service, NEW err \in BOOLEAN, StartReturns(s, err)
      PROVE  TypeOK'
  BY <1>16 DEF TypeOK, StartReturns, wiring, goroutine, health
<1>17. ASSUME NEW s \in Service, Send(s) PROVE TypeOK'
  BY <1>17 DEF TypeOK, Send, wiring, goroutine, health
<1>18. ASSUME NEW s \in Service, StopService(s) PROVE TypeOK'
  BY <1>18 DEF TypeOK, StopService, wiring, goroutine, health
<1>19. CASE UNCHANGED vars
  BY <1>19 DEF TypeOK, vars, wiring, goroutine, health
<1>q. QED
  BY <1>1, <1>2, <1>3, <1>4, <1>5, <1>6, <1>7, <1>8, <1>9, <1>10, <1>11, <1>12,
     <1>13, <1>14, <1>15, <1>16, <1>17, <1>18, <1>19, StepCases

\* A step keeps LoopInv: a goroutine crosses a dependency off only after the
\* dependency's watcher closed its channel.
LEMMA LoopStep ==
    ASSUME TypeOK, LoopInv, Next
    PROVE  LoopInv'
<1>1. CASE NewRegistry
  BY <1>1, WiringAssumption DEF LoopInv, TypeOK, NewRegistry, wiring,
     goroutine, health
<1>2. CASE Start
  BY <1>2, WiringAssumption DEF LoopInv, TypeOK, Start, wiring, goroutine,
     health
<1>3. CASE Interrupt
  BY <1>3, WiringAssumption DEF LoopInv, TypeOK, Interrupt, wiring, goroutine,
     health
<1>4. CASE StopReturns
  BY <1>4, WiringAssumption DEF LoopInv, TypeOK, StopReturns, wiring,
     goroutine, health
<1>5. CASE Cancel
  BY <1>5, WiringAssumption DEF LoopInv, TypeOK, Cancel, wiring, goroutine,
     health
<1>6. ASSUME NEW ok \in BOOLEAN, Bootstrap(ok) PROVE LoopInv'
  BY <1>6, WiringAssumption DEF LoopInv, TypeOK, Bootstrap, wiring, goroutine,
     health
<1>7. ASSUME NEW ok \in BOOLEAN, ServerStop(ok) PROVE LoopInv'
  BY <1>7, WiringAssumption DEF LoopInv, TypeOK, ServerStop, wiring, goroutine,
     health
<1>8. ASSUME NEW err \in BOOLEAN, WaitReceives(err) PROVE LoopInv'
  BY <1>8, WiringAssumption DEF LoopInv, TypeOK, WaitReceives, wiring,
     goroutine, health
<1>9. ASSUME NEW s \in Service, NEW d \in Service, Reach(s, d) PROVE LoopInv'
  BY <1>9, WiringAssumption DEF LoopInv, TypeOK, Reach, wiring, goroutine,
     health
<1>10. ASSUME NEW s \in Service, DependencyHealthy(s) PROVE LoopInv'
  BY <1>10, WiringAssumption DEF LoopInv, TypeOK, DependencyHealthy, wiring,
     goroutine, health
<1>11. ASSUME NEW s \in Service, DependencyFailed(s) PROVE LoopInv'
  BY <1>11, WiringAssumption DEF LoopInv, TypeOK, DependencyFailed, wiring,
     goroutine, health, startReturnedC
<1>12. ASSUME NEW s \in Service, Begin(s) PROVE LoopInv'
  BY <1>12, WiringAssumption DEF LoopInv, TypeOK, Begin, wiring, goroutine,
     health
<1>13. ASSUME NEW s \in Service, WatchHealthy(s) PROVE LoopInv'
  BY <1>13, WiringAssumption DEF LoopInv, TypeOK, WatchHealthy, wiring,
     goroutine, health
<1>14. ASSUME NEW s \in Service, WatchReturned(s) PROVE LoopInv'
  BY <1>14, WiringAssumption DEF LoopInv, TypeOK, WatchReturned, wiring,
     goroutine, health, startReturnedC
<1>15. ASSUME NEW s \in Service, BecomeHealthy(s) PROVE LoopInv'
  BY <1>15, WiringAssumption DEF LoopInv, TypeOK, BecomeHealthy, wiring,
     goroutine, health
<1>16. ASSUME NEW s \in Service, NEW err \in BOOLEAN, StartReturns(s, err)
      PROVE  LoopInv'
  BY <1>16, WiringAssumption DEF LoopInv, TypeOK, StartReturns, wiring,
     goroutine, health
<1>17. ASSUME NEW s \in Service, Send(s) PROVE LoopInv'
  BY <1>17, WiringAssumption DEF LoopInv, TypeOK, Send, wiring, goroutine,
     health
<1>18. ASSUME NEW s \in Service, StopService(s) PROVE LoopInv'
  BY <1>18, WiringAssumption DEF LoopInv, TypeOK, StopService, wiring,
     goroutine, health
<1>19. CASE UNCHANGED vars
  BY <1>19, WiringAssumption DEF LoopInv, TypeOK, vars, wiring, goroutine,
     health
<1>q. QED
  BY <1>1, <1>2, <1>3, <1>4, <1>5, <1>6, <1>7, <1>8, <1>9, <1>10, <1>11, <1>12,
     <1>13, <1>14, <1>15, <1>16, <1>17, <1>18, <1>19, StepCases

-----------------------------------------------------------------------------

(***************************************************************************)
(* Every variable of the registry keeps its type: for every wiring a       *)
(* service is starting, running or failed, and startC holds one value.     *)
(***************************************************************************)
THEOREM TypeCorrect == Spec => []TypeOK
<1>1. ASSUME Init PROVE TypeOK
  <2>1. declared \in [Service -> SUBSET Name]
    BY <1>1, WiringAssumption DEF Init
  <2>2. up \in [Service -> BOOLEAN]
    BY <1>1, Zenon DEF Init
  <2>q. QED
    BY <1>1, <2>1, <2>2 DEF Init, TypeOK
<1>2. TypeOK /\ [Next]_vars => TypeOK'
  BY TypeStep DEF vars, wiring, goroutine, health, TypeOK
<1>q. QED
  BY <1>1, <1>2, PTL DEF Spec

(***************************************************************************)
(* For every set of services and every wiring, cyclic or not, Start runs a *)
(* service only when all its dependencies have been started and have       *)
(* become healthy.                                                         *)
(***************************************************************************)
THEOREM StartsAfterDependenciesHolds == Spec => []StartsAfterDependencies
<1>1. Init => LoopInv
  BY DEF Init, LoopInv
<1>2. TypeOK /\ LoopInv /\ [Next]_vars => LoopInv'
  BY LoopStep DEF vars, wiring, goroutine, health, LoopInv
<1>3. TypeOK /\ LoopInv => StartsAfterDependencies
  BY DEF TypeOK, LoopInv, StartsAfterDependencies
<1>q. QED
  BY <1>1, <1>2, <1>3, TypeCorrect, PTL DEF Spec
=============================================================================
