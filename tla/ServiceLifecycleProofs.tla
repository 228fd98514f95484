----------------------- MODULE ServiceLifecycleProofs -----------------------
(***************************************************************************)
(* Theorems about ServiceLifecycle, for any number of launches and         *)
(* services.  The argument: whoever works on a service holds its flock     *)
(* (LockInv); so between the moment a stop step has counted no consumer    *)
(* and the removal of the container no main container that needs the       *)
(* service is created (StopInv).  When all profiles agree on a service,    *)
(* what a launch has found under the flock is still so until it lets go    *)
(* (StageInv), and what its main container counts on stays (ClaimInv).     *)
(* With no fault but crashing daemons each container has a launch that     *)
(* will remove it, or leave it to one that uses it (CalmInv).              *)
(* Under every fault a launch holds the locks its control state calls for  *)
(* and no others (HeldInv), and waits for one that sorts after those it    *)
(* holds (Sorted): so the last lock anybody waits for has a holder that    *)
(* waits for none.                                                         *)
(***************************************************************************)
EXTENDS ServiceLifecycle, FiniteSetTheorems, WellFoundedInduction, TLAPS

(* A non-empty set of services has a first one, in sorted order.           *)
LEMMA LeastInSet ==
  ASSUME NEW S \in SUBSET Services, S # {}
  PROVE  Least(S) \in S
<1>1. \E s \in S : \A t \in S : s <= t
  BY ServicesAssumption
<1>2. QED
  BY <1>1 DEF Least

(* The locks a launch holds, read off its control state: the one of the    *)
(* service it works on, those of the services it has started, and all of   *)
(* them while it creates its main container.                               *)
LockInv ==
  \A l \in Launches :
    /\ pc[l] \in StartPcs \cup StopPcs => lock[Cur(l)] = l
    /\ pc[l] \in StartPcs \cup {"lockService"} => \A s \in Needs[l] \ todo[l] : lock[s] = l
    /\ pc[l] \in MainPcs => \A s \in Needs[l] : lock[s] = l

(* A loop over services has something left to do.                          *)
LoopPcs == {"ensureNetwork", "lockService", "lockStop"} \cup StartPcs \cup StopPcs
LoopInv ==
  \A l \in Launches :
    /\ pc[l] \in LoopPcs => todo[l] \subseteq Needs[l] /\ todo[l] # {}
    /\ pc[l] = "ensureNetwork" => todo[l] = Needs[l]

(* The main container exists from its creation to the end of its session.  *)
MainInv == \A l \in Launches : pc[l] \in {"connectMain", "release", "startMain"} => main[l] = "created"

StopInv == StopDecisionStands

IInv == TypeOK /\ LoopInv /\ LockInv /\ MainInv /\ StopInv

LEMMA CurInTodo ==
  ASSUME TypeOK, LoopInv, NEW l \in Launches, pc[l] \in LoopPcs
  PROVE  Cur(l) \in todo[l] /\ Cur(l) \in Needs[l] /\ Cur(l) \in Services
<1>1. todo[l] \in SUBSET Services /\ todo[l] # {} /\ todo[l] \subseteq Needs[l]
  BY DEF TypeOK, LoopInv
<1>2. QED
  BY <1>1, LeastInSet DEF Cur
-----------------------------------------------------------------------------
(* TypeOK is an invariant: every variable keeps its type.                  *)
USE DEF vars, launchVars, serviceVars, mainVars, At, Goto, Engine

LEMMA TypeStart ==
  ASSUME TypeOK, LoopInv, NEW l \in Launches, StartStep(l)
  PROVE  TypeOK'
<1>1. Cur(l) \in Services \/ pc[l] \notin LoopPcs
  BY CurInTodo
<1>2. CASE EnsureNetwork(l)
  BY <1>2, NeedsAssumption DEF EnsureNetwork, EnterStop, TypeOK, Pcs
<1>3. CASE LockService(l)
  BY <1>3, <1>1 DEF LockService, TypeOK, Pcs, StartPcs, LoopPcs
<1>4. CASE FindService(l)
  BY <1>4 DEF FindService, TypeOK, Pcs, StartPcs
<1>5. CASE RemoveStraggler(l)
  BY <1>5 DEF RemoveStraggler, Remove, SetState, LosesSocket, Unlinked, TypeOK, Pcs, StartPcs
<1>6. CASE ReuseService(l)
  BY <1>6 DEF ReuseService, Started, TypeOK, Pcs, MainPcs
<1>7. CASE StopStale(l)
  BY <1>7 DEF StopStale, Stop, SetState, LosesSocket, Unlinked, TypeOK, Pcs, StartPcs
<1>8. CASE RemoveStale(l)
  BY <1>8 DEF RemoveStale, Remove, SetState, LosesSocket, Unlinked, TypeOK, Pcs, StartPcs
<1>9. CASE PrepareService(l)
  BY <1>9 DEF PrepareService, TypeOK, Pcs, StartPcs
<1>10. CASE CreateService(l)
  <2>1. Cur(l) \in Services
    BY <1>10, <1>1 DEF CreateService, LoopPcs, StartPcs
  <2>2. QED
    BY <1>10, <2>1, WantAssumption DEF CreateService, SetState, TypeOK, Pcs, StartPcs
<1>11. CASE StartService(l)
  BY <1>11 DEF StartService, SetState, TypeOK, Pcs, StartPcs
<1>12. CASE Probe(l)
  BY <1>12 DEF Probe, TypeOK, Pcs, StartPcs
<1>13. CASE AttachService(l)
  BY <1>13 DEF AttachService, Started, TypeOK, Pcs, MainPcs
<1>14. CASE CleanupService(l)
  <2>1. CASE Remove(Cur(l))
    BY <1>14, <2>1 DEF CleanupService, Remove, SetState, LosesSocket, Unlinked, TypeOK, Pcs
  <2>2. CASE UNCHANGED <<serviceVars, mainVars>>
    BY <1>14, <2>2 DEF CleanupService, TypeOK, Pcs
  <2>3. QED
    BY <1>14, <2>1, <2>2 DEF CleanupService
<1>15. CASE StartFails(l)
  BY <1>15 DEF StartFails, TypeOK, Pcs, StartPcs
<1>16. QED
  BY <1>2, <1>3, <1>4, <1>5, <1>6, <1>7, <1>8, <1>9, <1>10, <1>11, <1>12, <1>13,
     <1>14, <1>15 DEF StartStep

LEMMA TypeMain ==
  ASSUME TypeOK, NEW l \in Launches, MainStep(l)
  PROVE  TypeOK'
<1>1. CASE CreateMain(l) \/ CreateMainFails(l) \/ ConnectMain(l)
  BY <1>1 DEF CreateMain, CreateMainFails, ConnectMain, TypeOK, Pcs, MainPcs
<1>2. CASE ReleaseLocks(l)
  BY <1>2 DEF ReleaseLocks, Release, TypeOK, Pcs
<1>3. CASE Abort(l)
  BY <1>3, NeedsAssumption DEF Abort, Release, EnterStop, TypeOK, Pcs
<1>4. CASE StartMain(l)
  BY <1>4, NeedsAssumption DEF StartMain, TypeOK, Pcs
<1>5. CASE StartMainFails(l) \/ SessionReturns(l)
  BY <1>5 DEF StartMainFails, SessionReturns, TypeOK, Pcs
<1>6. CASE RemoveMain(l)
  BY <1>6, NeedsAssumption DEF RemoveMain, EnterStop, TypeOK, Pcs
<1>7. QED
  BY <1>1, <1>2, <1>3, <1>4, <1>5, <1>6 DEF MainStep

LEMMA TypeStop ==
  ASSUME TypeOK, NEW l \in Launches, StopStep(l)
  PROVE  TypeOK'
<1>1. CASE LockStop(l)
  BY <1>1 DEF LockStop, TypeOK, Pcs, StopPcs
<1>2. CASE LockStopFails(l) \/ CheckConsumers(l) \/ FindStop(l) \/ StopFails(l)
  BY <1>2 DEF LockStopFails, CheckConsumers, FindStop, StopFails, Stopped, NextToStop, TypeOK, Pcs, StopPcs
<1>3. CASE StopService(l)
  BY <1>3 DEF StopService, Stop, SetState, LosesSocket, Unlinked, TypeOK, Pcs, StopPcs
<1>4. CASE RemoveService(l)
  BY <1>4 DEF RemoveService, Remove, SetState, LosesSocket, Unlinked, TypeOK, Pcs, StopPcs
<1>5. CASE RemoveRunDir(l)
  <2>1. /\ pc' \in [Launches -> Pcs] /\ todo' \in [Launches -> SUBSET Services]
        /\ late' \subseteq Launches /\ lock' \in [Services -> Launches \cup {NoOne}]
    BY <1>5 DEF RemoveRunDir, Stopped, NextToStop, TypeOK, Pcs
  <2>2. /\ socket' \in [Services -> {"none", "dead", "live"}]
        /\ UNCHANGED <<state, hash, attached, main, linked>>
    BY <1>5 DEF RemoveRunDir, TypeOK
  <2>3. QED
    BY <2>1, <2>2 DEF TypeOK
<1>6. QED
  BY <1>1, <1>2, <1>3, <1>4, <1>5 DEF StopStep

LEMMA TypeEnvironment ==
  ASSUME TypeOK, Environment
  PROVE  TypeOK'
<1>1. CASE \E l \in Launches : Begin(l) \/ MainExits(l) \/ SessionInterrupted(l)
                                 \/ BudgetExpires(l) \/ Kill(l)
  BY <1>1, NeedsAssumption
  DEF Begin, MainExits, SessionInterrupted, BudgetExpires, Kill, Release, TypeOK, Pcs
<1>2. CASE \E s \in Services : DaemonListens(s) \/ DaemonExits(s)
  BY <1>2 DEF DaemonListens, DaemonExits, SetState, LosesSocket, Unlinked, TypeOK
<1>3. QED
  BY <1>1, <1>2 DEF Environment
-----------------------------------------------------------------------------
(* What a step of one launch leaves alone: the control state and the main  *)
(* container of every other launch, and the locks it holds.                *)
Untouched(m) ==
  /\ pc'[m] = pc[m] /\ todo'[m] = todo[m] /\ main'[m] = main[m]
  /\ \A s \in Services : lock[s] = m => lock'[s] = m

(* The part of the invariant that only talks about launch l.               *)
OwnInv(l) ==
  /\ pc[l] \in LoopPcs => todo[l] \subseteq Needs[l] /\ todo[l] # {}
  /\ pc[l] = "ensureNetwork" => todo[l] = Needs[l]
  /\ pc[l] \in StartPcs \cup StopPcs => lock[Cur(l)] = l
  /\ pc[l] \in StartPcs \cup {"lockService"} => \A s \in Needs[l] \ todo[l] : lock[s] = l
  /\ pc[l] \in MainPcs => \A s \in Needs[l] : lock[s] = l
  /\ pc[l] \in {"connectMain", "release", "startMain"} => main[l] = "created"

LEMMA OwnParts == LoopInv /\ LockInv /\ MainInv <=> \A l \in Launches : OwnInv(l)
BY DEF LoopInv, LockInv, MainInv, OwnInv

LEMMA OtherStart ==
  ASSUME TypeOK, LoopInv, NEW l \in Launches, StartStep(l), NEW m \in Launches, m # l
  PROVE  Untouched(m)
<1>1. CASE LockService(l)
  <2>1. lock[Cur(l)] = NoOne
    BY <1>1 DEF LockService
  <2>2. QED
    BY <1>1, <2>1, NoOneAssumption DEF LockService, TypeOK, Untouched
<1>2. CASE EnsureNetwork(l) \/ FindService(l) \/ PrepareService(l) \/ CreateService(l)
           \/ StartService(l) \/ Probe(l) \/ StartFails(l)
  BY <1>2 DEF EnsureNetwork, EnterStop, FindService, PrepareService, CreateService,
              StartService, Probe, StartFails, TypeOK, Untouched
<1>3. CASE RemoveStraggler(l) \/ StopStale(l) \/ RemoveStale(l) \/ CleanupService(l)
  BY <1>3 DEF RemoveStraggler, StopStale, RemoveStale, CleanupService, Remove, Stop, TypeOK, Untouched
<1>4. CASE ReuseService(l) \/ AttachService(l)
  BY <1>4 DEF ReuseService, AttachService, Started, TypeOK, Untouched
<1>5. QED
  BY <1>1, <1>2, <1>3, <1>4 DEF StartStep

LEMMA OtherMain ==
  ASSUME TypeOK, NEW l \in Launches, MainStep(l), NEW m \in Launches, m # l
  PROVE  Untouched(m)
<1>1. CASE CreateMain(l) \/ CreateMainFails(l) \/ ConnectMain(l) \/ StartMain(l)
           \/ StartMainFails(l) \/ SessionReturns(l) \/ RemoveMain(l)
  BY <1>1 DEF CreateMain, CreateMainFails, ConnectMain, StartMain, StartMainFails,
              SessionReturns, RemoveMain, EnterStop, TypeOK, Untouched
<1>2. CASE ReleaseLocks(l) \/ Abort(l)
  BY <1>2 DEF ReleaseLocks, Abort, Release, EnterStop, TypeOK, Untouched
<1>3. QED
  BY <1>1, <1>2 DEF MainStep

LEMMA OtherStop ==
  ASSUME TypeOK, LoopInv, LockInv, NEW l \in Launches, StopStep(l), NEW m \in Launches, m # l
  PROVE  Untouched(m)
<1>1. CASE LockStop(l)
  <2>1. lock[Cur(l)] = NoOne
    BY <1>1 DEF LockStop
  <2>2. QED
    BY <1>1, <2>1, NoOneAssumption DEF LockStop, TypeOK, Untouched
<1>2. CASE LockStopFails(l)
  BY <1>2 DEF LockStopFails, NextToStop, TypeOK, Untouched
<1>3. CASE ~LockStop(l) /\ ~LockStopFails(l)
  <2>1. pc[l] \in StopPcs
    BY <1>3 DEF StopStep, CheckConsumers, FindStop, StopService, RemoveService,
                RemoveRunDir, StopFails, StopPcs
  <2>2. lock[Cur(l)] = l
    BY <2>1 DEF LockInv
  <2>3. pc' = [pc EXCEPT ![l] = pc'[l]] /\ todo' = [todo EXCEPT ![l] = todo'[l]] /\ main' = main
    BY <1>3 DEF StopStep, CheckConsumers, FindStop, StopService, RemoveService, RemoveRunDir,
                StopFails, Stopped, NextToStop, Stop, Remove, TypeOK
  <2>4. lock' = lock \/ lock' = [lock EXCEPT ![Cur(l)] = NoOne]
    BY <1>3 DEF StopStep, CheckConsumers, FindStop, StopService, RemoveService, RemoveRunDir,
                StopFails, Stopped, NextToStop
  <2>5. QED
    BY <2>2, <2>3, <2>4 DEF TypeOK, Untouched
<1>4. QED
  BY <1>1, <1>2, <1>3

(* An untouched launch keeps its part of the invariant.                    *)
LEMMA UntouchedKeeps ==
  ASSUME TypeOK, TypeOK', NEW m \in Launches, OwnInv(m), Untouched(m)
  PROVE  OwnInv(m)'
<1>1. Cur(m)' = Cur(m)
  BY DEF Cur, Untouched
<1>2. pc[m] \in LoopPcs => Cur(m) \in Services
  BY LeastInSet, NeedsAssumption DEF Cur, OwnInv, TypeOK
<1>3. QED
  BY <1>1, <1>2, NeedsAssumption DEF OwnInv, Untouched, LoopPcs
-----------------------------------------------------------------------------
(* The acting launch keeps its part of the invariant.                      *)
LEMMA OwnStart ==
  ASSUME TypeOK, LoopInv, LockInv, MainInv, TypeOK', NEW l \in Launches, StartStep(l)
  PROVE  OwnInv(l)'
<1> DEFINE s == Cur(l)
<1>1. OwnInv(l)
  BY OwnParts
<1>2. Needs[l] \subseteq Services /\ Needs[l] # {} /\ todo[l] \subseteq Services
  BY NeedsAssumption DEF TypeOK
<1>3. pc[l] \in LoopPcs
  BY DEF StartStep, EnsureNetwork, LockService, FindService, RemoveStraggler, ReuseService,
         StopStale, RemoveStale, PrepareService, CreateService, StartService, Probe,
         AttachService, CleanupService, StartFails, LoopPcs, StartPcs
<1>4. s \in todo[l] /\ s \in Services
  BY <1>3, CurInTodo
<1>5. CASE EnsureNetwork(l)
  BY <1>5, <1>1, <1>2 DEF EnsureNetwork, EnterStop, OwnInv, TypeOK, LoopPcs, StartPcs, StopPcs, MainPcs
<1>6. CASE LockService(l)
  <2>1. pc'[l] = "findService" /\ todo'[l] = todo[l] /\ lock' = [lock EXCEPT ![s] = l]
    BY <1>6 DEF LockService, TypeOK
  <2>2. Cur(l)' = s
    BY <2>1 DEF Cur
  <2>3. lock'[s] = l /\ \A t \in Services : lock[t] = l => lock'[t] = l
    BY <2>1, <1>4 DEF TypeOK
  <2>4. \A t \in Needs[l] \ todo[l] : lock[t] = l
    BY <1>6, <1>1 DEF LockService, OwnInv
  <2>5. QED
    BY <2>1, <2>2, <2>3, <2>4, <1>1, <1>2, <1>6 DEF LockService, OwnInv, LoopPcs, StartPcs, StopPcs, MainPcs
<1>7. CASE ReuseService(l) \/ AttachService(l)
  <2>1. /\ pc[l] \in StartPcs /\ lock' = lock /\ todo'[l] = todo[l] \ {s}
        /\ pc'[l] = IF todo[l] = {s} THEN "createMain" ELSE "lockService"
    BY <1>7 DEF ReuseService, AttachService, Started, TypeOK, StartPcs
  <2>2. \A t \in Needs[l] \ todo'[l] : lock[t] = l
    BY <2>1, <1>1 DEF OwnInv
  <2>3. todo[l] \subseteq Needs[l]
    BY <1>1, <1>3 DEF OwnInv
  <2>4. CASE todo[l] = {s}
    <3>1. pc'[l] = "createMain" /\ \A t \in Needs[l] : lock'[t] = l
      BY <2>1, <2>2, <2>4
    <3>2. QED
      BY <3>1 DEF OwnInv, LoopPcs, StartPcs, StopPcs, MainPcs
  <2>5. CASE todo[l] # {s}
    <3>1. pc'[l] = "lockService" /\ todo'[l] # {} /\ todo'[l] \subseteq Needs[l]
      BY <2>1, <2>3, <2>5, <1>4
    <3>2. QED
      BY <2>1, <2>2, <3>1 DEF OwnInv, LoopPcs, StartPcs, StopPcs, MainPcs
  <2>6. QED
    BY <2>4, <2>5
<1>8. CASE \/ StartFails(l)
           \/ pc[l] \in StartPcs /\ ~(ReuseService(l) \/ AttachService(l))
  <2>1. /\ pc[l] \in StartPcs \cup {"lockService"}
        /\ pc'[l] = "abort" \/ (pc[l] \in StartPcs /\ pc'[l] \in StartPcs)
        /\ todo'[l] = todo[l] /\ lock' = lock
    <3>1. CASE StartFails(l)
      BY <3>1 DEF StartFails, TypeOK, StartPcs
    <3>2. CASE pc[l] \in StartPcs /\ ~(ReuseService(l) \/ AttachService(l)) /\ ~StartFails(l)
      BY <3>2 DEF StartStep, EnsureNetwork, LockService, FindService, RemoveStraggler,
         StopStale, RemoveStale, PrepareService, CreateService, StartService, Probe,
         CleanupService, TypeOK, StartPcs
    <3>3. QED
      BY <1>8, <3>1, <3>2
  <2>2. Cur(l)' = s
    BY <2>1 DEF Cur
  <2>3. QED
    BY <2>1, <2>2, <1>1, <1>8 DEF OwnInv, LoopPcs, StartPcs, StopPcs, MainPcs
<1>9. EnsureNetwork(l) \/ LockService(l) \/ StartFails(l) \/ pc[l] \in StartPcs
  BY DEF StartStep, FindService, RemoveStraggler, ReuseService,
         StopStale, RemoveStale, PrepareService, CreateService, StartService, Probe,
         AttachService, CleanupService, StartFails, StartPcs
<1>10. QED
  BY <1>5, <1>6, <1>7, <1>8, <1>9

LEMMA OwnMain ==
  ASSUME TypeOK, LoopInv, LockInv, MainInv, TypeOK', NEW l \in Launches, MainStep(l)
  PROVE  OwnInv(l)'
<1>1. OwnInv(l)
  BY OwnParts
<1>2. Needs[l] # {}
  BY NeedsAssumption
<1>3. CASE CreateMain(l) \/ ConnectMain(l) \/ ReleaseLocks(l) \/ CreateMainFails(l)
  BY <1>3, <1>1 DEF CreateMain, ConnectMain, ReleaseLocks, CreateMainFails, OwnInv,
                    TypeOK, LoopPcs, StartPcs, StopPcs, MainPcs
<1>4. CASE Abort(l) \/ RemoveMain(l)
  BY <1>4, <1>1, <1>2 DEF Abort, RemoveMain, EnterStop, OwnInv,
                          TypeOK, LoopPcs, StartPcs, StopPcs, MainPcs
<1>5. CASE StartMain(l) \/ StartMainFails(l) \/ SessionReturns(l)
  BY <1>5 DEF StartMain, StartMainFails, SessionReturns, OwnInv,
                    TypeOK, LoopPcs, StartPcs, StopPcs, MainPcs
<1>6. QED
  BY <1>3, <1>4, <1>5 DEF MainStep

LEMMA OwnStop ==
  ASSUME TypeOK, LoopInv, LockInv, MainInv, TypeOK', NEW l \in Launches, StopStep(l)
  PROVE  OwnInv(l)'
<1> DEFINE s == Cur(l)
<1>1. OwnInv(l)
  BY OwnParts
<1>2. pc[l] \in StopPcs \cup {"lockStop"}
  BY DEF StopStep, LockStop, LockStopFails, CheckConsumers, FindStop, StopService, RemoveService,
         RemoveRunDir, StopFails, StopPcs
<1>3. s \in todo[l] /\ s \in Services /\ todo[l] \subseteq Needs[l]
  BY <1>2, CurInTodo, <1>1 DEF LoopPcs, OwnInv
<1>4. CASE LockStop(l)
  <2>1. pc'[l] = "checkConsumers" /\ todo'[l] = todo[l] /\ lock'[s] = l
    BY <1>4, <1>3 DEF LockStop, TypeOK
  <2>2. Cur(l)' = s
    BY <2>1 DEF Cur
  <2>3. QED
    BY <2>1, <2>2, <1>3 DEF OwnInv, LoopPcs, StartPcs, StopPcs, MainPcs
<1>5. CASE Stopped(l)
  BY <1>5, <1>3 DEF Stopped, NextToStop, OwnInv, TypeOK, LoopPcs, StartPcs, StopPcs, MainPcs
<1>6. CASE pc[l] \in StopPcs /\ pc'[l] \in StopPcs /\ todo'[l] = todo[l] /\ lock' = lock
  <2>1. Cur(l)' = s
    BY <1>6 DEF Cur
  <2>2. QED
    BY <1>6, <2>1, <1>1, <1>3 DEF OwnInv, LoopPcs, StartPcs, StopPcs, MainPcs
<1>7. LockStop(l) \/ LockStopFails(l) \/ Stopped(l)
        \/ (pc[l] \in StopPcs /\ pc'[l] \in StopPcs /\ todo'[l] = todo[l] /\ lock' = lock)
  BY DEF StopStep, CheckConsumers, FindStop, StopService, RemoveService,
         RemoveRunDir, StopFails, StopPcs, TypeOK
<1>8. CASE LockStopFails(l)
  BY <1>8, <1>3 DEF LockStopFails, NextToStop, OwnInv, TypeOK, LoopPcs, StartPcs, StopPcs, MainPcs
<1>9. QED
  BY <1>4, <1>5, <1>6, <1>7, <1>8
-----------------------------------------------------------------------------
(* The steps that no launch takes by itself.                               *)
LEMMA OwnEnvironment ==
  ASSUME TypeOK, LoopInv, LockInv, MainInv, TypeOK', Environment, NEW m \in Launches
  PROVE  OwnInv(m)'
<1>1. OwnInv(m)
  BY OwnParts
<1>2. Needs[m] # {} /\ Needs[m] \subseteq Services
  BY NeedsAssumption
<1>3. CASE \E l \in Launches : BudgetExpires(l) \/ SessionInterrupted(l)
  <2>1. /\ todo'[m] = todo[m] /\ lock' = lock /\ main' = main
        /\ pc'[m] = pc[m] \/ pc'[m] = "removeMain"
    BY <1>3 DEF BudgetExpires, SessionInterrupted, TypeOK
  <2>2. Cur(m)' = Cur(m)
    BY <2>1 DEF Cur
  <2>3. QED
    BY <2>1, <2>2, <1>1 DEF OwnInv, LoopPcs, StartPcs, StopPcs, MainPcs
<1>4. CASE \E l \in Launches : MainExits(l)
  <2>1. /\ todo' = todo /\ lock' = lock /\ pc' = pc
        /\ main[m] = "created" => main'[m] = "created"
    BY <1>4 DEF MainExits, TypeOK
  <2>2. Cur(m)' = Cur(m)
    BY <2>1 DEF Cur
  <2>3. QED
    BY <2>1, <2>2, <1>1 DEF OwnInv
<1>5. CASE \E l \in Launches : Begin(l)
  <2>1. PICK l \in Launches : Begin(l)
    BY <1>5
  <2>2. CASE m = l
    BY <2>1, <2>2, <1>2 DEF Begin, OwnInv, TypeOK, LoopPcs, StartPcs, StopPcs, MainPcs
  <2>3. CASE m # l
    BY <2>1, <2>3, <1>1, UntouchedKeeps DEF Begin, Untouched, TypeOK
  <2>4. QED
    BY <2>2, <2>3
<1>6. CASE \E l \in Launches : Kill(l)
  <2>1. PICK l \in Launches : Kill(l)
    BY <1>6
  <2>2. CASE m = l
    BY <2>1, <2>2 DEF Kill, OwnInv, TypeOK, LoopPcs, StartPcs, StopPcs, MainPcs
  <2>3. CASE m # l
    BY <2>1, <2>3, <1>1, UntouchedKeeps DEF Kill, Release, Untouched, TypeOK
  <2>4. QED
    BY <2>2, <2>3
<1>7. CASE \E s \in Services : DaemonListens(s) \/ DaemonExits(s)
  BY <1>7, <1>1, UntouchedKeeps DEF DaemonListens, DaemonExits, Untouched
<1>8. QED
  BY <1>3, <1>4, <1>5, <1>6, <1>7 DEF Environment

(* Lock ownership and loop bookkeeping are inductive.                      *)
LEMMA OwnPreserved ==
  ASSUME TypeOK, LoopInv, LockInv, MainInv, TypeOK', [Next]_vars
  PROVE  (LoopInv /\ LockInv /\ MainInv)'
<1> SUFFICES ASSUME NEW m \in Launches
             PROVE  OwnInv(m)'
  BY DEF OwnInv, LoopInv, LockInv, MainInv
<1>1. OwnInv(m)
  BY OwnParts
<1>2. ASSUME NEW l \in Launches, Step(l)
      PROVE  OwnInv(m)'
  <2>1. CASE l = m
    BY <1>2, <2>1, OwnStart, OwnMain, OwnStop DEF Step
  <2>2. CASE l # m
    BY <1>1, <1>2, <2>2, OtherStart, OtherMain, OtherStop, UntouchedKeeps DEF Step
  <2>3. QED
    BY <2>1, <2>2
<1>3. CASE Finished \/ UNCHANGED vars
  <2>1. Untouched(m)
    BY <1>3 DEF Finished, Untouched
  <2>2. QED
    BY <1>1, <2>1, UntouchedKeeps
<1>4. QED
  BY <1>2, <1>3, OwnEnvironment DEF Next
-----------------------------------------------------------------------------
(* The decision of a stop step stands.                                     *)
Decided == {"findStop", "stopService", "removeService", "removeRunDir"}

(* A main container comes up only by its creation.                         *)
LEMMA UpOnlyByCreation ==
  ASSUME TypeOK, MainInv, [Next]_vars, NEW m \in Launches, Up(m)', ~Up(m)
  PROVE  pc[m] = "createMain"
<1>1. PICK l \in Launches : MainStep(l)
  <2>1. ~UNCHANGED main
    BY DEF Up
  <2>2. ASSUME NEW l \in Launches
        PROVE  (StartStep(l) \/ StopStep(l)) => UNCHANGED main
    BY DEF StartStep, EnsureNetwork, LockService, FindService, RemoveStraggler, ReuseService,
         StopStale, RemoveStale, PrepareService, CreateService, StartService, Probe,
         AttachService, CleanupService, StartFails, StopStep, LockStop, LockStopFails,
         CheckConsumers, FindStop, StopService, RemoveService, RemoveRunDir, StopFails, Stop, Remove
  <2>3. Environment => UNCHANGED main
    <3>1. ASSUME NEW l \in Launches
          PROVE  ~MainExits(l)
      BY DEF MainExits, Up, TypeOK
    <3>2. QED
      BY <3>1 DEF Environment, Begin, SessionInterrupted, BudgetExpires, Kill,
                  DaemonListens, DaemonExits
  <2>4. QED
    BY <2>1, <2>2, <2>3 DEF Next, Step, Finished
<1>2. CASE CreateMain(l) \/ CreateMainFails(l)
  <2>1. m = l
    BY <1>2 DEF CreateMain, CreateMainFails, Up, TypeOK
  <2>2. QED
    BY <1>2, <2>1 DEF CreateMain, CreateMainFails
<1>3. CASE StartMain(l)
  BY <1>3 DEF StartMain, MainInv, Up, TypeOK
<1>4. CASE ConnectMain(l) \/ RemoveMain(l)
  BY <1>4 DEF ConnectMain, RemoveMain, Up, TypeOK
<1>5. CASE ReleaseLocks(l) \/ Abort(l) \/ StartMainFails(l) \/ SessionReturns(l)
  BY <1>5 DEF ReleaseLocks, Abort, StartMainFails, SessionReturns, Up
<1>6. QED
  BY <1>1, <1>2, <1>3, <1>4, <1>5 DEF MainStep

(* A decision is taken when no consumer is counted and kept while it is    *)
(* carried out.                                                            *)
LEMMA DecisionTaken ==
  ASSUME TypeOK, LoopInv, LockInv, StopInv, [Next]_vars, NEW l \in Launches, pc'[l] \in Decided
  PROVE  /\ pc[l] \in StopPcs
         /\ Cur(l)' = Cur(l)
         /\ \A m \in Launches : Up(m) => Cur(l) \notin Needs[m]
<1>1. /\ todo'[l] = todo[l]
      /\ pc[l] \in Decided \/ (pc[l] = "checkConsumers" /\ Consumers(Cur(l)) = {})
  <2>1. CASE StopStep(l)
    BY <2>1 DEF StopStep, LockStop, LockStopFails, CheckConsumers, FindStop, StopService, RemoveService,
                RemoveRunDir, StopFails, Stopped, NextToStop, TypeOK, Decided
  <2>2. CASE StartStep(l) \/ MainStep(l)
    <3>1. pc'[l] \notin Decided
      BY <2>2 DEF StartStep, EnsureNetwork, LockService, FindService, RemoveStraggler, ReuseService,
         StopStale, RemoveStale, PrepareService, CreateService, StartService, Probe,
         AttachService, CleanupService, StartFails, MainStep, CreateMain, CreateMainFails,
         ConnectMain, ReleaseLocks, Abort, StartMain, StartMainFails, SessionReturns, RemoveMain,
         Started, EnterStop, TypeOK, Decided
    <3>2. QED
      BY <3>1
  <2>3. CASE \E m \in Launches : m # l /\ Step(m)
    BY <2>3, OtherStart, OtherMain, OtherStop DEF Step, Untouched
  <2>4. CASE Environment
    BY <2>4 DEF Environment, Begin, MainExits, SessionInterrupted, BudgetExpires, Kill,
                DaemonListens, DaemonExits, TypeOK, Decided
  <2>5. CASE Finished \/ UNCHANGED vars
    BY <2>5 DEF Finished
  <2>6. QED
    BY <2>1, <2>2, <2>3, <2>4, <2>5 DEF Next, Step
<1>2. pc[l] \in StopPcs
  BY <1>1 DEF Decided, StopPcs
<1>3. Cur(l)' = Cur(l)
  BY <1>1 DEF Cur
<1>4. CASE pc[l] \in Decided
  BY <1>2, <1>3, <1>4 DEF StopInv, StopDecisionStands, Decided
<1>5. CASE pc[l] = "checkConsumers" /\ Consumers(Cur(l)) = {}
  BY <1>2, <1>3, <1>5 DEF Consumers
<1>6. QED
  BY <1>1, <1>4, <1>5

LEMMA StopPreserved ==
  ASSUME IInv, [Next]_vars
  PROVE  StopInv'
<1> SUFFICES ASSUME NEW l \in Launches, pc'[l] \in Decided,
                    NEW m \in Launches, Up(m)', Cur(l)' \in Needs[m]
             PROVE  FALSE
  BY DEF StopInv, StopDecisionStands, Decided
<1>1. /\ pc[l] \in StopPcs
      /\ Cur(l)' = Cur(l)
      /\ Up(m) => Cur(l) \notin Needs[m]
  BY DecisionTaken DEF IInv
<1>2. pc[m] = "createMain"
  BY <1>1, UpOnlyByCreation DEF IInv
<1>3. lock[Cur(l)] = m
  BY <1>1, <1>2 DEF IInv, LockInv, MainPcs
<1>4. lock[Cur(l)] = l
  BY <1>1 DEF IInv, LockInv
<1>5. QED
  BY <1>1, <1>2, <1>3, <1>4 DEF StopPcs

-----------------------------------------------------------------------------
(* The theorems.                                                           *)

LEMMA InitIInv == Init => IInv
<1> SUFFICES ASSUME Init
             PROVE  IInv
  OBVIOUS
<1>1. TypeOK
  BY DEF Init, TypeOK, Pcs
<1>2. \A l \in Launches : OwnInv(l)
  BY DEF Init, OwnInv, LoopPcs, StartPcs, StopPcs, MainPcs
<1>3. StopInv
  BY DEF Init, StopInv, StopDecisionStands
<1>4. QED
  BY <1>1, <1>2, <1>3, OwnParts DEF IInv

LEMMA TypePreserved ==
  ASSUME TypeOK, LoopInv, [Next]_vars
  PROVE  TypeOK'
<1>1. CASE Finished \/ UNCHANGED vars
  BY <1>1 DEF Finished, TypeOK
<1>2. QED
  BY <1>1, TypeStart, TypeMain, TypeStop, TypeEnvironment DEF Next, Step

LEMMA StepIInv == IInv /\ [Next]_vars => IInv'
<1> SUFFICES ASSUME IInv, [Next]_vars
             PROVE  IInv'
  OBVIOUS
<1>1. TypeOK'
  BY TypePreserved DEF IInv
<1>2. (LoopInv /\ LockInv /\ MainInv)'
  BY <1>1, OwnPreserved DEF IInv
<1>3. StopInv'
  BY StopPreserved
<1>4. QED
  BY <1>1, <1>2, <1>3 DEF IInv

(* The inductive invariant holds throughout: in particular whoever works   *)
(* on a service container holds the service's flock.                       *)
THEOREM Inductive == Spec => []IInv
<1>1. QED
  BY InitIInv, StepIInv, PTL DEF Spec

(* Every variable keeps its type, whatever fails.                          *)
THEOREM TypeCorrect == Spec => []TypeOK
<1>1. IInv => TypeOK
  BY DEF IInv
<1>2. QED
  BY <1>1, Inductive, PTL

(* From the moment a stop step has counted no consumer of a service until  *)
(* it has removed the container, no main container that uses the service   *)
(* is there: for any number of launches, under engine errors, kills,       *)
(* crashing daemons and expired stop contexts.                             *)
THEOREM StopDecisionSafe == Spec => []StopDecisionStands
<1>1. IInv => StopDecisionStands
  BY DEF IInv, StopInv
<1>2. QED
  BY <1>1, Inductive, PTL

-----------------------------------------------------------------------------
(* A container that is not tpd's stays untouched: whoever is past the look *)
(* at the labels has seen tpd's own.                                       *)
WorkPcs == (StartPcs \ {"findService"}) \cup {"stopService", "removeService"}
ForeignInv == \A l \in Launches : pc[l] \in WorkPcs => state[Cur(l)] # "foreign"

LEMMA NoNewForeign ==
  ASSUME TypeOK, [Next]_vars, NEW s \in Services, state'[s] = "foreign"
  PROVE  state[s] = "foreign"
<1>1. ASSUME NEW l \in Launches, StartStep(l)
      PROVE  state[s] = "foreign"
  BY <1>1 DEF StartStep, EnsureNetwork, LockService, FindService, RemoveStraggler, ReuseService,
         StopStale, RemoveStale, PrepareService, CreateService, StartService, Probe,
         AttachService, CleanupService, StartFails, Remove, Stop, SetState, TypeOK
<1>2. ASSUME NEW l \in Launches, MainStep(l)
      PROVE  state[s] = "foreign"
  BY <1>2 DEF MainStep, CreateMain, CreateMainFails, ConnectMain, ReleaseLocks, Abort, StartMain,
         StartMainFails, SessionReturns, RemoveMain
<1>3. ASSUME NEW l \in Launches, StopStep(l)
      PROVE  state[s] = "foreign"
  BY <1>3 DEF StopStep, LockStop, LockStopFails, CheckConsumers, FindStop, StopService, RemoveService,
         RemoveRunDir, StopFails, Remove, Stop, SetState, TypeOK
<1>4. CASE Environment
  BY <1>4 DEF Environment, Begin, MainExits, SessionInterrupted, BudgetExpires, Kill,
         DaemonListens, DaemonExits, SetState, TypeOK
<1>5. QED
  BY <1>1, <1>2, <1>3, <1>4 DEF Next, Step, Finished

LEMMA ForeignPreserved ==
  ASSUME TypeOK, LoopInv, LockInv, ForeignInv, [Next]_vars
  PROVE  ForeignInv'
<1> SUFFICES ASSUME NEW l \in Launches, pc'[l] \in WorkPcs, state'[Cur(l)'] = "foreign"
             PROVE  FALSE
  BY DEF ForeignInv
<1>1. todo'[l] = todo[l] /\ pc[l] \in LoopPcs /\ (pc[l] \in WorkPcs \/ state[Cur(l)] # "foreign")
  <2>1. CASE StartStep(l)
    BY <2>1 DEF StartStep, EnsureNetwork, LockService, FindService, RemoveStraggler, ReuseService,
         StopStale, RemoveStale, PrepareService, CreateService, StartService, Probe,
         AttachService, CleanupService, StartFails, Started, EnterStop, TypeOK,
         WorkPcs, LoopPcs, StartPcs, StopPcs
  <2>2. CASE StopStep(l)
    BY <2>2 DEF StopStep, LockStop, LockStopFails, CheckConsumers, FindStop, StopService, RemoveService,
         RemoveRunDir, StopFails, Stopped, NextToStop, TypeOK, WorkPcs, LoopPcs, StartPcs, StopPcs
  <2>3. CASE MainStep(l)
    BY <2>3 DEF MainStep, CreateMain, CreateMainFails, ConnectMain, ReleaseLocks, Abort, StartMain,
         StartMainFails, SessionReturns, RemoveMain, EnterStop, TypeOK, WorkPcs, StartPcs
  <2>4. CASE \E m \in Launches : m # l /\ Step(m)
    BY <2>4, OtherStart, OtherMain, OtherStop DEF Step, Untouched, WorkPcs, LoopPcs, StopPcs
  <2>5. CASE Environment
    BY <2>5 DEF Environment, Begin, MainExits, SessionInterrupted, BudgetExpires, Kill,
         DaemonListens, DaemonExits, TypeOK, WorkPcs, LoopPcs, StartPcs, StopPcs
  <2>6. CASE Finished \/ UNCHANGED vars
    BY <2>6 DEF Finished, WorkPcs, LoopPcs, StopPcs
  <2>7. QED
    BY <2>1, <2>2, <2>3, <2>4, <2>5, <2>6 DEF Next, Step
<1>2. Cur(l) \in Services /\ Cur(l)' = Cur(l)
  BY <1>1, CurInTodo DEF Cur
<1>3. state[Cur(l)] = "foreign"
  BY <1>2, NoNewForeign
<1>4. QED
  BY <1>1, <1>3 DEF ForeignInv

LEMMA ForeignStep ==
  ASSUME TypeOK, LoopInv, ForeignInv, [Next]_vars, NEW s \in Services, state[s] = "foreign"
  PROVE  state'[s] = "foreign" /\ attached'[s] = attached[s]
<1>1. ASSUME NEW l \in Launches, pc[l] \in WorkPcs
      PROVE  Cur(l) # s
  BY <1>1 DEF ForeignInv
<1>2. ASSUME NEW l \in Launches, StartStep(l)
      PROVE  state'[s] = state[s] /\ attached'[s] = attached[s]
  BY <1>1, <1>2 DEF StartStep, EnsureNetwork, LockService, FindService, RemoveStraggler, ReuseService,
         StopStale, RemoveStale, PrepareService, CreateService, StartService, Probe,
         AttachService, CleanupService, StartFails, Remove, Stop, SetState, TypeOK, WorkPcs, StartPcs
<1>3. ASSUME NEW l \in Launches, StopStep(l)
      PROVE  state'[s] = state[s] /\ attached'[s] = attached[s]
  BY <1>1, <1>3 DEF StopStep, LockStop, LockStopFails, CheckConsumers, FindStop, StopService, RemoveService,
         RemoveRunDir, StopFails, Remove, Stop, SetState, TypeOK, WorkPcs, StartPcs
<1>4. ASSUME NEW l \in Launches, MainStep(l)
      PROVE  state'[s] = state[s] /\ attached'[s] = attached[s]
  BY <1>4 DEF MainStep, CreateMain, CreateMainFails, ConnectMain, ReleaseLocks, Abort, StartMain,
         StartMainFails, SessionReturns, RemoveMain
<1>5. CASE Environment
  BY <1>5 DEF Environment, Begin, MainExits, SessionInterrupted, BudgetExpires, Kill,
         DaemonListens, DaemonExits, SetState, TypeOK
<1>6. QED
  BY <1>2, <1>3, <1>4, <1>5 DEF Next, Step, Finished

(* No launch stops, removes, replaces or connects a container that only    *)
(* has the name of a service.                                              *)
THEOREM ForeignSafe == Spec => ForeignUntouched
<1>1. Init => ForeignInv
  BY DEF Init, ForeignInv, WorkPcs, StartPcs
<1>2. IInv /\ ForeignInv /\ [Next]_vars => ForeignInv'
  BY ForeignPreserved DEF IInv
<1>3. IInv /\ ForeignInv /\ [Next]_vars
        => [\A s \in Services :
              state[s] = "foreign" => state'[s] = "foreign" /\ attached'[s] = attached[s]]_vars
  BY ForeignStep DEF IInv
<1>4. QED
  BY <1>1, <1>2, <1>3, Inductive, PTL DEF Spec, ForeignUntouched
-----------------------------------------------------------------------------
(***************************************************************************)
(* What running launches get, when all launches agree on the definitions   *)
(* and no daemon exits by itself (Agreed); engine errors, kills and        *)
(* expired budgets are allowed.  The argument: from the moment a launch    *)
(* has a service started or found until its main container has exited, the *)
(* service is as it wants it (ClaimInv), since whoever replaces a service  *)
(* (RenewInv) or stops it (StopInv) has its lock and has seen that no      *)
(* container uses it.                                                      *)
(***************************************************************************)
Agreed == Uniform /\ "daemon" \notin Faults

Serves(l, s) == state[s] = "running" /\ hash[s] = Want[l][s] /\ socket[s] # "none"

(* The services that launch l counts on.                                   *)
Claims(l) == {s \in Needs[l] : \/ Up(l)
                               \/ pc[l] \in MainPcs
                               \/ pc[l] \in StartPcs \cup {"lockService"} /\ s \notin todo[l]}
ClaimInv == \A l \in Launches : \A s \in Claims(l) : Serves(l, s) /\ attached[s]

(* The calls of startService after which its service is a new container.   *)
RenewPcs == {"removeStraggler", "stopStale", "removeStale", "prepareService", "createService",
             "startService", "probe", "attachService", "cleanupService"}
RenewInv ==
  \A l \in Launches : pc[l] \in RenewPcs => \A m \in Launches : Up(m) => Cur(l) \notin Needs[m]

(* How far startService has come with the service it works on.             *)
Stage(l) ==
  /\ pc[l] \in {"reuseService", "attachService"} => Serves(l, Cur(l))
  /\ pc[l] \in {"startService", "probe"} => hash[Cur(l)] = Want[l][Cur(l)]
  /\ pc[l] = "probe" => state[Cur(l)] = "running"
StageInv == \A l \in Launches : Stage(l)

MountInv == \A l \in Launches : linked[l] \subseteq Needs[l]

ServedInv == ClaimInv /\ RenewInv /\ StageInv /\ MountInv

(* Nobody is about to change the container of s.                           *)
Spared(s) == \A l \in Launches : pc[l] \in RenewPcs \cup Decided => Cur(l) # s

LEMMA InitServed == Init => ServedInv
  BY DEF Init, ServedInv, ClaimInv, Claims, Up, RenewInv, StageInv, Stage, MountInv, MainPcs, StartPcs, RenewPcs

(* A step of a launch changes no service but the one it works on.          *)
LEMMA OnlyItsOwn ==
  ASSUME TypeOK, LoopInv, NEW l \in Launches, Step(l), NEW s \in Services, s # Cur(l)
  PROVE  state'[s] = state[s] /\ hash'[s] = hash[s] /\ attached'[s] = attached[s] /\ socket'[s] = socket[s]
<1>1. CASE StartStep(l)
  BY <1>1 DEF StartStep, EnsureNetwork, LockService, FindService, RemoveStraggler, ReuseService,
     StopStale, RemoveStale, PrepareService, CreateService, StartService, Probe,
     AttachService, CleanupService, StartFails, Remove, Stop, SetState, LosesSocket, TypeOK
<1>2. CASE MainStep(l)
  BY <1>2 DEF MainStep, CreateMain, CreateMainFails, ConnectMain, ReleaseLocks, Abort, StartMain,
     StartMainFails, SessionReturns, RemoveMain
<1>3. CASE StopStep(l)
  BY <1>3 DEF StopStep, LockStop, LockStopFails, CheckConsumers, FindStop, StopService, RemoveService,
     RemoveRunDir, StopFails, Remove, Stop, SetState, LosesSocket, TypeOK
<1>4. QED
  BY <1>1, <1>2, <1>3 DEF Step

(* What the surroundings do to services, when no daemon exits.             *)
LEMMA Surroundings ==
  ASSUME TypeOK, Agreed, Environment, NEW s \in Services
  PROVE  /\ state' = state /\ hash' = hash /\ attached' = attached
         /\ socket'[s] \in {socket[s], "live"}
  BY DEF Environment, Begin, MainExits, SessionInterrupted, BudgetExpires, Kill,
     DaemonListens, DaemonExits, Agreed, TypeOK

(* A launch that is not at the calls that renew or stop a service leaves   *)
(* it as it is, or attaches it.                                            *)
LEMMA OthersLeave ==
  ASSUME TypeOK, LoopInv, NEW l \in Launches, Step(l), pc[l] \notin RenewPcs \cup Decided
  PROVE  /\ UNCHANGED <<state, hash, socket>>
         /\ \A s \in Services : attached[s] => attached'[s]
<1>1. CASE StartStep(l)
  BY <1>1 DEF StartStep, EnsureNetwork, LockService, FindService, RemoveStraggler, ReuseService,
     StopStale, RemoveStale, PrepareService, CreateService, StartService, Probe,
     AttachService, CleanupService, StartFails, RenewPcs, TypeOK
<1>2. CASE MainStep(l)
  BY <1>2 DEF MainStep, CreateMain, CreateMainFails, ConnectMain, ReleaseLocks, Abort, StartMain,
     StartMainFails, SessionReturns, RemoveMain
<1>3. CASE StopStep(l)
  BY <1>3 DEF StopStep, LockStop, LockStopFails, CheckConsumers, FindStop, StopService, RemoveService,
     RemoveRunDir, StopFails, Decided
<1>4. QED
  BY <1>1, <1>2, <1>3 DEF Step

(* Nor does a launch change the service another one works on.              *)
LEMMA LockedLeave ==
  ASSUME IInv, NEW l \in Launches, pc[l] \in StartPcs \cup StopPcs, NEW k \in Launches, k # l, Step(k)
  PROVE  state'[Cur(l)] = state[Cur(l)] /\ hash'[Cur(l)] = hash[Cur(l)] /\ socket'[Cur(l)] = socket[Cur(l)]
<1>1. Cur(l) \in Services /\ lock[Cur(l)] = l
  BY CurInTodo DEF IInv, LockInv, LoopPcs
<1>2. CASE pc[k] \in RenewPcs \cup Decided
  <2>1. Cur(k) # Cur(l)
    BY <1>1, <1>2 DEF IInv, LockInv, RenewPcs, Decided, StartPcs, StopPcs
  <2>2. QED
    BY <1>1, <2>1, OnlyItsOwn DEF IInv
<1>3. CASE pc[k] \notin RenewPcs \cup Decided
  BY <1>3, OthersLeave DEF IInv
<1>4. QED
  BY <1>2, <1>3

(* A service that nobody is about to change goes on serving.               *)
LEMMA ServesOn ==
  ASSUME TypeOK, TypeOK', LoopInv, Agreed, [Next]_vars, NEW m \in Launches, NEW s \in Services, Spared(s)
  PROVE  /\ Serves(m, s) => Serves(m, s)'
         /\ attached[s] => attached'[s]
<1>1. ASSUME NEW l \in Launches, Step(l)
      PROVE  /\ Serves(m, s) => Serves(m, s)'
             /\ attached[s] => attached'[s]
  <2>1. CASE pc[l] \in RenewPcs \cup Decided
    BY <1>1, <2>1, OnlyItsOwn DEF Spared, Serves
  <2>2. CASE pc[l] \notin RenewPcs \cup Decided
    BY <1>1, <2>2, OthersLeave DEF Serves
  <2>3. QED
    BY <2>1, <2>2
<1>2. CASE Environment
  <2>1. state' = state /\ hash' = hash /\ attached' = attached /\ socket'[s] \in {socket[s], "live"}
    BY <1>2, Surroundings
  <2>2. QED
    BY <2>1 DEF Serves
<1>3. CASE Finished \/ UNCHANGED vars
  BY <1>3 DEF Finished, Serves
<1>4. QED
  BY <1>1, <1>2, <1>3 DEF Next

(* Nobody is about to change a service that somebody counts on.            *)
LEMMA ClaimsAreSpared ==
  ASSUME IInv, ServedInv, NEW m \in Launches, NEW s \in Claims(m)
  PROVE  Spared(s) /\ s \in Services
<1>1. s \in Needs[m] /\ s \in Services
  BY NeedsAssumption DEF Claims
<1>2. SUFFICES ASSUME NEW l \in Launches, pc[l] \in RenewPcs \cup Decided, Cur(l) = s
               PROVE  FALSE
  BY <1>1 DEF Spared
<1>3. lock[s] = l
  BY <1>2 DEF IInv, LockInv, RenewPcs, Decided, StartPcs, StopPcs
<1>4. CASE Up(m)
  BY <1>1, <1>2, <1>4 DEF ServedInv, RenewInv, IInv, StopInv, StopDecisionStands, Decided
<1>5. CASE pc[m] \in MainPcs
  <2>1. lock[s] = m
    BY <1>1, <1>5 DEF IInv, LockInv
  <2>2. QED
    BY <1>2, <1>3, <1>5, <2>1 DEF RenewPcs, Decided, MainPcs
<1>6. CASE pc[m] \in StartPcs \cup {"lockService"} /\ s \notin todo[m]
  <2>1. lock[s] = m
    BY <1>1, <1>6 DEF IInv, LockInv
  <2>2. Cur(l) \in todo[l]
    BY <1>2, CurInTodo DEF IInv, LoopPcs, RenewPcs, Decided, StartPcs, StopPcs
  <2>3. QED
    BY <1>2, <1>3, <1>6, <2>1, <2>2
<1>7. QED
  BY <1>4, <1>5, <1>6 DEF Claims

(* A launch comes to count on a service when it has reused or attached it. *)
LEMMA NewClaims ==
  ASSUME TypeOK, LoopInv, MainInv, [Next]_vars, NEW m \in Launches, NEW s \in Claims(m)', s \notin Claims(m)
  PROVE  (ReuseService(m) \/ AttachService(m)) /\ s = Cur(m)
<1>1. s \in Needs[m]
  BY DEF Claims
<1>2. ~Up(m) /\ pc[m] \notin MainPcs /\ (pc[m] \in StartPcs \cup {"lockService"} => s \in todo[m])
  BY <1>1 DEF Claims
<1>3. ~Up(m)'
  BY <1>2, UpOnlyByCreation DEF MainPcs
<1>4. CASE StartStep(m)
  <2>1. CASE EnsureNetwork(m)
    BY <2>1, <1>1, <1>3 DEF EnsureNetwork, EnterStop, LoopInv, Claims, TypeOK, MainPcs, StartPcs
  <2>2. CASE ReuseService(m) \/ AttachService(m)
    <3>1. pc[m] \in StartPcs /\ todo' = [todo EXCEPT ![m] = todo[m] \ {Cur(m)}]
      BY <2>2 DEF ReuseService, AttachService, Started, StartPcs
    <3>2. s \in todo[m] /\ s \notin todo'[m]
      <4>1. pc'[m] = IF todo[m] = {Cur(m)} THEN "createMain" ELSE "lockService"
        BY <2>2 DEF ReuseService, AttachService, Started, TypeOK
      <4>2. QED
        BY <4>1, <3>1, <1>2, <1>3 DEF Claims, MainPcs, TypeOK
    <3>3. QED
      BY <3>1, <3>2, <2>2 DEF TypeOK
  <2>3. CASE ~EnsureNetwork(m) /\ ~ReuseService(m) /\ ~AttachService(m)
    <3>1. pc[m] \in StartPcs \cup {"lockService"} /\ todo'[m] = todo[m] /\ pc'[m] \notin MainPcs
      BY <2>3, <1>4 DEF StartStep, LockService, FindService, RemoveStraggler,
         StopStale, RemoveStale, PrepareService, CreateService, StartService, Probe,
         CleanupService, StartFails, TypeOK, StartPcs, MainPcs
    <3>2. QED
      BY <3>1, <1>2, <1>3 DEF Claims
  <2>4. QED
    BY <2>1, <2>2, <2>3
<1>5. CASE MainStep(m) \/ StopStep(m)
  <2>1. pc'[m] \notin MainPcs \cup StartPcs \cup {"lockService"}
    BY <1>2, <1>5 DEF MainStep, CreateMain, CreateMainFails, ConnectMain, ReleaseLocks, Abort, StartMain,
       StartMainFails, SessionReturns, RemoveMain, EnterStop, StopStep, LockStop, LockStopFails, CheckConsumers,
       FindStop, StopService, RemoveService, RemoveRunDir, StopFails, Stopped, NextToStop, TypeOK, MainPcs, StartPcs
  <2>2. QED
    BY <2>1, <1>3 DEF Claims
<1>6. CASE \E l \in Launches : l # m /\ Step(l)
  <2>1. pc'[m] = pc[m] /\ todo'[m] = todo[m]
    BY <1>6, OtherStart, OtherMain DEF Step, StopStep, LockStop, LockStopFails, CheckConsumers, FindStop, StopService,
       RemoveService, RemoveRunDir, StopFails, Stopped, NextToStop, TypeOK, Untouched
  <2>2. QED
    BY <2>1, <1>2, <1>3 DEF Claims
<1>7. CASE Environment
  <2>1. (pc'[m] = pc[m] /\ todo'[m] = todo[m]) \/ pc'[m] \in {"ensureNetwork", "removeMain", "killed"}
    BY <1>7 DEF Environment, Begin, MainExits, SessionInterrupted, BudgetExpires, Kill,
       DaemonListens, DaemonExits, TypeOK
  <2>2. QED
    BY <2>1, <1>2, <1>3 DEF Claims, MainPcs, StartPcs
<1>8. CASE Finished \/ UNCHANGED vars
  BY <1>2, <1>3, <1>8 DEF Finished, Claims
<1>9. QED
  BY <1>4, <1>5, <1>6, <1>7, <1>8 DEF Next, Step

LEMMA ClaimsStep ==
  ASSUME IInv, IInv', ServedInv, Agreed, [Next]_vars
  PROVE  ClaimInv'
<1> SUFFICES ASSUME NEW m \in Launches, NEW s \in Claims(m)'
             PROVE  Serves(m, s)' /\ attached'[s]
  BY DEF ClaimInv
<1>1. CASE s \in Claims(m)
  <2>1. Serves(m, s) /\ attached[s]
    BY <1>1 DEF ServedInv, ClaimInv
  <2>2. QED
    BY <1>1, <2>1, ClaimsAreSpared, ServesOn DEF IInv
<1>2. CASE s \notin Claims(m)
  <2>1. (ReuseService(m) \/ AttachService(m)) /\ s = Cur(m)
    BY <1>2, NewClaims DEF IInv
  <2>2. Serves(m, s) /\ s \in Services
    BY <2>1, CurInTodo DEF ReuseService, AttachService, ServedInv, StageInv, Stage, IInv, LoopPcs, StartPcs
  <2>3. QED
    BY <2>1, <2>2 DEF ReuseService, AttachService, Serves, IInv, TypeOK
<1>3. QED
  BY <1>1, <1>2

(* A launch begins to renew a service only when it has found that it does  *)
(* not serve what anybody up would want of it.                             *)
LEMMA RenewBegins ==
  ASSUME IInv, ServedInv, Agreed, [Next]_vars, NEW l \in Launches, pc'[l] \in RenewPcs
  PROVE  /\ pc[l] \in StartPcs /\ Cur(l)' = Cur(l)
         /\ \A m \in Launches : Up(m) => Cur(l) \notin Needs[m]
<1>1. /\ todo'[l] = todo[l]
      /\ pc[l] \in RenewPcs \/ FindService(l)
  <2>1. CASE StartStep(l)
    BY <2>1 DEF StartStep, EnsureNetwork, LockService, FindService, RemoveStraggler, ReuseService,
       StopStale, RemoveStale, PrepareService, CreateService, StartService, Probe,
       AttachService, CleanupService, StartFails, Started, EnterStop, IInv, TypeOK, RenewPcs
  <2>2. CASE MainStep(l) \/ StopStep(l)
    <3>1. pc'[l] \notin RenewPcs
      BY <2>2 DEF MainStep, CreateMain, CreateMainFails, ConnectMain, ReleaseLocks, Abort, StartMain,
         StartMainFails, SessionReturns, RemoveMain, EnterStop, StopStep, LockStop, LockStopFails, CheckConsumers,
         FindStop, StopService, RemoveService, RemoveRunDir, StopFails, Stopped, NextToStop, IInv, TypeOK, RenewPcs
    <3>2. QED
      BY <3>1
  <2>3. CASE \E k \in Launches : k # l /\ Step(k)
    BY <2>3, OtherStart, OtherMain, OtherStop DEF Step, Untouched, IInv
  <2>4. CASE Environment
    BY <2>4 DEF Environment, Begin, MainExits, SessionInterrupted, BudgetExpires, Kill,
       DaemonListens, DaemonExits, IInv, TypeOK, RenewPcs
  <2>5. CASE Finished \/ UNCHANGED vars
    BY <2>5 DEF Finished
  <2>6. QED
    BY <2>1, <2>2, <2>3, <2>4, <2>5 DEF Next, Step
<1>2. pc[l] \in StartPcs /\ Cur(l)' = Cur(l)
  BY <1>1 DEF FindService, RenewPcs, StartPcs, Cur
<1>3. CASE pc[l] \in RenewPcs
  BY <1>2, <1>3 DEF ServedInv, RenewInv
<1>4. CASE FindService(l)
  <2>1. SUFFICES ASSUME NEW m \in Launches, Up(m), Cur(l) \in Needs[m]
                 PROVE  FALSE
    BY <1>2
  <2>2. Serves(m, Cur(l))
    BY <2>1 DEF ServedInv, ClaimInv, Claims
  <2>3. Cur(l) \in Needs[l]
    BY <1>2, CurInTodo DEF IInv, LoopPcs
  <2>4. Want[m][Cur(l)] = Want[l][Cur(l)]
    BY <2>1, <2>3 DEF Agreed, Uniform
  <2>5. pc'[l] = "reuseService" \/ (pc'[l] = "stopStale" /\ ~Reusable(l, Cur(l)))
    BY <1>4, <2>2 DEF FindService, Serves, IInv, TypeOK
  <2>6. QED
    BY <2>2, <2>4, <2>5 DEF Serves, Reusable, RenewPcs
<1>5. QED
  BY <1>1, <1>2, <1>3, <1>4

LEMMA RenewStep ==
  ASSUME IInv, ServedInv, Agreed, [Next]_vars
  PROVE  RenewInv'
<1> SUFFICES ASSUME NEW l \in Launches, pc'[l] \in RenewPcs,
                    NEW m \in Launches, Up(m)', Cur(l)' \in Needs[m]
             PROVE  FALSE
  BY DEF RenewInv
<1>1. pc[l] \in StartPcs /\ Cur(l)' = Cur(l) /\ (Up(m) => Cur(l) \notin Needs[m])
  BY RenewBegins
<1>2. pc[m] = "createMain"
  BY <1>1, UpOnlyByCreation DEF IInv
<1>3. lock[Cur(l)] = m /\ lock[Cur(l)] = l
  BY <1>1, <1>2 DEF IInv, LockInv, MainPcs
<1>4. QED
  BY <1>1, <1>2, <1>3 DEF StartPcs

LEMMA StageStep ==
  ASSUME IInv, IInv', ServedInv, Agreed, [Next]_vars
  PROVE  StageInv'
<1> SUFFICES ASSUME NEW l \in Launches, pc'[l] \in {"reuseService", "startService", "probe", "attachService"}
             PROVE  Stage(l)'
  BY DEF StageInv, Stage
<1>1. CASE StartStep(l)
  <2>1. Cur(l) \in Services
    BY <1>1, CurInTodo DEF StartStep, EnsureNetwork, LockService, FindService, RemoveStraggler, ReuseService,
       StopStale, RemoveStale, PrepareService, CreateService, StartService, Probe,
       AttachService, CleanupService, StartFails, LoopPcs, StartPcs, IInv
  <2>2. todo'[l] = todo[l] /\ (FindService(l) \/ CreateService(l) \/ StartService(l) \/ Probe(l))
    BY <1>1 DEF StartStep, EnsureNetwork, LockService, FindService, RemoveStraggler, ReuseService,
       StopStale, RemoveStale, PrepareService, CreateService, StartService, Probe,
       AttachService, CleanupService, StartFails, Started, EnterStop, IInv, TypeOK
  <2>3. Cur(l)' = Cur(l)
    BY <2>2 DEF Cur
  <2>4. Stage(l)
    BY DEF ServedInv, StageInv
  <2>5. CASE FindService(l)
    BY <2>3, <2>5 DEF FindService, Reusable, Stage, Serves, IInv, TypeOK
  <2>6. CASE CreateService(l)
    BY <2>1, <2>3, <2>6 DEF CreateService, Stage, IInv, TypeOK
  <2>7. CASE StartService(l)
    BY <2>1, <2>3, <2>4, <2>7 DEF StartService, SetState, Stage, IInv, TypeOK
  <2>8. CASE Probe(l)
    BY <2>3, <2>4, <2>8 DEF Probe, Stage, Serves, IInv, TypeOK
  <2>9. QED
    BY <2>2, <2>5, <2>6, <2>7, <2>8
<1>2. CASE MainStep(l) \/ StopStep(l)
  BY <1>2 DEF MainStep, CreateMain, CreateMainFails, ConnectMain, ReleaseLocks, Abort, StartMain,
     StartMainFails, SessionReturns, RemoveMain, EnterStop, StopStep, LockStop, LockStopFails, CheckConsumers,
     FindStop, StopService, RemoveService, RemoveRunDir, StopFails, Stopped, NextToStop, IInv, TypeOK
<1>3. CASE \/ \E k \in Launches : k # l /\ Step(k)
           \/ Environment \/ Finished \/ UNCHANGED vars
  <2>1. pc'[l] = pc[l] /\ todo'[l] = todo[l]
    <3>1. CASE \E k \in Launches : k # l /\ Step(k)
      BY <3>1, OtherStart, OtherMain, OtherStop DEF Step, Untouched, IInv
    <3>2. CASE Environment
      BY <3>2 DEF Environment, Begin, MainExits, SessionInterrupted, BudgetExpires, Kill,
         DaemonListens, DaemonExits, IInv, TypeOK
    <3>3. QED
      BY <1>3, <3>1, <3>2 DEF Finished
  <2>2. Cur(l)' = Cur(l) /\ Cur(l) \in Services /\ lock[Cur(l)] = l
    BY <2>1, CurInTodo DEF Cur, IInv, LockInv, LoopPcs, StartPcs
  <2>3. /\ state'[Cur(l)] = state[Cur(l)] /\ hash'[Cur(l)] = hash[Cur(l)]
        /\ socket'[Cur(l)] \in {socket[Cur(l)], "live"}
    <3>1. ASSUME NEW k \in Launches, k # l, Step(k)
          PROVE  /\ state'[Cur(l)] = state[Cur(l)] /\ hash'[Cur(l)] = hash[Cur(l)]
                 /\ socket'[Cur(l)] = socket[Cur(l)]
      BY <2>1, <3>1, LockedLeave DEF StartPcs
    <3>2. CASE Environment
      BY <2>2, <3>2, Surroundings DEF IInv
    <3>3. QED
      BY <1>3, <3>1, <3>2 DEF Finished
  <2>4. QED
    BY <2>1, <2>2, <2>3 DEF ServedInv, StageInv, Stage, Serves
<1>4. QED
  BY <1>1, <1>2, <1>3 DEF Next, Step

LEMMA MountStep ==
  ASSUME IInv, ServedInv, [Next]_vars
  PROVE  MountInv'
<1> SUFFICES ASSUME NEW m \in Launches
             PROVE  linked'[m] \subseteq Needs[m]
  BY DEF MountInv
<1>1. linked[m] \subseteq Needs[m]
  BY DEF ServedInv, MountInv
<1>2. ASSUME NEW l \in Launches, Step(l)
      PROVE  linked'[m] \subseteq linked[m] \/ linked'[m] \subseteq Needs[m]
  <2>1. CASE StartStep(l)
    BY <2>1 DEF StartStep, EnsureNetwork, LockService, FindService, RemoveStraggler, ReuseService,
       StopStale, RemoveStale, PrepareService, CreateService, StartService, Probe,
       AttachService, CleanupService, StartFails, Remove, Stop, Unlinked
  <2>2. CASE MainStep(l)
    BY <2>2 DEF MainStep, CreateMain, CreateMainFails, ConnectMain, ReleaseLocks, Abort, StartMain,
       StartMainFails, SessionReturns, RemoveMain, IInv, TypeOK
  <2>3. CASE StopStep(l)
    BY <2>3 DEF StopStep, LockStop, LockStopFails, CheckConsumers, FindStop, StopService, RemoveService,
       RemoveRunDir, StopFails, Remove, Stop, Unlinked
  <2>4. QED
    BY <1>2, <2>1, <2>2, <2>3 DEF Step
<1>3. CASE Environment
  BY <1>1, <1>3 DEF Environment, Begin, MainExits, SessionInterrupted, BudgetExpires, Kill,
     DaemonListens, DaemonExits, Unlinked, IInv, TypeOK
<1>4. CASE Finished \/ UNCHANGED vars
  BY <1>1, <1>4 DEF Finished
<1>5. QED
  BY <1>1, <1>2, <1>3, <1>4 DEF Next

LEMMA ServedStep == IInv /\ ServedInv /\ Agreed /\ [Next]_vars => ServedInv'
<1> SUFFICES ASSUME IInv, ServedInv, Agreed, [Next]_vars
             PROVE  ServedInv'
  OBVIOUS
<1>1. IInv'
  BY StepIInv
<1>2. QED
  BY <1>1, ClaimsStep, RenewStep, StageStep, MountStep DEF ServedInv

LEMMA ServedAlways == ASSUME Agreed PROVE Spec => [](IInv /\ ServedInv)
<1>1. IInv /\ ServedInv /\ [Next]_vars => ServedInv'
  BY ServedStep
<1>2. QED
  BY <1>1, InitServed, Inductive, PTL DEF Spec

(* What running main containers declare is up for them, on the network and *)
(* as their profile defines it, whatever other launches start, fail at,    *)
(* stop or leave behind when they are killed.  (Launches that disagree, or *)
(* a daemon that crashes, are the property's own exceptions.)              *)
THEOREM ConsumersStayServed == Spec => []ConsumersAreServed
<1>1. CASE Agreed
  <2>1. ServedInv => ConsumersAreServed
    BY DEF ServedInv, ClaimInv, Claims, Up, Serves, ConsumersAreServed
  <2>2. QED
    BY <1>1, <2>1, ServedAlways, PTL
<1>2. CASE ~Agreed
  <2>1. ConsumersAreServed
    BY <1>2 DEF Agreed, ConsumersAreServed
  <2>2. QED
    BY <2>1, PTL
<1>3. QED
  BY <1>1, <1>2

(* A container that is renewed or stopped is nobody's, so no running main  *)
(* container loses a socket it has mounted.                                *)
LEMMA MountsStep ==
  ASSUME IInv, ServedInv, Agreed, [Next]_vars,
         NEW m \in Launches, main[m] = "running", main'[m] = "running"
  PROVE  linked[m] \subseteq linked'[m]
<1>1. ASSUME NEW s \in linked[m]
      PROVE  Spared(s) /\ s \in Services
  <2>1. s \in Claims(m)
    BY DEF ServedInv, MountInv, Claims, Up
  <2>2. QED
    BY <2>1, ClaimsAreSpared
<1>2. ASSUME NEW l \in Launches, Step(l)
      PROVE  linked[m] \subseteq linked'[m]
  <2>1. CASE pc[l] \in RenewPcs \cup Decided
    <3>1. linked' = linked \/ Unlinked(Cur(l))
      BY <1>2, <2>1 DEF Step, StartStep, EnsureNetwork, LockService, FindService, RemoveStraggler, ReuseService,
         StopStale, RemoveStale, PrepareService, CreateService, StartService, Probe,
         AttachService, CleanupService, StartFails, Remove, Stop, StopStep, LockStop, LockStopFails,
         CheckConsumers, FindStop, StopService, RemoveService, RemoveRunDir, StopFails,
         MainStep, CreateMain, CreateMainFails, ConnectMain, ReleaseLocks, Abort, StartMain,
         StartMainFails, SessionReturns, RemoveMain, RenewPcs, Decided
    <3>2. Cur(l) \notin linked[m]
      BY <1>1, <2>1 DEF Spared
    <3>3. QED
      BY <3>1, <3>2 DEF Unlinked
  <2>2. CASE pc[l] \notin RenewPcs \cup Decided
    <3>1. CASE StartStep(l) \/ StopStep(l)
      BY <2>2, <3>1 DEF StartStep, EnsureNetwork, LockService, FindService, RemoveStraggler, ReuseService,
         StopStale, RemoveStale, PrepareService, CreateService, StartService, Probe,
         AttachService, CleanupService, StartFails, StopStep, LockStop, LockStopFails,
         CheckConsumers, FindStop, StopService, RemoveService, RemoveRunDir, StopFails, RenewPcs, Decided
    <3>2. CASE MainStep(l)
      BY <3>2 DEF MainStep, CreateMain, CreateMainFails, ConnectMain, ReleaseLocks, Abort, StartMain,
         StartMainFails, SessionReturns, RemoveMain, MainInv, IInv, TypeOK
    <3>3. QED
      BY <1>2, <3>1, <3>2 DEF Step
  <2>3. QED
    BY <2>1, <2>2
<1>3. CASE Environment
  BY <1>3 DEF Environment, Begin, MainExits, SessionInterrupted, BudgetExpires, Kill,
     DaemonListens, DaemonExits, Agreed, IInv, TypeOK
<1>4. QED
  BY <1>2, <1>3 DEF Next, Finished

(* Under the same premises nobody replaces the socket behind a mount.      *)
THEOREM MountsAreKept == Spec => MountsStayLive
<1>1. CASE Agreed
  <2>1. IInv /\ ServedInv /\ [Next]_vars
          => [Uniform /\ "daemon" \notin Faults =>
                \A l \in Launches : main[l] = "running" /\ main'[l] = "running"
                                      => linked[l] \subseteq linked'[l]]_vars
    BY <1>1, MountsStep
  <2>2. QED
    BY <1>1, <2>1, ServedAlways, PTL DEF Spec, MountsStayLive
<1>2. CASE ~Agreed
  <2>1. [Next]_vars => [Uniform /\ "daemon" \notin Faults =>
                          \A l \in Launches : main[l] = "running" /\ main'[l] = "running"
                                                => linked[l] \subseteq linked'[l]]_vars
    BY <1>2 DEF Agreed
  <2>2. QED
    BY <2>1, PTL DEF Spec, MountsStayLive
<1>3. QED
  BY <1>1, <1>2

-----------------------------------------------------------------------------
(* The contract of SharedService, implemented step by step: creating the   *)
(* main container is Join, its exit or removal is Leave, starting a        *)
(* service container is Start, and what stops or replaces one is Stop.     *)
LEMMA InitShared == Init => Shared!Init
  BY DEF Init, Shared!Init, Up

(* What a step does to one main container, seen from the contract.         *)
LEMMA JoinsOrLeaves ==
  ASSUME IInv, ServedInv, NEW l \in Launches, MainStep(l) \/ MainExits(l)
  PROVE  [Shared!Next]_(Shared!sharedVars)
<1> DEFINE up == {s \in Services : state[s] = "running"}
           using == {m \in Launches : Up(m)}
<1>1. up' = up
  BY DEF MainStep, CreateMain, CreateMainFails, ConnectMain, ReleaseLocks, Abort, StartMain,
     StartMainFails, SessionReturns, RemoveMain, MainExits
<1>2. \A m \in Launches : m # l => (Up(m)' <=> Up(m))
  BY DEF MainStep, CreateMain, CreateMainFails, ConnectMain, ReleaseLocks, Abort, StartMain,
     StartMainFails, SessionReturns, RemoveMain, MainExits, IInv, TypeOK, Up
<1>3. CASE Up(l)' /\ ~Up(l)
  <2>1. pc[l] = "createMain"
    BY <1>3, UpOnlyByCreation DEF IInv, Next, Step, Environment
  <2>2. \A s \in Needs[l] : state[s] = "running" /\ s \in Services
    BY <2>1, NeedsAssumption DEF ServedInv, ClaimInv, Claims, MainPcs, Serves
  <2>3. Needs[l] \subseteq up /\ using' = using \cup {l}
    BY <1>2, <1>3, <2>2
  <2>4. QED
    BY <1>1, <2>3 DEF Shared!Next, Shared!Join
<1>4. CASE Up(l) /\ ~Up(l)'
  <2>1. using' = using \ {l}
    BY <1>2, <1>4
  <2>2. QED
    BY <1>1, <2>1 DEF Shared!Next, Shared!Leave
<1>5. CASE Up(l) <=> Up(l)'
  <2>1. using' = using
    BY <1>2, <1>5
  <2>2. QED
    BY <1>1, <2>1 DEF Shared!sharedVars
<1>6. QED
  BY <1>3, <1>4, <1>5

LEMMA StartsOrStops ==
  ASSUME IInv, ServedInv, NEW l \in Launches, StartStep(l) \/ StopStep(l)
  PROVE  [Shared!Next]_(Shared!sharedVars)
<1> DEFINE up == {s \in Services : state[s] = "running"}
           using == {m \in Launches : Up(m)}
           c == Cur(l)
<1>1. using' = using
  BY DEF StartStep, EnsureNetwork, LockService, FindService, RemoveStraggler, ReuseService,
     StopStale, RemoveStale, PrepareService, CreateService, StartService, Probe,
     AttachService, CleanupService, StartFails, StopStep, LockStop, LockStopFails,
     CheckConsumers, FindStop, StopService, RemoveService, RemoveRunDir, StopFails, Remove, Stop, Up
<1>2. \A s \in Services : s # c => state'[s] = state[s]
  BY OnlyItsOwn DEF Step, IInv
<1>3. CASE c \in up /\ c \notin up'
  <2>1. pc[l] \in RenewPcs \cup Decided
    BY <1>3, OthersLeave DEF Step, IInv
  <2>2. \A m \in using : c \notin Needs[m]
    BY <2>1 DEF ServedInv, RenewInv, IInv, StopInv, StopDecisionStands, Decided
  <2>3. up' = up \ {c}
    BY <1>2, <1>3
  <2>4. QED
    BY <1>1, <1>3, <2>2, <2>3 DEF Shared!Next, Shared!Stop
<1>4. CASE c \notin up /\ c \in up'
  <2>1. up' = up \cup {c}
    BY <1>2, <1>4
  <2>2. QED
    BY <1>1, <1>4, <2>1 DEF Shared!Next, Shared!Start
<1>5. CASE c \in up <=> c \in up'
  <2>1. up' = up
    BY <1>2, <1>5
  <2>2. QED
    BY <1>1, <2>1 DEF Shared!sharedVars
<1>6. QED
  BY <1>3, <1>4, <1>5

LEMMA SharedStep ==
  ASSUME IInv, ServedInv, Agreed, [Next]_vars
  PROVE  [Shared!Next]_(Shared!sharedVars)
<1>1. CASE \E l \in Launches : Step(l) \/ MainExits(l)
  BY <1>1, JoinsOrLeaves, StartsOrStops DEF Step
<1>2. CASE \/ \E l \in Launches : Begin(l) \/ SessionInterrupted(l) \/ BudgetExpires(l) \/ Kill(l)
           \/ \E s \in Services : DaemonListens(s)
           \/ Finished \/ UNCHANGED vars
  <2>1. UNCHANGED <<state, main>>
    BY <1>2 DEF Begin, SessionInterrupted, BudgetExpires, Kill, DaemonListens, Finished
  <2>2. QED
    BY <2>1 DEF Shared!sharedVars, Up
<1>3. ~ \E s \in Services : DaemonExits(s)
  BY DEF Agreed, DaemonExits
<1>4. QED
  BY <1>1, <1>2, <1>3 DEF Next, Environment

(* Launches that agree, with daemons that do not crash, keep the contract  *)
(* of README.md's companion services: nobody runs without what it needs,   *)
(* and nothing is stopped or replaced under a client.                      *)
THEOREM ContractIsKept ==
  ASSUME Uniform, "daemon" \notin Faults
  PROVE  Spec => ImplementsSharedService
<1>1. Agreed
  BY DEF Agreed
<1>2. IInv /\ ServedInv /\ [Next]_vars => [Shared!Next]_(Shared!sharedVars)
  BY <1>1, SharedStep
<1>3. QED
  BY <1>1, <1>2, InitShared, ServedAlways, PTL DEF Spec, ImplementsSharedService, Shared!Spec
-----------------------------------------------------------------------------
(* Keepers.  Without failing calls and kills a launch leaves a service     *)
(* only when it has removed the container (GoneInv), or has counted a      *)
(* launch that still has its own stop step ahead (UpInv).                  *)
UpInv ==
  \A l \in Launches :
    Up(l) => pc[l] \in {"connectMain", "release", "startMain", "session", "removeMain"}
GoneInv == \A l \in Launches : pc[l] = "removeRunDir" => state[Cur(l)] = "absent"
CalmInv == late = {} /\ UpInv /\ GoneInv

LEMMA CalmInit == Init => CalmInv
  BY DEF Init, CalmInv, UpInv, GoneInv, Up

LEMMA UpStep ==
  ASSUME IInv, CalmInv, Faults \subseteq {"daemon"}, [Next]_vars
  PROVE  UpInv'
<1> SUFFICES ASSUME NEW m \in Launches, Up(m)'
             PROVE  pc'[m] \in {"connectMain", "release", "startMain", "session", "removeMain"}
  BY DEF UpInv
<1>1. pc[m] \in {"createMain", "connectMain", "release", "startMain", "session", "removeMain"}
  BY UpOnlyByCreation DEF CalmInv, UpInv, IInv
<1>2. CASE Step(m)
  BY <1>1, <1>2 DEF Step, StartStep, EnsureNetwork, LockService, FindService, RemoveStraggler, ReuseService,
     StopStale, RemoveStale, PrepareService, CreateService, StartService, Probe,
     AttachService, CleanupService, StartFails, MainStep, CreateMain, CreateMainFails, ConnectMain,
     ReleaseLocks, Abort, StartMain, StartMainFails, SessionReturns, RemoveMain,
     StopStep, LockStop, LockStopFails, CheckConsumers, FindStop, StopService, RemoveService,
     RemoveRunDir, StopFails, Up, IInv, TypeOK
<1>3. CASE \E k \in Launches : k # m /\ Step(k)
  <2>1. pc'[m] = pc[m] /\ main'[m] = main[m]
    BY <1>3, OtherStart, OtherMain, OtherStop DEF Step, Untouched, IInv
  <2>2. QED
    BY <2>1 DEF CalmInv, UpInv, Up
<1>4. CASE Environment
  BY <1>1, <1>4 DEF Environment, Begin, MainExits, SessionInterrupted, BudgetExpires, Kill,
     DaemonListens, DaemonExits, CalmInv, UpInv, Up, IInv, TypeOK
<1>5. CASE Finished \/ UNCHANGED vars
  BY <1>5 DEF Finished, CalmInv, UpInv, Up
<1>6. QED
  BY <1>2, <1>3, <1>4, <1>5 DEF Next

LEMMA GoneStep ==
  ASSUME IInv, CalmInv, Faults \subseteq {"daemon"}, [Next]_vars
  PROVE  GoneInv'
<1> SUFFICES ASSUME NEW l \in Launches, pc'[l] = "removeRunDir"
             PROVE  state'[Cur(l)'] = "absent"
  BY DEF GoneInv
<1>1. CASE StartStep(l) \/ MainStep(l)
  BY <1>1 DEF StartStep, EnsureNetwork, LockService, FindService, RemoveStraggler, ReuseService,
     StopStale, RemoveStale, PrepareService, CreateService, StartService, Probe,
     AttachService, CleanupService, StartFails, Started, MainStep, CreateMain, CreateMainFails, ConnectMain,
     ReleaseLocks, Abort, StartMain, StartMainFails, SessionReturns, RemoveMain, EnterStop, IInv, TypeOK
<1>2. CASE StopStep(l)
  <2>1. todo'[l] = todo[l] /\ pc[l] \in StopPcs /\ (FindStop(l) \/ RemoveService(l))
    BY <1>2 DEF StopStep, LockStop, LockStopFails, CheckConsumers, FindStop, StopService, RemoveService,
       RemoveRunDir, StopFails, Stopped, NextToStop, StopPcs, IInv, TypeOK
  <2>2. Cur(l)' = Cur(l) /\ Cur(l) \in Services
    BY <2>1, CurInTodo DEF Cur, IInv, LoopPcs
  <2>3. CASE FindStop(l)
    BY <2>2, <2>3 DEF FindStop, Stopped, NextToStop, IInv, TypeOK
  <2>4. CASE RemoveService(l)
    BY <2>2, <2>4 DEF RemoveService, Remove, SetState, IInv, TypeOK
  <2>5. QED
    BY <2>1, <2>3, <2>4
<1>3. CASE \E k \in Launches : k # l /\ Step(k)
  <2>1. pc'[l] = pc[l] /\ todo'[l] = todo[l]
    BY <1>3, OtherStart, OtherMain, OtherStop DEF Step, Untouched, IInv
  <2>2. Cur(l)' = Cur(l) /\ state'[Cur(l)] = state[Cur(l)]
    BY <1>3, <2>1, LockedLeave DEF Cur, StopPcs
  <2>3. QED
    BY <2>1, <2>2 DEF CalmInv, GoneInv
<1>4. CASE Environment
  <2>1. pc[l] = "removeRunDir" /\ todo'[l] = todo[l]
    BY <1>4 DEF Environment, Begin, MainExits, SessionInterrupted, BudgetExpires, Kill,
       DaemonListens, DaemonExits, IInv, TypeOK
  <2>2. \A s \in Services : state[s] = "absent" => state'[s] = "absent"
    BY <1>4 DEF Environment, Begin, MainExits, SessionInterrupted, BudgetExpires, Kill,
       DaemonListens, DaemonExits, SetState, IInv, TypeOK
  <2>3. Cur(l)' = Cur(l) /\ Cur(l) \in Services
    BY <2>1, CurInTodo DEF Cur, IInv, LoopPcs, StopPcs
  <2>4. QED
    BY <2>1, <2>2, <2>3 DEF CalmInv, GoneInv
<1>5. CASE Finished \/ UNCHANGED vars
  BY <1>5 DEF Finished, CalmInv, GoneInv, Cur
<1>6. QED
  BY <1>1, <1>2, <1>3, <1>4, <1>5 DEF Next, Step

LEMMA LateStep == ASSUME CalmInv, Faults \subseteq {"daemon"}, [Next]_vars PROVE late' = {}
<1>1. ASSUME NEW l \in Launches, Step(l)
      PROVE  late' = late
  <2>1. CASE StartStep(l)
    BY <2>1 DEF StartStep, EnsureNetwork, LockService, FindService, RemoveStraggler, ReuseService,
       StopStale, RemoveStale, PrepareService, CreateService, StartService, Probe,
       AttachService, CleanupService, StartFails, Started, EnterStop
  <2>2. CASE MainStep(l)
    BY <2>2 DEF MainStep, CreateMain, CreateMainFails, ConnectMain,
       ReleaseLocks, Abort, StartMain, StartMainFails, SessionReturns, RemoveMain, EnterStop
  <2>3. CASE StopStep(l)
    BY <2>3 DEF StopStep, LockStop, LockStopFails, CheckConsumers, FindStop, StopService, RemoveService,
       RemoveRunDir, StopFails, Stopped, NextToStop
  <2>4. QED
    BY <1>1, <2>1, <2>2, <2>3 DEF Step
<1>2. Environment => late' = late
  BY DEF Environment, Begin, MainExits, SessionInterrupted, BudgetExpires, Kill, DaemonListens, DaemonExits
<1>3. QED
  BY <1>1, <1>2 DEF Next, Finished, CalmInv

(* Only a launch at work on a service makes a container of its own of it.  *)
LEMMA NewContainer ==
  ASSUME IInv, Faults \subseteq {"daemon"}, [Next]_vars, NEW s \in Services,
         state[s] \notin {"created", "running", "exited"}, state'[s] \in {"created", "running", "exited"}
  PROVE  \E l \in Launches : s \in Needs[l] /\ pc'[l] \in {"startService", "probe"}
<1>1. PICK l \in Launches : Step(l)
  BY DEF Next, Environment, Begin, MainExits, SessionInterrupted, BudgetExpires, Kill,
     DaemonListens, DaemonExits, SetState, Finished, IInv, TypeOK
<1>2. s = Cur(l)
  BY <1>1, OnlyItsOwn DEF IInv
<1>3. pc[l] \in RenewPcs \cup Decided
  BY <1>1, OthersLeave DEF IInv
<1>4. Cur(l) \in Needs[l]
  BY <1>3, CurInTodo DEF IInv, LoopPcs, RenewPcs, Decided, StartPcs, StopPcs
<1>5. CreateService(l) \/ StartService(l)
  BY <1>1, <1>2 DEF Step, StartStep, EnsureNetwork, LockService, FindService, RemoveStraggler, ReuseService,
     StopStale, RemoveStale, PrepareService, CreateService, StartService, Probe,
     AttachService, CleanupService, StartFails, MainStep, CreateMain, CreateMainFails, ConnectMain,
     ReleaseLocks, Abort, StartMain, StartMainFails, SessionReturns, RemoveMain,
     StopStep, LockStop, LockStopFails, CheckConsumers, FindStop, StopService, RemoveService,
     RemoveRunDir, StopFails, Remove, Stop, SetState, IInv, TypeOK
<1>6. QED
  BY <1>2, <1>4, <1>5 DEF CreateService, StartService, IInv, TypeOK

(* A keeper stays one until it is through with the service.                *)
LEMMA KeeperStays ==
  ASSUME IInv, CalmInv, Faults \subseteq {"daemon"}, [Next]_vars, NEW s \in Services,
         NEW l \in KeeperOf(s), l \notin KeeperOf(s)'
  PROVE  /\ s = Cur(l)
         /\ \/ CheckConsumers(l) /\ Consumers(s) # {}
            \/ FindStop(l) /\ state[s] = "foreign"
            \/ RemoveRunDir(l)
<1>1. /\ l \in Launches /\ s \in Needs[l] /\ pc[l] # "done"
      /\ pc[l] \in StopPcs \cup {"lockStop"} => s \in todo[l]
  BY DEF KeeperOf
<1>2. \/ pc'[l] = "done"
      \/ pc'[l] \in StopPcs \cup {"lockStop"} /\ s \notin todo'[l]
  BY <1>1 DEF KeeperOf
<1>3. CASE StopStep(l)
  <2>1. pc[l] \in StopPcs \cup {"lockStop"}
    BY <1>3 DEF StopStep, LockStop, LockStopFails, CheckConsumers, FindStop, StopService, RemoveService,
       RemoveRunDir, StopFails, StopPcs
  <2>2. todo'[l] # todo[l] \/ pc'[l] = "done"
    BY <1>1, <1>2, <2>1
  <2>3. /\ todo'[l] = todo[l] \ {Cur(l)}
        /\ \/ CheckConsumers(l) /\ Consumers(Cur(l)) # {}
           \/ FindStop(l) /\ state[Cur(l)] = "foreign"
           \/ RemoveRunDir(l)
    BY <1>3, <2>2 DEF StopStep, LockStop, LockStopFails, CheckConsumers, FindStop, StopService, RemoveService,
       RemoveRunDir, StopFails, Stopped, NextToStop, CalmInv, IInv, TypeOK
  <2>4. pc'[l] = "done" => todo[l] = {Cur(l)}
    BY <2>3 DEF CheckConsumers, FindStop, RemoveRunDir, Stopped, NextToStop, IInv, TypeOK
  <2>5. s = Cur(l)
    BY <1>1, <1>2, <2>1, <2>3, <2>4
  <2>6. QED
    BY <2>3, <2>5
<1>4. CASE StartStep(l) \/ MainStep(l)
  <2>1. pc'[l] # "done" /\ (pc'[l] \in StopPcs \cup {"lockStop"} => todo'[l] = Needs[l])
    BY <1>4 DEF StartStep, EnsureNetwork, LockService, FindService, RemoveStraggler, ReuseService,
       StopStale, RemoveStale, PrepareService, CreateService, StartService, Probe,
       AttachService, CleanupService, StartFails, Started, MainStep, CreateMain, CreateMainFails, ConnectMain,
       ReleaseLocks, Abort, StartMain, StartMainFails, SessionReturns, RemoveMain, EnterStop, StopPcs, IInv, TypeOK
  <2>2. QED
    BY <1>1, <1>2, <2>1
<1>5. CASE \E k \in Launches : k # l /\ Step(k)
  <2>1. pc'[l] = pc[l] /\ todo'[l] = todo[l]
    BY <1>1, <1>5, OtherStart, OtherMain, OtherStop DEF Step, Untouched, IInv
  <2>2. QED
    BY <1>1, <1>2, <2>1
<1>6. CASE Environment
  BY <1>1, <1>2, <1>6 DEF Environment, Begin, MainExits, SessionInterrupted, BudgetExpires, Kill,
     DaemonListens, DaemonExits, IInv, TypeOK, StopPcs
<1>7. CASE Finished \/ UNCHANGED vars
  BY <1>1, <1>2, <1>7 DEF Finished
<1>8. QED
  BY <1>3, <1>4, <1>5, <1>6, <1>7 DEF Next, Step

LEMMA KeepersStep ==
  ASSUME IInv, CalmInv, ServicesHaveKeepers, Faults \subseteq {"daemon"}, [Next]_vars
  PROVE  ServicesHaveKeepers'
<1> SUFFICES ASSUME NEW s \in Services, state'[s] \in {"created", "running", "exited"}
             PROVE  \E k \in Launches : k \in KeeperOf(s)'
  BY DEF ServicesHaveKeepers
<1>1. CASE state[s] \notin {"created", "running", "exited"}
  <2>1. PICK l \in Launches : s \in Needs[l] /\ pc'[l] \in {"startService", "probe"}
    BY <1>1, NewContainer
  <2>2. l \in KeeperOf(s)'
    BY <2>1 DEF KeeperOf, StopPcs
  <2>3. QED
    BY <2>2
<1>2. CASE state[s] \in {"created", "running", "exited"}
  <2>1. PICK l \in KeeperOf(s) : l \in Launches
    BY <1>2 DEF ServicesHaveKeepers, KeeperOf
  <2>2. CASE l \in KeeperOf(s)'
    BY <2>1, <2>2
  <2>3. CASE l \notin KeeperOf(s)'
    <3>1. /\ s = Cur(l)
          /\ (CheckConsumers(l) /\ Consumers(s) # {}) \/ RemoveRunDir(l)
      BY <1>2, <2>3, KeeperStays
    <3>2. ~RemoveRunDir(l)
      BY <1>2, <2>1, <3>1 DEF CalmInv, GoneInv, RemoveRunDir
    <3>3. PICK m \in Consumers(s) : TRUE
      BY <3>1, <3>2
    <3>4. /\ m \in Launches /\ s \in Needs[m]
          /\ pc[m] \in {"connectMain", "release", "startMain", "session", "removeMain"}
      BY DEF Consumers, CalmInv, UpInv
    <3>5. m \in KeeperOf(s)
      BY <3>4 DEF KeeperOf, StopPcs
    <3>6. m \in KeeperOf(s)'
      <4>1. SUFFICES ASSUME m \notin KeeperOf(s)'
                     PROVE  FALSE
        OBVIOUS
      <4>2. CheckConsumers(m) \/ FindStop(m) \/ RemoveRunDir(m)
        BY <3>5, <4>1, KeeperStays
      <4>3. QED
        BY <3>4, <4>2 DEF CheckConsumers, FindStop, RemoveRunDir
    <3>7. QED
      BY <3>4, <3>6
  <2>4. QED
    BY <2>2, <2>3
<1>3. QED
  BY <1>1, <1>2

(* With no fault but crashing daemons no service container is left without *)
(* a launch that looks after it, in whatever order sessions end and stop   *)
(* steps run.  What an earlier tpd left behind is covered when some launch *)
(* declares it, which the second assumption says.                          *)
THEOREM KeepersRemain ==
  ASSUME Faults \subseteq {"daemon"}, \A s \in Services : \E l \in Launches : s \in Needs[l]
  PROVE  Spec => []ServicesHaveKeepers
<1>1. Init => CalmInv /\ ServicesHaveKeepers
  <2>1. Init => ServicesHaveKeepers
    BY DEF Init, ServicesHaveKeepers, KeeperOf, StopPcs
  <2>2. QED
    BY <2>1, CalmInit
<1>2. IInv /\ CalmInv /\ ServicesHaveKeepers /\ [Next]_vars => (CalmInv /\ ServicesHaveKeepers)'
  BY UpStep, GoneStep, LateStep, KeepersStep DEF CalmInv
<1>3. QED
  BY <1>1, <1>2, Inductive, PTL DEF Spec

-----------------------------------------------------------------------------
(* Which locks a launch holds: exactly those its control state calls for,  *)
(* and on its way out of an error none but its own services'.              *)
Holding(l) ==
  IF pc[l] = "lockService" THEN Needs[l] \ todo[l]
  ELSE IF pc[l] \in StartPcs THEN (Needs[l] \ todo[l]) \cup {Cur(l)}
  ELSE IF pc[l] \in MainPcs \cup {"abort"} THEN Needs[l]
  ELSE IF pc[l] \in StopPcs THEN {Cur(l)}
  ELSE {}
Held(l) == {s \in Services : lock[s] = l}
LocksAreKnown ==
  \A l \in Launches : Held(l) \subseteq Holding(l) /\ (pc[l] # "abort" => Held(l) = Holding(l))

(* What is started comes before what is left, in sorted order.             *)
Sorted(l) ==
  pc[l] \in StartPcs \cup {"lockService"} =>
    \A s \in Needs[l] \ todo[l] : \A t \in todo[l] : s < t
HeldInv == \A l \in Launches : Held(l) \subseteq Holding(l) /\ Sorted(l)

LEMMA LeastIsFirst ==
  ASSUME NEW S \in SUBSET Services, NEW t \in S
  PROVE  Least(S) \in S /\ Least(S) <= t
<1>1. \E s \in S : \A u \in S : s <= u  BY ServicesAssumption
<1> QED  BY <1>1 DEF Least

(* The step of another launch gives it no lock.                            *)
Unaided(m) ==
  /\ pc'[m] = pc[m] /\ todo'[m] = todo[m]
  /\ \A s \in Services : lock'[s] = m => lock[s] = m

LEMMA UnaidedKeeps ==
  ASSUME NEW m \in Launches, Held(m) \subseteq Holding(m), Sorted(m), Unaided(m)
  PROVE  (Held(m) \subseteq Holding(m) /\ Sorted(m))'
<1>1. Holding(m)' = Holding(m)  BY DEF Unaided, Holding, Cur
<1>2. Held(m)' \subseteq Held(m)  BY DEF Unaided, Held
<1> QED  BY <1>1, <1>2 DEF Unaided, Sorted

LEMMA StepIsItsOwn ==
  ASSUME TypeOK, NEW l \in Launches, NEW m \in Launches, m # l,
         Step(l) \/ Begin(l) \/ SessionInterrupted(l) \/ BudgetExpires(l) \/ MainExits(l) \/ Kill(l)
  PROVE  Unaided(m)
<1>1. m # NoOne  BY NoOneAssumption
<1>2. pc'[m] = pc[m] /\ todo'[m] = todo[m]
  <2>1. /\ pc' = [pc EXCEPT ![l] = pc'[l]] \/ pc' = pc
        /\ todo' = [todo EXCEPT ![l] = todo'[l]] \/ todo' = todo
    <3>1. CASE StartStep(l)
      BY <3>1 DEF StartStep, EnsureNetwork, LockService, FindService, RemoveStraggler, ReuseService,
         StopStale, RemoveStale, PrepareService, CreateService, StartService, Probe, AttachService,
         CleanupService, StartFails, EnterStop, Started, TypeOK
    <3>2. CASE MainStep(l)
      BY <3>2 DEF MainStep, CreateMain, CreateMainFails, ConnectMain, ReleaseLocks, Abort, StartMain,
         StartMainFails, SessionReturns, RemoveMain, EnterStop, TypeOK
    <3>3. CASE StopStep(l)
      BY <3>3 DEF StopStep, LockStop, LockStopFails, CheckConsumers, FindStop, StopService,
         RemoveService, RemoveRunDir, StopFails, Stopped, NextToStop, TypeOK
    <3>4. CASE Begin(l) \/ SessionInterrupted(l) \/ BudgetExpires(l) \/ MainExits(l) \/ Kill(l)
      BY <3>4 DEF Begin, SessionInterrupted, BudgetExpires, MainExits, Kill, TypeOK
    <3> QED  BY <3>1, <3>2, <3>3, <3>4 DEF Step
  <2> QED  BY <2>1 DEF TypeOK
<1>3. ASSUME NEW s \in Services, lock'[s] = m PROVE lock[s] = m
  <2>1. \/ lock' = lock
        \/ lock' = [lock EXCEPT ![Cur(l)] = l] \/ lock' = [lock EXCEPT ![Cur(l)] = NoOne]
        \/ Release(l)
    <3>1. CASE StartStep(l)
      BY <3>1 DEF StartStep, EnsureNetwork, LockService, FindService, RemoveStraggler, ReuseService,
         StopStale, RemoveStale, PrepareService, CreateService, StartService, Probe, AttachService,
         CleanupService, StartFails
    <3>2. CASE MainStep(l)
      BY <3>2 DEF MainStep, CreateMain, CreateMainFails, ConnectMain, ReleaseLocks, Abort, StartMain,
         StartMainFails, SessionReturns, RemoveMain
    <3>3. CASE StopStep(l)
      BY <3>3 DEF StopStep, LockStop, LockStopFails, CheckConsumers, FindStop, StopService,
         RemoveService, RemoveRunDir, StopFails, Stopped
    <3>4. CASE Begin(l) \/ SessionInterrupted(l) \/ BudgetExpires(l) \/ MainExits(l) \/ Kill(l)
      BY <3>4 DEF Begin, SessionInterrupted, BudgetExpires, MainExits, Kill
    <3> QED  BY <3>1, <3>2, <3>3, <3>4 DEF Step
  <2> QED  BY <1>1, <1>3, <2>1 DEF Release, TypeOK
<1> QED  BY <1>2, <1>3 DEF Unaided

LEMMA StartHolds ==
  ASSUME IInv, HeldInv, NEW l \in Launches, StartStep(l)
  PROVE  (Held(l) \subseteq Holding(l) /\ Sorted(l))'
<1> DEFINE s == Cur(l)
<1>1. /\ TypeOK /\ LoopInv /\ Held(l) \subseteq Holding(l) /\ Sorted(l)
      /\ Needs[l] \subseteq Services
  BY NeedsAssumption DEF IInv, HeldInv
<1>2. pc[l] \in {"ensureNetwork", "lockService"} \cup StartPcs
  BY DEF StartStep, EnsureNetwork, LockService, FindService, RemoveStraggler, ReuseService,
         StopStale, RemoveStale, PrepareService, CreateService, StartService, Probe,
         AttachService, CleanupService, StartFails, StartPcs
<1>3. /\ s \in todo[l] /\ todo[l] \subseteq Needs[l]
      /\ \A t \in todo[l] : s <= t
  <2>1. pc[l] \in LoopPcs  BY <1>2 DEF LoopPcs
  <2>2. s \in todo[l] /\ todo[l] \subseteq Needs[l]  BY <1>1, <2>1, CurInTodo DEF LoopInv
  <2> QED  BY <1>1, <2>2, LeastIsFirst DEF Cur
<1>4. CASE EnsureNetwork(l)
  <2>1. pc[l] = "ensureNetwork" /\ pc'[l] \in {"lockService", "lockStop"} /\ todo'[l] = Needs[l] /\ lock' = lock
    BY <1>1, <1>4 DEF EnsureNetwork, EnterStop, TypeOK, LoopInv
  <2>2. Held(l) = {}  BY <1>1, <2>1 DEF Holding, StartPcs, MainPcs, StopPcs
  <2> QED  BY <2>1, <2>2 DEF Held, Holding, Sorted
<1>5. CASE LockService(l)
  <2>1. /\ pc[l] = "lockService" /\ pc'[l] = "findService" /\ todo'[l] = todo[l]
        /\ lock' = [lock EXCEPT ![s] = l] /\ Cur(l)' = s
    BY <1>1, <1>5 DEF LockService, TypeOK, Cur
  <2>2. Held(l)' \subseteq Held(l) \cup {s}  BY <1>1, <2>1 DEF Held, TypeOK
  <2>3. Held(l) \subseteq Needs[l] \ todo[l]  BY <1>1, <2>1 DEF Holding
  <2>4. Holding(l)' = (Needs[l] \ todo[l]) \cup {s}  BY <2>1 DEF Holding, StartPcs
  <2>5. Sorted(l)'  BY <1>1, <2>1 DEF Sorted
  <2> QED  BY <2>2, <2>3, <2>4, <2>5
<1>6. CASE ReuseService(l) \/ AttachService(l)
  <2>1. /\ pc[l] \in StartPcs /\ lock' = lock /\ todo'[l] = todo[l] \ {s}
        /\ pc'[l] = IF todo[l] = {s} THEN "createMain" ELSE "lockService"
    BY <1>1, <1>6 DEF ReuseService, AttachService, Started, TypeOK, StartPcs
  <2>2. Held(l)' \subseteq (Needs[l] \ todo[l]) \cup {s}
    BY <1>1, <2>1 DEF Held, Holding, StartPcs
  <2>3. (Needs[l] \ todo[l]) \cup {s} = Needs[l] \ todo'[l]  BY <1>3, <2>1
  <2>4. Holding(l)' = IF todo[l] = {s} THEN Needs[l] ELSE Needs[l] \ todo'[l]
    BY <2>1 DEF Holding, StartPcs, MainPcs
  <2>5. Held(l)' \subseteq Holding(l)'  BY <2>2, <2>3, <2>4
  <2>6. ASSUME NEW u \in Needs[l] \ todo'[l], NEW t \in todo'[l] PROVE u < t
    <3>1. t \in todo[l] /\ t # s /\ u \in Int /\ t \in Int /\ s \in Int
      BY <1>1, <1>3, <2>1, ServicesAssumption
    <3>2. CASE u = s  BY <1>3, <3>1, <3>2
    <3>3. CASE u # s  BY <1>1, <2>1, <3>1, <3>3 DEF Sorted
    <3> QED  BY <3>2, <3>3
  <2>7. Sorted(l)'  BY <2>6 DEF Sorted
  <2> QED  BY <2>5, <2>7
<1>7. CASE \/ StartFails(l)
           \/ pc[l] \in StartPcs /\ ~(ReuseService(l) \/ AttachService(l))
  <2>1. /\ pc[l] \in StartPcs \cup {"lockService"}
        /\ pc'[l] = "abort" \/ (pc[l] \in StartPcs /\ pc'[l] \in StartPcs)
        /\ todo'[l] = todo[l] /\ lock' = lock
    <3>1. CASE StartFails(l)
      BY <1>1, <3>1 DEF StartFails, TypeOK, StartPcs
    <3>2. CASE pc[l] \in StartPcs /\ ~(ReuseService(l) \/ AttachService(l)) /\ ~StartFails(l)
      BY <1>1, <3>2 DEF StartStep, EnsureNetwork, LockService, FindService, RemoveStraggler,
         StopStale, RemoveStale, PrepareService, CreateService, StartService, Probe,
         CleanupService, TypeOK, StartPcs
    <3> QED  BY <1>7, <3>1, <3>2
  <2>2. Cur(l)' = s /\ Held(l)' = Held(l)  BY <2>1 DEF Cur, Held
  <2>3. CASE pc'[l] = "abort"
    <3>1. Held(l) \subseteq Needs[l]  BY <1>1, <1>3, <2>1 DEF Holding, StartPcs
    <3>2. Holding(l)' = Needs[l]  BY <2>3 DEF Holding, StartPcs
    <3> QED  BY <2>2, <2>3, <3>1, <3>2 DEF Sorted, StartPcs
  <2>4. CASE pc[l] \in StartPcs /\ pc'[l] \in StartPcs
    <3>1. Holding(l)' = Holding(l)  BY <2>1, <2>2, <2>4 DEF Holding, StartPcs
    <3> QED  BY <1>1, <2>1, <2>2, <2>4, <3>1 DEF Sorted
  <2> QED  BY <2>1, <2>3, <2>4
<1>8. EnsureNetwork(l) \/ LockService(l) \/ StartFails(l) \/ pc[l] \in StartPcs
  BY DEF StartStep, FindService, RemoveStraggler, ReuseService,
         StopStale, RemoveStale, PrepareService, CreateService, StartService, Probe,
         AttachService, CleanupService, StartFails, StartPcs
<1> QED  BY <1>4, <1>5, <1>6, <1>7, <1>8

LEMMA MainHolds ==
  ASSUME IInv, HeldInv, NEW l \in Launches, MainStep(l)
  PROVE  (Held(l) \subseteq Holding(l) /\ Sorted(l))'
<1>1. TypeOK /\ Held(l) \subseteq Holding(l) /\ l # NoOne  BY NoOneAssumption DEF IInv, HeldInv
<1>2. CASE CreateMain(l) \/ CreateMainFails(l) \/ ConnectMain(l)
  <2>1. /\ pc[l] \in MainPcs /\ pc'[l] \in MainPcs \cup {"abort"} /\ lock' = lock
    BY <1>1, <1>2 DEF CreateMain, CreateMainFails, ConnectMain, TypeOK, MainPcs
  <2>2. Holding(l) = Needs[l] /\ Holding(l)' = Needs[l] /\ Held(l)' = Held(l)
    BY <2>1 DEF Holding, Held, StartPcs, MainPcs
  <2> QED  BY <1>1, <2>1, <2>2 DEF Sorted, StartPcs, MainPcs
<1>3. CASE ReleaseLocks(l) \/ Abort(l)
  <2>1. /\ pc'[l] \in {"startMain", "lockStop"} /\ \A s \in Services : lock'[s] # l
    BY <1>1, <1>3 DEF ReleaseLocks, Abort, Release, EnterStop, TypeOK
  <2>2. Held(l)' = {}  BY <2>1 DEF Held
  <2> QED  BY <2>1, <2>2 DEF Sorted, StartPcs
<1>4. CASE StartMain(l) \/ StartMainFails(l) \/ SessionReturns(l) \/ RemoveMain(l)
  <2>1. /\ pc[l] \in {"startMain", "session", "removeMain"} /\ lock' = lock
        /\ pc'[l] \in {"session", "removeMain", "lockStop"}
    BY <1>1, <1>4 DEF StartMain, StartMainFails, SessionReturns, RemoveMain, EnterStop, TypeOK
  <2>2. Held(l)' = {}
    BY <1>1, <2>1 DEF Held, Holding, StartPcs, MainPcs, StopPcs
  <2> QED  BY <2>1, <2>2 DEF Sorted, StartPcs
<1> QED  BY <1>2, <1>3, <1>4 DEF MainStep

LEMMA StopHolds ==
  ASSUME IInv, HeldInv, NEW l \in Launches, StopStep(l)
  PROVE  (Held(l) \subseteq Holding(l) /\ Sorted(l))'
<1> DEFINE s == Cur(l)
<1>1. TypeOK /\ Held(l) \subseteq Holding(l) /\ l # NoOne  BY NoOneAssumption DEF IInv, HeldInv
<1>2. CASE LockStop(l)
  <2>1. /\ pc[l] = "lockStop" /\ pc'[l] = "checkConsumers" /\ lock' = [lock EXCEPT ![s] = l] /\ Cur(l)' = s
    BY <1>1, <1>2 DEF LockStop, TypeOK, Cur
  <2>2. Held(l) = {}  BY <1>1, <2>1 DEF Holding, StartPcs, MainPcs, StopPcs
  <2>3. Held(l)' \subseteq {s}  BY <1>1, <2>1, <2>2 DEF Held, TypeOK
  <2>4. Holding(l)' = {s}  BY <2>1 DEF Holding, StartPcs, MainPcs, StopPcs
  <2> QED  BY <2>1, <2>3, <2>4 DEF Sorted, StartPcs
<1>3. CASE LockStopFails(l)
  <2>1. pc[l] = "lockStop" /\ pc'[l] \in {"lockStop", "done"} /\ lock' = lock
    BY <1>1, <1>3 DEF LockStopFails, NextToStop, TypeOK
  <2>2. Held(l)' = {}  BY <1>1, <2>1 DEF Held, Holding, StartPcs, MainPcs, StopPcs
  <2> QED  BY <2>1, <2>2 DEF Sorted, StartPcs
<1>4. pc[l] \in StopPcs \/ LockStop(l) \/ LockStopFails(l)
  BY DEF StopStep, CheckConsumers, FindStop, StopService, RemoveService,
         RemoveRunDir, StopFails, StopPcs
<1>5. CASE Stopped(l) /\ pc[l] \in StopPcs
  <2>1. /\ pc'[l] \in {"lockStop", "done"} /\ lock' = [lock EXCEPT ![s] = NoOne]
    BY <1>1, <1>5 DEF Stopped, NextToStop, TypeOK
  <2>2. Held(l) \subseteq {s}  BY <1>1, <1>5 DEF Holding, StartPcs, MainPcs, StopPcs
  <2>3. Held(l)' = {}  BY <1>1, <2>1, <2>2 DEF Held, TypeOK
  <2> QED  BY <2>1, <2>3 DEF Sorted, StartPcs
<1>6. CASE pc[l] \in StopPcs /\ pc'[l] \in StopPcs /\ todo'[l] = todo[l] /\ lock' = lock
  <2>1. Cur(l)' = Cur(l) /\ Held(l)' = Held(l)  BY <1>6 DEF Cur, Held
  <2>2. Holding(l) = {s} /\ Holding(l)' = {s}
    BY <1>6, <2>1 DEF Holding, StartPcs, MainPcs, StopPcs
  <2> QED  BY <1>1, <1>6, <2>1, <2>2 DEF Sorted, StartPcs, StopPcs
<1>7. \/ LockStop(l) \/ LockStopFails(l) \/ Stopped(l)
      \/ (pc[l] \in StopPcs /\ pc'[l] \in StopPcs /\ todo'[l] = todo[l] /\ lock' = lock)
  BY <1>1 DEF StopStep, CheckConsumers, FindStop, StopService, RemoveService,
         RemoveRunDir, StopFails, StopPcs, TypeOK
<1> QED  BY <1>2, <1>3, <1>4, <1>5, <1>6, <1>7

LEMMA HeldStep == ASSUME IInv, HeldInv, [Next]_vars PROVE HeldInv'
<1> SUFFICES ASSUME NEW m \in Launches PROVE (Held(m) \subseteq Holding(m) /\ Sorted(m))'
  BY DEF HeldInv
<1>1. TypeOK /\ Held(m) \subseteq Holding(m) /\ Sorted(m) /\ m # NoOne
  BY NoOneAssumption DEF IInv, HeldInv
<1>2. ASSUME NEW l \in Launches, Step(l) PROVE (Held(m) \subseteq Holding(m) /\ Sorted(m))'
  <2>1. CASE l = m  BY <1>2, <2>1, StartHolds, MainHolds, StopHolds DEF Step
  <2>2. CASE l # m  BY <1>1, <1>2, <2>2, StepIsItsOwn, UnaidedKeeps
  <2> QED  BY <2>1, <2>2
<1>3. CASE UNCHANGED <<pc, todo, lock>>
  BY <1>1, <1>3, UnaidedKeeps DEF Unaided
<1>4. ASSUME NEW l \in Launches, Begin(l) \/ SessionInterrupted(l) \/ Kill(l)
      PROVE  (Held(m) \subseteq Holding(m) /\ Sorted(m))'
  <2>1. CASE l # m  BY <1>1, <1>4, <2>1, StepIsItsOwn, UnaidedKeeps
  <2>2. CASE l = m
    <3>1. /\ pc'[m] \in {"ensureNetwork", "removeMain", "killed"}
          /\ \A s \in Services : lock'[s] # m
      <4>1. CASE Begin(m) \/ SessionInterrupted(m)
        <5>1. pc[m] \in {"idle", "session"} /\ lock' = lock /\ pc'[m] \in {"ensureNetwork", "removeMain"}
          BY <1>1, <4>1 DEF Begin, SessionInterrupted, TypeOK
        <5>2. Held(m) = {}  BY <1>1, <5>1 DEF Holding, StartPcs, MainPcs, StopPcs
        <5> QED  BY <5>1, <5>2 DEF Held
      <4>2. CASE Kill(m)  BY <1>1, <4>2 DEF Kill, Release, TypeOK
      <4> QED  BY <1>4, <2>2, <4>1, <4>2
    <3>2. Held(m)' = {}  BY <3>1 DEF Held
    <3> QED  BY <3>1, <3>2 DEF Sorted, StartPcs
  <2> QED  BY <2>1, <2>2
<1>5. CASE Environment
  <2>1. \/ UNCHANGED <<pc, todo, lock>>
        \/ \E l \in Launches : Begin(l) \/ SessionInterrupted(l) \/ Kill(l)
    BY <1>5 DEF Environment, MainExits, BudgetExpires, DaemonListens, DaemonExits
  <2> QED  BY <1>3, <1>4, <2>1
<1>6. CASE Finished \/ UNCHANGED vars
  BY <1>3, <1>6 DEF Finished
<1> QED  BY <1>2, <1>5, <1>6 DEF Next

LEMMA HeldAlways == Spec => [](IInv /\ HeldInv)
<1>1. Init => HeldInv
  <2> SUFFICES ASSUME Init, NEW l \in Launches PROVE Held(l) \subseteq Holding(l) /\ Sorted(l)
    BY Zenon DEF HeldInv
  <2>1. pc[l] = "idle" /\ \A s \in Services : lock[s] # l  BY NoOneAssumption DEF Init
  <2> QED  BY <2>1 DEF Held, Sorted, StartPcs
<1>2. IInv /\ HeldInv /\ [Next]_vars => HeldInv'  BY HeldStep
<1> QED  BY <1>1, <1>2, Inductive, PTL DEF Spec

(* A launch holds the locks its place in the start or stop step calls for  *)
(* and no other: none in its session, when it waits at the stop step, when *)
(* it is done or dead, whatever failed before (lockService, unlock).       *)
THEOREM LocksDoNotLeak == Spec => []LocksAreKnown
<1>1. IInv /\ HeldInv => LocksAreKnown
  <2> SUFFICES ASSUME IInv, HeldInv PROVE LocksAreKnown  OBVIOUS
  <2>1. ASSUME NEW l \in Launches, pc[l] # "abort" PROVE Held(l) = Holding(l)
    <3>1. /\ LockInv /\ TypeOK /\ LoopInv /\ Needs[l] \subseteq Services
          /\ Held(l) \subseteq Holding(l)
      BY NeedsAssumption DEF IInv, HeldInv
    <3>2. pc[l] \in StartPcs \cup StopPcs => Cur(l) \in Services
      BY <3>1, CurInTodo DEF LoopPcs
    <3>3. Holding(l) \subseteq Held(l)
      BY <2>1, <3>1, <3>2 DEF LockInv, Holding, Held, StartPcs, MainPcs, StopPcs
    <3> QED  BY <3>1, <3>3
  <2> QED  BY <2>1, Zenon DEF LocksAreKnown, HeldInv
<1> QED  BY <1>1, HeldAlways, PTL

-----------------------------------------------------------------------------
(* Nobody waits for somebody who waits for him.                            *)
Waiting(l) == pc[l] \in {"lockService", "lockStop"} /\ lock[Cur(l)] # NoOne
NoRing ==
  \A W \in SUBSET Launches :
    IsFiniteSet(W) /\ W # {} /\ (\A l \in W : Waiting(l)) => \E l \in W : lock[Cur(l)] \notin W

(* Of finitely many launches one waits for the last service in the order.  *)
LEMMA LastToWait ==
  ASSUME NEW W, IsFiniteSet(W), W # {}, NEW f, \A l \in W : f[l] \in Int
  PROVE  \E l \in W : \A m \in W : f[m] <= f[l]
<1> DEFINE After(l) == {m \in W : f[l] < f[m]}
           N == {Cardinality(After(l)) : l \in W}
           R == {p \in Nat \X Nat : p[1] < p[2]}
<1>1. \A l \in W : IsFiniteSet(After(l)) /\ Cardinality(After(l)) \in Nat
  <2>1. ASSUME NEW l \in W PROVE IsFiniteSet(After(l)) /\ Cardinality(After(l)) \in Nat
    <3>1. After(l) \in SUBSET W  OBVIOUS
    <3> HIDE DEF After
    <3> QED  BY <3>1, FS_Subset, FS_CardinalityType
  <2> QED  BY <2>1
<1> HIDE DEF After
<1>2. N \in SUBSET Nat /\ N # {}  BY <1>1
<1> HIDE DEF N
<1>3. IsWellFoundedOn(R, Nat)  BY NatLessThanWellFounded DEF OpToRel
<1>4. PICK n \in N : \A k \in N : <<k, n>> \notin R  BY <1>2, <1>3, WFMin, Zenon
<1>5. PICK l \in W : n = Cardinality(After(l))  BY <1>4 DEF N
<1>6. ASSUME NEW m \in W, ~(f[m] <= f[l]) PROVE FALSE
  <2>1. f[l] < f[m] /\ f[l] \in Int /\ f[m] \in Int  BY <1>6
  <2>2. After(m) \subseteq After(l) /\ m \in After(l) /\ m \notin After(m)
    BY <2>1 DEF After
  <2>3. Cardinality(After(m)) <= Cardinality(After(l)) /\ Cardinality(After(m)) # Cardinality(After(l))
    <3>1. IsFiniteSet(After(l)) /\ After(m) \in SUBSET After(l)  BY <1>1, <2>2
    <3>2. /\ Cardinality(After(m)) <= Cardinality(After(l))
          /\ Cardinality(After(l)) = Cardinality(After(m)) => After(m) = After(l)
      BY <3>1, FS_Subset
    <3> QED  BY <2>2, <3>2
  <2>4. Cardinality(After(m)) \in N /\ Cardinality(After(m)) \in Nat /\ n \in Nat
        /\ Cardinality(After(m)) < n
    BY <1>1, <1>5, <2>3 DEF N
  <2>5. <<Cardinality(After(m)), n>> \in R  BY <2>4
  <2> QED  BY <1>4, <2>4, <2>5
<1> QED  BY <1>6

(* What a waiting launch holds comes before what it waits for.             *)
LEMMA HeldBeforeWaited ==
  ASSUME IInv, HeldInv, NEW l \in Launches, Waiting(l), NEW s \in Services, lock[s] = l
  PROVE  s < Cur(l)
<1>1. TypeOK /\ LoopInv /\ Held(l) \subseteq Holding(l) /\ Sorted(l)  BY DEF IInv, HeldInv
<1>2. Cur(l) \in todo[l]
  <2>1. pc[l] \in LoopPcs  BY DEF Waiting, LoopPcs
  <2> QED  BY <1>1, <2>1, CurInTodo
<1>3. s \in Holding(l)  BY <1>1 DEF Held
<1>4. pc[l] = "lockService" /\ s \in Needs[l] \ todo[l]
  BY <1>3 DEF Waiting, Holding, StartPcs, MainPcs, StopPcs
<1> QED  BY <1>1, <1>2, <1>4 DEF Sorted

(* Locks are taken in sorted order, so no set of launches, in their start  *)
(* or their stop step, waits for its own members only, for any profiles    *)
(* and after any failure (StartServices, StopServices).                    *)
THEOREM NobodyWaitsInRing == Spec => []NoRing
<1>1. IInv /\ HeldInv => NoRing
  <2> SUFFICES ASSUME IInv, HeldInv, NEW W \in SUBSET Launches, IsFiniteSet(W), W # {},
                      \A l \in W : Waiting(l)
               PROVE  \E l \in W : lock[Cur(l)] \notin W
    BY DEF NoRing
  <2>1. ASSUME NEW l \in W PROVE Cur(l) \in Services /\ Cur(l) \in Int
    <3>1. pc[l] \in LoopPcs  BY DEF Waiting, LoopPcs
    <3>2. Cur(l) \in Services  BY <3>1, CurInTodo DEF IInv
    <3> QED  BY <3>2, ServicesAssumption
  <2> DEFINE f == [l \in W |-> Cur(l)]
  <2>2. PICK l \in W : \A m \in W : f[m] <= f[l]
    <3>1. \A l \in W : f[l] \in Int  BY <2>1
    <3> HIDE DEF f
    <3> QED  BY <3>1, LastToWait
  <2>3. lock[Cur(l)] \notin W
    <3> SUFFICES ASSUME lock[Cur(l)] \in W PROVE FALSE  OBVIOUS
    <3>1. PICK m \in W : m = lock[Cur(l)]  OBVIOUS
    <3>2. Cur(l) < Cur(m)  BY <2>1, <3>1, HeldBeforeWaited
    <3>3. Cur(m) <= Cur(l)  BY <2>2
    <3> QED  BY <2>1, <3>2, <3>3
  <2> QED  BY <2>3
<1> QED  BY <1>1, HeldAlways, PTL

(* So while anybody waits for a lock, some launch is in the middle of its  *)
(* start or stop step, not in its session, and waits for nobody.           *)
Working(m) == pc[m] \in StartPcs \cup MainPcs \cup StopPcs \cup {"abort"}
SomebodyWorks ==
  (\E l \in Launches : Waiting(l)) =>
    \E m \in Launches : Working(m) \/ (pc[m] = "lockService" /\ ~Waiting(m))
THEOREM WaitersWaitForWork ==
  ASSUME IsFiniteSet(Launches) PROVE Spec => []SomebodyWorks
<1>1. IInv /\ HeldInv /\ NoRing => SomebodyWorks
  <2> SUFFICES ASSUME IInv, HeldInv, NoRing, \E l \in Launches : Waiting(l)
               PROVE  \E m \in Launches : Working(m) \/ (pc[m] = "lockService" /\ ~Waiting(m))
    BY DEF SomebodyWorks
  <2> DEFINE W == {l \in Launches : Waiting(l)}
  <2>1. W \in SUBSET Launches /\ W # {} /\ IsFiniteSet(W)
    <3>1. W \in SUBSET Launches /\ W # {}  OBVIOUS
    <3> HIDE DEF W
    <3> QED  BY <3>1, FS_Subset
  <2>2. PICK l \in W : lock[Cur(l)] \notin W  BY <2>1 DEF NoRing
  <2>3. Cur(l) \in Services
    <3>1. pc[l] \in LoopPcs  BY DEF Waiting, LoopPcs
    <3> QED  BY <3>1, CurInTodo DEF IInv
  <2>4. PICK m \in Launches : m = lock[Cur(l)] /\ ~Waiting(m)
    BY <2>2, <2>3 DEF IInv, TypeOK, Waiting
  <2>5. Cur(l) \in Holding(m)  BY <2>3, <2>4 DEF HeldInv, Held
  <2>6. Working(m) \/ pc[m] = "lockService"  BY <2>5 DEF Holding, Working
  <2> QED  BY <2>4, <2>6
<1> QED  BY <1>1, HeldAlways, NobodyWaitsInRing, PTL
=============================================================================
