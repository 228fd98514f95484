-------------------------- MODULE ServiceLifecycle --------------------------
(***************************************************************************)
(* Companion services shared by concurrent launches of tpd.                *)
(*                                                                         *)
(* Each launch is one tpd process: it finds or starts the service          *)
(* containers its profile declares, creates its own main container, runs   *)
(* it, removes it, and then stops every service nobody consumes any more.  *)
(* Launches coordinate only through one flock per service and through what *)
(* the container engine lists.  A step of this model is one engine call    *)
(* (or one flock call): between two of them any other process may run.     *)
(*                                                                         *)
(* Source: internal/runtime/docker_services.go and the launch sequence in  *)
(* pkg/tpd/launch.go.                                                      *)
(***************************************************************************)
EXTENDS Integers

CONSTANTS
  Launches,   \* the tpd processes
  Services,   \* service names; integers, so that sorted order is <=
  Needs,      \* Needs[l]: the services the profile of launch l declares
  Hashes,     \* definition hashes
  Want,       \* Want[l][s]: the definition hash of s in the profile of l
  NoOne,      \* the owner of a free lock
  Faults      \* which disturbances happen; a subset of FaultKinds

FaultKinds == {"engine",   \* an engine or file call returns an error, without effect
               "kill",     \* a tpd process dies (SIGKILL, or ^C before RunContainer)
               "daemon",   \* a service container exits by itself
               "budget"}   \* the stop step's 30 s pass while it waits for a lock

(* Service names can be sorted: whatever is left to do has a first one.    *)
ASSUME ServicesAssumption ==
  /\ Services \subseteq Int
  /\ \A S \in (SUBSET Services) \ {{}} : \E s \in S : \A t \in S : s <= t
ASSUME NeedsAssumption == Needs \in [Launches -> (SUBSET Services) \ {{}}]
ASSUME WantAssumption == Want \in [Launches -> [Services -> Hashes]]
ASSUME NoOneAssumption == NoOne \notin Launches
ASSUME FaultsAssumption == Faults \subseteq FaultKinds

VARIABLES
  pc,         \* pc[l]: the engine call launch l makes next
  todo,       \* todo[l]: services the current loop of l still has to handle
  late,       \* launches whose stop context has expired
  lock,       \* lock[s]: the launch that holds the flock of s
  state,      \* state[s]: the container with the service's name
  hash,       \* hash[s]: its tpd.service-hash label
  attached,   \* attached[s]: it is on the tpd-services network
  socket,     \* socket[s]: the exposed socket on the host
  main,       \* main[l]: the main container of l
  linked      \* linked[l]: services whose listening socket l's container mounts

launchVars  == <<pc, todo, late>>
serviceVars == <<state, hash, attached, socket>>
mainVars    == <<main, linked>>
vars == <<launchVars, lock, serviceVars, mainVars>>

StartPcs == {"findService", "removeStraggler", "reuseService", "stopStale",
             "removeStale", "prepareService", "createService", "startService",
             "probe", "attachService", "cleanupService"}
MainPcs  == {"createMain", "connectMain", "release"}
StopPcs  == {"checkConsumers", "findStop", "stopService", "removeService", "removeRunDir"}
Pcs      == {"idle", "ensureNetwork", "lockService", "abort", "startMain", "session",
             "removeMain", "lockStop", "done", "killed"}
              \cup StartPcs \cup MainPcs \cup StopPcs

TypeOK ==
  /\ pc \in [Launches -> Pcs]
  /\ todo \in [Launches -> SUBSET Services]
  /\ late \subseteq Launches
  /\ lock \in [Services -> Launches \cup {NoOne}]
  /\ state \in [Services -> {"absent", "created", "running", "exited", "foreign"}]
  /\ hash \in [Services -> Hashes]
  /\ attached \in [Services -> BOOLEAN]
  /\ socket \in [Services -> {"none", "dead", "live"}]
  /\ main \in [Launches -> {"none", "created", "running", "exited"}]
  /\ linked \in [Launches -> SUBSET Services]

-----------------------------------------------------------------------------
(* Every loop over services goes in sorted name order.                     *)
Least(S) == CHOOSE s \in S : \A t \in S : s <= t

(* Mutant: map iteration order, which differs from process to process.     *)
CurInMapOrder(l) ==
  IF l = CHOOSE m \in Launches : TRUE
  THEN Least(todo[l])
  ELSE CHOOSE s \in todo[l] : \A t \in todo[l] : t <= s

Cur(l) == Least(todo[l])

Up(l) == main[l] \in {"created", "running"}

(* Mutant: only running containers count.                                  *)
RunningConsumers(s) == {l \in Launches : main[l] = "running" /\ s \in Needs[l]}

(* serviceConsumers: containers labelled tpd.uses-service with s that have *)
(* not exited; created ones count.                                         *)
Consumers(s) == {l \in Launches : Up(l) /\ s \in Needs[l]}

(* The case switch of startService for a running container.                *)
Reusable(l, s) == hash[s] = Want[l][s] /\ socket[s] # "none"

At(l, p)   == pc[l] = p
Goto(l, p) == pc' = [pc EXCEPT ![l] = p] /\ UNCHANGED <<todo, late>>
Engine     == "engine" \in Faults

Release(l) == lock' = [s \in Services |-> IF lock[s] = l THEN NoOne ELSE lock[s]]

(* LaunchWithWriter's deferred StopServices begins.                        *)
EnterStop(l) ==
  /\ pc' = [pc EXCEPT ![l] = "lockStop"]
  /\ todo' = [todo EXCEPT ![l] = Needs[l]]
  /\ UNCHANGED late

(* startService returned nil: the next service, or the main container.     *)
Started(l) ==
  /\ todo' = [todo EXCEPT ![l] = @ \ {Cur(l)}]
  /\ pc' = [pc EXCEPT ![l] = IF todo[l] = {Cur(l)} THEN "createMain" ELSE "lockService"]
  /\ UNCHANGED late

(* stopService returned, with or without an error: the next service.       *)
NextToStop(l) ==
  /\ todo' = [todo EXCEPT ![l] = @ \ {Cur(l)}]
  /\ pc' = [pc EXCEPT ![l] = IF todo[l] = {Cur(l)} THEN "done" ELSE "lockStop"]
  /\ UNCHANGED late

(* Mutant: the early return forgets the lock.                              *)
StoppedStillLocked(l) == NextToStop(l) /\ UNCHANGED lock

Stopped(l) == NextToStop(l) /\ lock' = [lock EXCEPT ![Cur(l)] = NoOne]

(* What the engine does with the service container.                        *)
SetState(s, v) == state' = [state EXCEPT ![s] = v]
LosesSocket(s) == socket' = [socket EXCEPT ![s] = IF @ = "live" THEN "dead" ELSE @]
Unlinked(s)    == linked' = [l \in Launches |-> linked[l] \ {s}]
Remove(s) ==
  /\ SetState(s, "absent")
  /\ attached' = [attached EXCEPT ![s] = FALSE]
  /\ LosesSocket(s) /\ Unlinked(s)
  /\ UNCHANGED <<hash, main>>

Stop(s) ==
  /\ SetState(s, IF state[s] = "running" THEN "exited" ELSE state[s])
  /\ LosesSocket(s) /\ Unlinked(s)
  /\ UNCHANGED <<hash, attached, main>>

-----------------------------------------------------------------------------
(* A launch starts its services.                                           *)

Begin(l) ==
  /\ At(l, "idle")
  /\ pc' = [pc EXCEPT ![l] = "ensureNetwork"]
  /\ todo' = [todo EXCEPT ![l] = Needs[l]]
  /\ UNCHANGED <<late, lock, serviceVars, mainVars>>

(* Before any lock is taken; on an error only the deferred stop remains.   *)
EnsureNetwork(l) ==
  /\ At(l, "ensureNetwork")
  /\ \/ Goto(l, "lockService")
     \/ Engine /\ EnterStop(l)
  /\ UNCHANGED <<lock, serviceVars, mainVars>>

LockService(l) ==
  /\ At(l, "lockService")
  /\ lock[Cur(l)] = NoOne
  /\ lock' = [lock EXCEPT ![Cur(l)] = l]
  /\ Goto(l, "findService")
  /\ UNCHANGED <<serviceVars, mainVars>>

(* Mutant: the name alone decides, the ownership labels are not looked at. *)
FindServiceByName(l) ==
  /\ At(l, "findService")
  /\ LET s == Cur(l)
     IN \/ state[s] = "absent" /\ Goto(l, "prepareService")
        \/ state[s] \in {"created", "exited", "foreign"} /\ Goto(l, "removeStraggler")
        \/ state[s] = "running" /\ Reusable(l, s) /\ Goto(l, "reuseService")
        \/ state[s] = "running" /\ ~Reusable(l, s) /\ Goto(l, "stopStale")
  /\ UNCHANGED <<lock, serviceVars, mainVars>>

FindService(l) ==
  /\ At(l, "findService")
  /\ LET s == Cur(l)
     IN \/ state[s] = "foreign" /\ Goto(l, "abort")
        \/ state[s] = "absent" /\ Goto(l, "prepareService")
        \/ state[s] \in {"created", "exited"} /\ Goto(l, "removeStraggler")
        \/ state[s] = "running" /\ Reusable(l, s) /\ Goto(l, "reuseService")
        \/ state[s] = "running" /\ ~Reusable(l, s) /\ Goto(l, "stopStale")
  /\ UNCHANGED <<lock, serviceVars, mainVars>>

RemoveStraggler(l) ==
  /\ At(l, "removeStraggler")
  /\ Remove(Cur(l))
  /\ Goto(l, "prepareService")
  /\ UNCHANGED lock

(* Mutant: a reused container is taken as it is.                           *)
ReuseServiceAsIs(l) ==
  /\ At(l, "reuseService")
  /\ Started(l)
  /\ UNCHANGED <<lock, serviceVars, mainVars>>

(* Pull if asked, attach the container to the network if it is not.        *)
ReuseService(l) ==
  /\ At(l, "reuseService")
  /\ attached' = [attached EXCEPT ![Cur(l)] = TRUE]
  /\ Started(l)
  /\ UNCHANGED <<lock, state, hash, socket, mainVars>>

StopStale(l) ==
  /\ At(l, "stopStale")
  /\ Stop(Cur(l))
  /\ Goto(l, "removeStale")
  /\ UNCHANGED lock

RemoveStale(l) ==
  /\ At(l, "removeStale")
  /\ Remove(Cur(l))
  /\ Goto(l, "prepareService")
  /\ UNCHANGED lock

(* Image, derived image, cache volumes, run dir; a socket the predecessor  *)
(* left is unlinked, unless that is not permitted, which is tolerated.     *)
PrepareService(l) ==
  /\ At(l, "prepareService")
  /\ \/ socket' = [socket EXCEPT ![Cur(l)] = "none"]
     \/ UNCHANGED socket
  /\ Goto(l, "createService")
  /\ UNCHANGED <<lock, state, hash, attached, mainVars>>

CreateService(l) ==
  /\ At(l, "createService")
  /\ SetState(Cur(l), "created")
  /\ hash' = [hash EXCEPT ![Cur(l)] = Want[l][Cur(l)]]
  /\ Goto(l, "startService")
  /\ UNCHANGED <<lock, attached, socket, mainVars>>

StartService(l) ==
  /\ At(l, "startService")
  /\ SetState(Cur(l), "running")
  /\ Goto(l, "probe")
  /\ UNCHANGED <<lock, hash, attached, socket, mainVars>>

(* waitForServiceSocket: connect() succeeds, or 30 s pass.                 *)
Probe(l) ==
  /\ At(l, "probe")
  /\ \/ socket[Cur(l)] = "live" /\ Goto(l, "attachService")
     \/ socket[Cur(l)] # "live" /\ Goto(l, "cleanupService")
  /\ UNCHANGED <<lock, serviceVars, mainVars>>

AttachService(l) ==
  /\ At(l, "attachService")
  /\ attached' = [attached EXCEPT ![Cur(l)] = TRUE]
  /\ Started(l)
  /\ UNCHANGED <<lock, state, hash, socket, mainVars>>

(* createService's cleanup closure: a failed removal is only warned about. *)
CleanupService(l) ==
  /\ At(l, "cleanupService")
  /\ \/ Remove(Cur(l))
     \/ Engine /\ UNCHANGED <<serviceVars, mainVars>>
  /\ Goto(l, "abort")
  /\ UNCHANGED lock

(* Opening a lock file or an engine call of startService fails: before the *)
(* container exists the error returns at once, afterwards the cleanup      *)
(* closure runs first.                                                     *)
StartFails(l) ==
  /\ Engine
  /\ \/ /\ pc[l] \in {"lockService", "findService", "removeStraggler", "reuseService",
                      "stopStale", "removeStale", "prepareService", "createService"}
        /\ Goto(l, "abort")
     \/ pc[l] \in {"startService", "attachService"} /\ Goto(l, "cleanupService")
  /\ UNCHANGED <<lock, serviceVars, mainVars>>

-----------------------------------------------------------------------------
(* The main container.                                                     *)

(* ContainerCreate puts the tpd.uses-service label on it.                  *)
CreateMain(l) ==
  /\ At(l, "createMain")
  /\ main' = [main EXCEPT ![l] = "created"]
  /\ Goto(l, "connectMain")
  /\ UNCHANGED <<lock, serviceVars, linked>>

(* No container is created, or its files cannot be written and it is       *)
(* removed again, a removal whose own failure is ignored.                  *)
CreateMainFails(l) ==
  /\ At(l, "createMain") /\ Engine
  /\ \/ UNCHANGED main
     \/ main' = [main EXCEPT ![l] = "created"]
  /\ Goto(l, "abort")
  /\ UNCHANGED <<lock, serviceVars, linked>>

ConnectMain(l) ==
  /\ At(l, "connectMain")
  /\ \/ Goto(l, "release") /\ UNCHANGED main
     \/ /\ Engine
        /\ \/ main' = [main EXCEPT ![l] = "none"]
           \/ UNCHANGED main
        /\ Goto(l, "abort")
  /\ UNCHANGED <<lock, serviceVars, linked>>

ReleaseLocks(l) ==
  /\ At(l, "release")
  /\ Release(l)
  /\ Goto(l, "startMain")
  /\ UNCHANGED <<serviceVars, mainVars>>

(* Mutant: the stop step is registered only once StartServices succeeded.  *)
AbortWithoutStop(l) ==
  /\ At(l, "abort")
  /\ Release(l)
  /\ Goto(l, "done")
  /\ UNCHANGED <<serviceVars, mainVars>>

(* Every error path releases what is held; then the deferred stop runs.    *)
Abort(l) ==
  /\ At(l, "abort")
  /\ Release(l)
  /\ EnterStop(l)
  /\ UNCHANGED <<serviceVars, mainVars>>

(* The engine resolves the socket bind mounts when the container starts;   *)
(* it cannot start on a missing source.                                    *)
StartMain(l) ==
  /\ At(l, "startMain")
  /\ \A s \in Needs[l] : socket[s] # "none"
  /\ main' = [main EXCEPT ![l] = "running"]
  /\ linked' = [linked EXCEPT ![l] = {s \in Needs[l] : socket[s] = "live"}]
  /\ Goto(l, "session")
  /\ UNCHANGED <<lock, serviceVars>>

StartMainFails(l) ==
  /\ At(l, "startMain")
  /\ Engine \/ \E s \in Needs[l] : socket[s] = "none"
  /\ Goto(l, "removeMain")
  /\ UNCHANGED <<lock, serviceVars, mainVars>>

(* The command in a main container ends, watched by a tpd or not.          *)
MainExits(l) ==
  /\ main[l] = "running"
  /\ main' = [main EXCEPT ![l] = "exited"]
  /\ linked' = [linked EXCEPT ![l] = {}]
  /\ UNCHANGED <<launchVars, lock, serviceVars>>

SessionReturns(l) ==
  /\ At(l, "session") /\ main[l] = "exited"
  /\ Goto(l, "removeMain")
  /\ UNCHANGED <<lock, serviceVars, mainVars>>

(* A forwarded signal outlasts its grace period, or attach or wait fails.  *)
SessionInterrupted(l) ==
  /\ At(l, "session") /\ main[l] = "running"
  /\ Goto(l, "removeMain")
  /\ UNCHANGED <<lock, serviceVars, mainVars>>

RemoveMain(l) ==
  /\ At(l, "removeMain")
  /\ \/ /\ main' = [main EXCEPT ![l] = "none"]
        /\ linked' = [linked EXCEPT ![l] = {}]
     \/ Engine /\ UNCHANGED mainVars
  /\ EnterStop(l)
  /\ UNCHANGED <<lock, serviceVars>>

-----------------------------------------------------------------------------
(* The stop step: one service at a time, each under its own lock.          *)

LockStop(l) ==
  /\ At(l, "lockStop")
  /\ lock[Cur(l)] = NoOne
  /\ lock' = [lock EXCEPT ![Cur(l)] = l]
  /\ Goto(l, "checkConsumers")
  /\ UNCHANGED <<serviceVars, mainVars>>

(* The lock file cannot be opened: the service is left to others.          *)
LockStopFails(l) ==
  /\ At(l, "lockStop") /\ Engine
  /\ NextToStop(l)
  /\ UNCHANGED <<lock, serviceVars, mainVars>>

(* flock ignores the 30 s context the stop step runs under.                *)
BudgetExpires(l) ==
  /\ "budget" \in Faults
  /\ At(l, "lockStop") /\ lock[Cur(l)] # NoOne /\ l \notin late
  /\ late' = late \cup {l}
  /\ UNCHANGED <<pc, todo, lock, serviceVars, mainVars>>

(* Mutant: every launch stops its services when it ends.                   *)
CheckNobody(l) ==
  /\ At(l, "checkConsumers") /\ l \notin late
  /\ Goto(l, "findStop")
  /\ UNCHANGED <<lock, serviceVars, mainVars>>

CheckConsumers(l) ==
  /\ At(l, "checkConsumers") /\ l \notin late
  /\ \/ Consumers(Cur(l)) # {} /\ Stopped(l)
     \/ Consumers(Cur(l)) = {} /\ Goto(l, "findStop") /\ UNCHANGED lock
  /\ UNCHANGED <<serviceVars, mainVars>>

FindStop(l) ==
  /\ At(l, "findStop")
  /\ LET s == Cur(l)
     IN \/ state[s] = "foreign" /\ Stopped(l)
        \/ state[s] = "absent" /\ Goto(l, "removeRunDir") /\ UNCHANGED lock
        \/ state[s] \notin {"foreign", "absent"} /\ Goto(l, "stopService") /\ UNCHANGED lock
  /\ UNCHANGED <<serviceVars, mainVars>>

StopService(l) ==
  /\ At(l, "stopService")
  /\ Stop(Cur(l))
  /\ Goto(l, "removeService")
  /\ UNCHANGED lock

RemoveService(l) ==
  /\ At(l, "removeService")
  /\ Remove(Cur(l))
  /\ Goto(l, "removeRunDir")
  /\ UNCHANGED lock

(* A run dir the service chowned may resist removal: an error, no more.    *)
RemoveRunDir(l) ==
  /\ At(l, "removeRunDir")
  /\ \/ socket' = [socket EXCEPT ![Cur(l)] = "none"]
     \/ Engine /\ UNCHANGED socket
  /\ Stopped(l)
  /\ UNCHANGED <<state, hash, attached, mainVars>>

(* An engine call of stopService fails, always so once the context has     *)
(* expired: the error is kept for the warning and the next service follows.*)
StopFails(l) ==
  /\ pc[l] \in {"checkConsumers", "findStop", "stopService", "removeService"}
  /\ Engine \/ l \in late
  /\ Stopped(l)
  /\ UNCHANGED <<serviceVars, mainVars>>

-----------------------------------------------------------------------------
(* The surroundings.                                                       *)

(* The daemon in a service container binds its socket and listens.         *)
DaemonListens(s) ==
  /\ state[s] = "running" /\ socket[s] # "live"
  /\ socket' = [socket EXCEPT ![s] = "live"]
  /\ UNCHANGED <<launchVars, lock, state, hash, attached, mainVars>>

DaemonExits(s) ==
  /\ "daemon" \in Faults /\ state[s] = "running"
  /\ SetState(s, "exited")
  /\ LosesSocket(s) /\ Unlinked(s)
  /\ UNCHANGED <<launchVars, lock, hash, attached, main>>

(* The kernel releases the locks of a dead process; containers stay.       *)
Kill(l) ==
  /\ "kill" \in Faults /\ pc[l] \notin {"idle", "done", "killed"}
  /\ pc' = [pc EXCEPT ![l] = "killed"]
  /\ Release(l)
  /\ UNCHANGED <<todo, late, serviceVars, mainVars>>

-----------------------------------------------------------------------------
(* What an earlier, possibly killed, tpd may have left under the name of a *)
(* service, or a container somebody else created there.                    *)
Init ==
  /\ pc = [l \in Launches |-> "idle"]
  /\ todo = [l \in Launches |-> {}]
  /\ late = {}
  /\ lock = [s \in Services |-> NoOne]
  /\ state \in [Services -> {"absent", "running", "exited", "foreign"}]
  /\ hash \in [Services -> Hashes]
  /\ attached \in [Services -> BOOLEAN]
  /\ \A s \in Services : attached[s] => state[s] = "running"
  /\ socket \in [Services -> {"none", "dead"}]
  /\ main = [l \in Launches |-> "none"]
  /\ linked = [l \in Launches |-> {}]

StartStep(l) ==
  \/ EnsureNetwork(l) \/ LockService(l) \/ FindService(l) \/ RemoveStraggler(l)
  \/ ReuseService(l) \/ StopStale(l) \/ RemoveStale(l) \/ PrepareService(l)
  \/ CreateService(l) \/ StartService(l) \/ Probe(l) \/ AttachService(l)
  \/ CleanupService(l) \/ StartFails(l)

MainStep(l) ==
  \/ CreateMain(l) \/ CreateMainFails(l) \/ ConnectMain(l) \/ ReleaseLocks(l)
  \/ Abort(l) \/ StartMain(l) \/ StartMainFails(l) \/ SessionReturns(l) \/ RemoveMain(l)

StopStep(l) ==
  \/ LockStop(l) \/ LockStopFails(l) \/ CheckConsumers(l) \/ FindStop(l)
  \/ StopService(l) \/ RemoveService(l) \/ RemoveRunDir(l) \/ StopFails(l)

(* The steps a live tpd takes by itself.                                   *)
Step(l) == StartStep(l) \/ MainStep(l) \/ StopStep(l)

Environment ==
  \/ \E l \in Launches : Begin(l) \/ MainExits(l) \/ SessionInterrupted(l)
                           \/ BudgetExpires(l) \/ Kill(l)
  \/ \E s \in Services : DaemonListens(s) \/ DaemonExits(s)

(* Every tpd has returned or died: the system may stop here, nowhere else. *)
Finished == (\A l \in Launches : pc[l] \in {"done", "killed"}) /\ UNCHANGED vars

Next == (\E l \in Launches : Step(l)) \/ Environment \/ Finished

Spec == Init /\ [][Next]_vars

(* A process that can run does run; nobody has to end a session, start a   *)
(* launch, or make a daemon listen.                                        *)
Fairness == \A l \in Launches : WF_vars(Step(l))

FairSpec == Spec /\ Fairness

-----------------------------------------------------------------------------
(* Properties.                                                             *)

(* A decision of the stop step stays right until it is carried out: from   *)
(* the moment stopService has counted no consumer until it has stopped and *)
(* removed the container and its run dir, no main container that uses the  *)
(* service can appear.  Holds because StartServices keeps the service's    *)
(* flock until the main container exists and is labelled.                  *)
StopDecisionStands ==
  \A l \in Launches :
    pc[l] \in {"findStop", "stopService", "removeService", "removeRunDir"}
      => \A m \in Launches : Up(m) => Cur(l) \notin Needs[m]

(* tpd never stops, removes, replaces or connects a container that has the *)
(* name of a service but not tpd's labels (findServiceContainer).          *)
ForeignUntouched ==
  [][\A s \in Services :
       state[s] = "foreign" => state'[s] = "foreign" /\ attached'[s] = attached[s]]_vars

(* All launches that share a service agree on its definition.              *)
Uniform == \A l, m \in Launches : \A s \in Needs[l] \cap Needs[m] : Want[l][s] = Want[m][s]

(* While launches agree on the definitions and daemons do not crash, every *)
(* service a running main container declares is up for it: the container   *)
(* runs, is on the network and has the wanted definition.  No other        *)
(* launch's start, failure, stop step or death changes that.               *)
ConsumersAreServed ==
  Uniform /\ "daemon" \notin Faults =>
    \A l \in Launches : main[l] = "running" =>
      \A s \in Needs[l] : state[s] = "running" /\ attached[s] /\ hash[s] = Want[l][s]

(* Under the same premises a socket mounted in a running main container    *)
(* stays the socket of the serving daemon: no launch replaces it.          *)
MountsStayLive ==
  [][Uniform /\ "daemon" \notin Faults =>
       \A l \in Launches : main[l] = "running" /\ main'[l] = "running"
                             => linked[l] \subseteq linked'[l]]_vars

(* Unless calls fail, launches are killed or stop budgets run out, a       *)
(* service container that tpd started always has a                         *)
(* keeper: a launch that declares it and has its stop step still ahead.    *)
(* So the last launch to leave takes the service with it, whatever the     *)
(* order in which sessions end and stop steps interleave.                  *)
KeeperOf(s) == {l \in Launches : /\ s \in Needs[l]
                                 /\ pc[l] # "done"
                                 /\ pc[l] \in StopPcs \cup {"lockStop"} => s \in todo[l]}
ServicesHaveKeepers ==
  \A s \in Services : state[s] \in {"created", "running", "exited"} => KeeperOf(s) # {}

(* A launch that waits for a lock is not kept waiting by somebody's        *)
(* session: it gets through its start phase or fails, although nobody is   *)
(* obliged to end a session.  Holds because the locks are taken in sorted  *)
(* order and released before RunContainer.                                 *)
LocksAreGranted ==
  \A l \in Launches : (pc[l] = "lockService") ~> (pc[l] \in {"startMain", "lockStop"})
StopStepEnds ==
  \A l \in Launches : (pc[l] = "lockStop") ~> (pc[l] = "done")

(* What the documentation says, which the code does not do in every case.  *)

(* README.md:233: the consumers of a service that is replaced see "a brief *)
(* outage".  So once no launch works on the service any more and it is     *)
(* listening again, its running consumers are connected to it again.       *)
OutageIsBrief ==
  \A l \in Launches : main[l] = "running" =>
    \A s \in Needs[l] : lock[s] = NoOne /\ socket[s] = "live" => s \in linked[l]

-----------------------------------------------------------------------------
(* Launches that agree use the services as SharedService promises.         *)
Shared == INSTANCE SharedService WITH
            Clients <- Launches,
            up      <- {s \in Services : state[s] = "running"},
            using   <- {l \in Launches : Up(l)}

(* Every behaviour of the launches is one of the contract.  The premises   *)
(* (Uniform, no daemon fault) hold in the configuration of the run and are *)
(* assumptions of the theorem.                                             *)
ImplementsSharedService == Shared!Spec
=============================================================================
