----------------------------- MODULE Resources -----------------------------
(***************************************************************************)
(* What launches prepare in the engine before their container runs: the    *)
(* cache volumes with their directories, the derived image, the network of *)
(* the services.  One action per engine or flock call.                     *)
(*                                                                         *)
(* Source: internal/runtime/docker_prepare.go, docker_build.go,            *)
(* docker_network.go, and the part of pkg/tpd/launch.go that calls them.   *)
(***************************************************************************)
CONSTANTS
  Profiles,
  Volumes,    \* cache volumes
  Caches,     \* Caches[p]: the volumes profile p declares
  Packaged,   \* the profiles that declare packages or repos
  Connected,  \* the profiles that declare services
  Launches,
  ProfileOf,  \* ProfileOf[l]: what launch l launches
  Pulls,      \* the launches with --pull
  Bases,      \* contents the base image may have
  Absent,     \* no image under that name
  Nobody      \* the holder of a free lock

ASSUME CachesAssumption == Caches \in [Profiles -> SUBSET Volumes]
ASSUME PackagedAssumption == Packaged \subseteq Profiles /\ Connected \subseteq Profiles
ASSUME LaunchesAssumption == ProfileOf \in [Launches -> Profiles] /\ Pulls \subseteq Launches
ASSUME AbsentAssumption == Absent \notin Bases
ASSUME NobodyAssumption == Nobody \notin Launches

VARIABLES
  catalog,   \* catalog[p]: what loading and resolving profile p gives
  base,      \* the content of the base image
  changed,   \* history: a profile was edited or the base image replaced
  images,    \* the tags of derived images
  volumes,   \* the volumes there are
  owned,     \* those labelled as tpd's
  filled,    \* those in which the directories for subpaths exist
  network,   \* the network of the services exists
  lock,      \* lock[t]: who has the build lock of tag t
  pc,        \* pc[l]: the call launch l makes next
  id,        \* id[l]: the content of the base image it has resolved
  todo,      \* todo[l]: volumes it still has to ensure
  helper,    \* helper[l]: the goroutine that makes the directories
  ctr,       \* ctr[l]: its main container
  attached   \* attached[l]: its service runs in the network

engineVars == <<images, volumes, owned, filled, network>>
launchVars == <<pc, id, todo, helper, ctr, attached>>
resourceVars == <<catalog, base, changed, engineVars, lock, launchVars>>

(* "bad": its file is skipped by the tolerant loader, or it does not       *)
(* resolve.                                                                *)
Status == {"ok", "bad", "gone"}
(* DerivedTag: the packages of a profile on a content of the base image.   *)
Tags == [profile : Packaged, base : Bases]
TagOf(l) == [profile |-> ProfileOf[l], base |-> id[l]]
CachesOf(l) == Caches[ProfileOf[l]]
Derives(l) == ProfileOf[l] \in Packaged

Calls == {"resolve", "exists", "pull", "base", "volume", "look", "lock", "again", "build", "drain", "join", "inspect",
          "createNet", "reinspect", "attach", "create", "connect", "start", "run", "remove"}
Ends == {"ended", "failed", "noImage", "noVolume", "noNetwork"}

At(l, p) == pc[l] = p
Goto(l, p) == pc' = [pc EXCEPT ![l] = p]
Unlocked(l) == [t \in Tags |-> IF lock[t] = l THEN Nobody ELSE lock[t]]

(* The engine's references: a container holds its volumes in any state.    *)
Holds(l, v) == v \in CachesOf(l) /\ (ctr[l] # "none" \/ helper[l] \in {"mkdir", "remove"})
RunsOn(l, t) == ctr[l] = "running" /\ Derives(l) /\ TagOf(l) = t

-----------------------------------------------------------------------------
(* Prepare.                                                                *)

Resolve(l) ==
  /\ At(l, "resolve")
  /\ Goto(l, IF catalog[ProfileOf[l]] # "ok" THEN "failed" ELSE IF l \in Pulls THEN "pull" ELSE "exists")
  /\ UNCHANGED <<catalog, base, changed, engineVars, lock, id, todo, helper, ctr, attached>>

BaseExists(l) ==
  /\ At(l, "exists") /\ Goto(l, IF base = Absent THEN "pull" ELSE "base")
  /\ UNCHANGED <<catalog, base, changed, engineVars, lock, id, todo, helper, ctr, attached>>

(* The registry may have any content by now.                               *)
Pull(l) ==
  /\ At(l, "pull") /\ Goto(l, "base")
  /\ base' \in Bases
  /\ changed' = (changed \/ (base # Absent /\ base' # base))
  /\ UNCHANGED <<catalog, engineVars, lock, id, todo, helper, ctr, attached>>

(* The helper goroutine starts, and the derived image is looked for.       *)
Fork(l) ==
  /\ helper' = [helper EXCEPT ![l] = IF CachesOf(l) = {} THEN "done" ELSE "create"]
  /\ Goto(l, IF Derives(l) THEN "look" ELSE "join")

ResolveBase(l) ==
  /\ At(l, "base") /\ base # Absent
  /\ id' = [id EXCEPT ![l] = base]
  /\ todo' = [todo EXCEPT ![l] = CachesOf(l)]
  /\ IF CachesOf(l) = {} THEN Fork(l) ELSE Goto(l, "volume") /\ UNCHANGED helper
  /\ UNCHANGED <<catalog, base, changed, engineVars, lock, ctr, attached>>

(* EnsureVolume labels what it creates, and only that.                     *)
EnsureVolume(l) ==
  /\ At(l, "volume")
  /\ \E v \in todo[l] :
       /\ volumes' = volumes \cup {v}
       /\ owned' = IF v \in volumes THEN owned ELSE owned \cup {v}
       /\ todo' = [todo EXCEPT ![l] = @ \ {v}]
  /\ IF todo'[l] = {} THEN Fork(l) ELSE UNCHANGED <<pc, helper>>
  /\ UNCHANGED <<catalog, base, changed, images, filled, network, lock, id, ctr, attached>>

(* Creating a container creates the volumes that are missing, unlabelled   *)
(* and empty.                                                              *)
MountVolumes(l) == volumes' = volumes \cup CachesOf(l)

CreateHelper(l) ==
  /\ helper[l] = "create" /\ helper' = [helper EXCEPT ![l] = "mkdir"]
  /\ MountVolumes(l)
  /\ UNCHANGED <<catalog, base, changed, images, owned, filled, network, lock, pc, id, todo, ctr, attached>>

RunHelper(l) ==
  /\ helper[l] = "mkdir" /\ helper' = [helper EXCEPT ![l] = "remove"]
  /\ filled' = filled \cup CachesOf(l)
  /\ UNCHANGED <<catalog, base, changed, images, volumes, owned, network, lock, pc, id, todo, ctr, attached>>

RemoveHelper(l) ==
  /\ helper[l] = "remove" /\ helper' = [helper EXCEPT ![l] = "done"]
  /\ UNCHANGED <<catalog, base, changed, engineVars, lock, pc, id, todo, ctr, attached>>

HelperFails(l) ==
  /\ helper[l] \in {"create", "mkdir"} /\ helper' = [helper EXCEPT ![l] = "broken"]
  /\ UNCHANGED <<catalog, base, changed, engineVars, lock, pc, id, todo, ctr, attached>>

LookUp(l) ==
  /\ At(l, "look") /\ Goto(l, IF TagOf(l) \in images THEN "join" ELSE "lock")
  /\ UNCHANGED <<catalog, base, changed, engineVars, lock, id, todo, helper, ctr, attached>>

LockTag(l) ==
  /\ At(l, "lock") /\ lock[TagOf(l)] = Nobody
  /\ lock' = [lock EXCEPT ![TagOf(l)] = l] /\ Goto(l, "again")
  /\ UNCHANGED <<catalog, base, changed, engineVars, id, todo, helper, ctr, attached>>

(* Mutant: no second look.                                                 *)
LookOnce(l) ==
  /\ At(l, "again") /\ Goto(l, "build")
  /\ UNCHANGED <<catalog, base, changed, engineVars, lock, id, todo, helper, ctr, attached>>

(* Somebody else may have built it while this launch waited.               *)
LookAgain(l) ==
  /\ At(l, "again")
  /\ IF TagOf(l) \in images THEN Goto(l, "join") /\ lock' = Unlocked(l)
     ELSE Goto(l, "build") /\ UNCHANGED lock
  /\ UNCHANGED <<catalog, base, changed, engineVars, id, todo, helper, ctr, attached>>

(* The build publishes its tag when it is through.                         *)
Build(l) ==
  /\ At(l, "build") /\ Goto(l, "join")
  /\ images' = images \cup {TagOf(l)} /\ lock' = Unlocked(l)
  /\ UNCHANGED <<catalog, base, changed, volumes, owned, filled, network, id, todo, helper, ctr, attached>>

(* Prepare waits for the helper before it returns, with an error too.      *)
Join(l) ==
  /\ At(l, "join") /\ helper[l] \in {"done", "broken"}
  /\ Goto(l, IF helper[l] = "broken" THEN "failed"
             ELSE IF ProfileOf[l] \in Connected THEN "inspect" ELSE "create")
  /\ UNCHANGED <<catalog, base, changed, engineVars, lock, id, todo, helper, ctr, attached>>

Drain(l) ==
  /\ At(l, "drain") /\ helper[l] \in {"done", "broken"} /\ Goto(l, "failed")
  /\ UNCHANGED <<catalog, base, changed, engineVars, lock, id, todo, helper, ctr, attached>>

-----------------------------------------------------------------------------
(* The network and the service in it.                                      *)

InspectNetwork(l) ==
  /\ At(l, "inspect") /\ Goto(l, IF network THEN "attach" ELSE "createNet")
  /\ UNCHANGED <<catalog, base, changed, engineVars, lock, id, todo, helper, ctr, attached>>

(* Mutant: a conflict is an error like any other.                          *)
CreateNetworkOnce(l) ==
  /\ At(l, "createNet") /\ network' = TRUE
  /\ Goto(l, IF network THEN "noNetwork" ELSE "attach")
  /\ UNCHANGED <<catalog, base, changed, images, volumes, owned, filled, lock, id, todo, helper, ctr, attached>>

(* Whoever loses the race to create it looks at the winner's.              *)
CreateNetwork(l) ==
  /\ At(l, "createNet") /\ network' = TRUE
  /\ Goto(l, IF network THEN "reinspect" ELSE "attach")
  /\ UNCHANGED <<catalog, base, changed, images, volumes, owned, filled, lock, id, todo, helper, ctr, attached>>

ReinspectNetwork(l) ==
  /\ At(l, "reinspect") /\ Goto(l, IF network THEN "attach" ELSE "noNetwork")
  /\ UNCHANGED <<catalog, base, changed, engineVars, lock, id, todo, helper, ctr, attached>>

AttachService(l) ==
  /\ At(l, "attach") /\ Goto(l, IF network THEN "create" ELSE "noNetwork")
  /\ attached' = [attached EXCEPT ![l] = network]
  /\ UNCHANGED <<catalog, base, changed, engineVars, lock, id, todo, helper, ctr>>

-----------------------------------------------------------------------------
(* The main container.                                                     *)

CreateMain(l) ==
  /\ At(l, "create")
  /\ IF Derives(l) => TagOf(l) \in images
     THEN /\ ctr' = [ctr EXCEPT ![l] = "created"] /\ MountVolumes(l)
          /\ Goto(l, IF ProfileOf[l] \in Connected THEN "connect" ELSE "start")
          /\ UNCHANGED attached
     ELSE /\ Goto(l, "noImage") /\ attached' = [attached EXCEPT ![l] = FALSE]
          /\ UNCHANGED <<ctr, volumes>>
  /\ UNCHANGED <<catalog, base, changed, images, owned, filled, network, lock, id, todo, helper>>

(* What a launch that gives up leaves: nothing of its own.                 *)
GiveUp(l, end) ==
  /\ Goto(l, end)
  /\ ctr' = [ctr EXCEPT ![l] = "none"] /\ attached' = [attached EXCEPT ![l] = FALSE]

ConnectMain(l) ==
  /\ At(l, "connect")
  /\ IF network THEN Goto(l, "start") /\ UNCHANGED <<ctr, attached>> ELSE GiveUp(l, "noNetwork")
  /\ UNCHANGED <<catalog, base, changed, engineVars, lock, id, todo, helper>>

(* A subpath that does not exist cannot be mounted.                        *)
StartMain(l) ==
  /\ At(l, "start")
  /\ IF CachesOf(l) \subseteq filled
     THEN Goto(l, "run") /\ ctr' = [ctr EXCEPT ![l] = "running"] /\ UNCHANGED attached
     ELSE GiveUp(l, "noVolume")
  /\ UNCHANGED <<catalog, base, changed, engineVars, lock, id, todo, helper>>

MainExits(l) ==
  /\ At(l, "run") /\ Goto(l, "remove") /\ ctr' = [ctr EXCEPT ![l] = "exited"]
  /\ UNCHANGED <<catalog, base, changed, engineVars, lock, id, todo, helper, attached>>

RemoveMain(l) ==
  /\ At(l, "remove") /\ GiveUp(l, "ended")
  /\ UNCHANGED <<catalog, base, changed, engineVars, lock, id, todo, helper>>

(* Any call may fail; a build that fails gives its lock back.              *)
ImageFails(l) ==
  /\ pc[l] \in {"look", "lock", "again", "build"} /\ Goto(l, "drain")
  /\ lock' = Unlocked(l)
  /\ UNCHANGED <<catalog, base, changed, engineVars, id, todo, helper, ctr, attached>>

CallFails(l) ==
  /\ pc[l] \in {"exists", "pull", "base", "volume", "inspect", "createNet", "reinspect", "attach",
                "create", "connect", "start"}
  /\ GiveUp(l, "failed")
  /\ UNCHANGED <<catalog, base, changed, engineVars, lock, id, todo, helper>>

Prepare(l) == \/ BaseExists(l) \/ Pull(l) \/ ResolveBase(l) \/ EnsureVolume(l) \/ LookUp(l) \/ LockTag(l)
              \/ LookAgain(l) \/ Build(l) \/ Join(l) \/ Drain(l)
Helper(l) == CreateHelper(l) \/ RunHelper(l) \/ RemoveHelper(l)
Connect(l) == InspectNetwork(l) \/ CreateNetwork(l) \/ ReinspectNetwork(l) \/ AttachService(l)
Main(l) == CreateMain(l) \/ ConnectMain(l) \/ StartMain(l) \/ RemoveMain(l)

LaunchStep(l) == Prepare(l) \/ Helper(l) \/ Connect(l) \/ Main(l)
LaunchNext(l) == Resolve(l) \/ LaunchStep(l) \/ MainExits(l)
                 \/ ImageFails(l) \/ CallFails(l) \/ HelperFails(l)

(* The user edits or deletes a profile.                                    *)
Edit ==
  /\ ~changed /\ changed' = TRUE
  /\ \E p \in Profiles, s \in Status : catalog' = [catalog EXCEPT ![p] = s]
  /\ UNCHANGED <<base, engineVars, lock, launchVars>>

(* Whatever earlier launches have left.                                    *)
ResourcesInit ==
  /\ catalog \in [Profiles -> Status] /\ base \in Bases \cup {Absent} /\ changed = FALSE
  /\ images \in SUBSET Tags /\ volumes \in SUBSET Volumes
  /\ owned \in SUBSET volumes /\ filled \in SUBSET volumes /\ network \in BOOLEAN
  /\ lock = [t \in Tags |-> Nobody]
  /\ pc = [l \in Launches |-> "resolve"] /\ id = [l \in Launches |-> Absent]
  /\ todo = [l \in Launches |-> {}] /\ helper = [l \in Launches |-> "none"]
  /\ ctr = [l \in Launches |-> "none"] /\ attached = [l \in Launches |-> FALSE]

ResourcesTypeOK ==
  /\ catalog \in [Profiles -> Status] /\ base \in Bases \cup {Absent} /\ changed \in BOOLEAN
  /\ images \subseteq Tags /\ volumes \subseteq Volumes
  /\ owned \subseteq volumes /\ filled \subseteq volumes /\ network \in BOOLEAN
  /\ lock \in [Tags -> Launches \cup {Nobody}]
  /\ pc \in [Launches -> Calls \cup Ends] /\ id \in [Launches -> Bases \cup {Absent}]
  /\ todo \in [Launches -> SUBSET Volumes]
  /\ helper \in [Launches -> {"none", "create", "mkdir", "remove", "done", "broken"}]
  /\ ctr \in [Launches -> {"none", "created", "running", "exited"}]
  /\ attached \in [Launches -> BOOLEAN]
=============================================================================
