---------------------------- MODULE PruneProofs ----------------------------
(***************************************************************************)
(* Theorems about Prune, for any launches, profiles and prune command.     *)
(* Builders: who is at the build of an image has its lock (BuildInv).      *)
(* What is in use: nothing prune has in hand is used by a container it has *)
(* seen (SpareInv).  What profiles own: prune keeps it unless something    *)
(* is changed or --all is given (KeptInv), so a launch finds again what it *)
(* has prepared (ReadyInv); and only a prune of networks takes the network *)
(* from it (NetInv).                                                       *)
(***************************************************************************)
EXTENDS Prune, TLAPS

Typed ==
  /\ pc \in [Launches -> Calls \cup Ends] /\ id \in [Launches -> Bases \cup {Absent}]
  /\ base \in Bases \cup {Absent} /\ lock \in [Tags -> Launches \cup {Nobody}]

(* A launch with a base image to build on has resolved it.                 *)
Resolved ==
  \A l \in Launches :
    /\ pc[l] \in {"volume", "look", "lock", "again", "build"} => id[l] \in Bases
    /\ pc[l] \in {"look", "lock", "again", "build"} => Derives(l)

Builds(l) == pc[l] \in {"again", "build"}
OwnLock == \A t \in Tags : lock[t] # Nobody => Builds(lock[t]) /\ t = TagOf(lock[t])
HasLock == \A l \in Launches : Builds(l) => lock[TagOf(l)] = l
Missing == \A l \in Launches : pc[l] = "build" => TagOf(l) \notin images

BuildInv == Typed /\ Resolved /\ OwnLock /\ HasLock /\ Missing

-----------------------------------------------------------------------------
LEMMA TagType ==
  ASSUME Typed, NEW l \in Launches, Derives(l), id[l] \in Bases
  PROVE  TagOf(l) \in Tags
  BY LaunchesAssumption DEF Typed, Derives, TagOf, Tags

(* A step that leaves a launch's image and every tag and lock alone, or    *)
(* removes images, keeps the invariant.                                    *)
LEMMA NoImageStep ==
  ASSUME BuildInv, UNCHANGED <<pc, id, lock>>, base' \in Bases \cup {Absent}, images' \subseteq images
  PROVE  BuildInv'
  BY DEF BuildInv, Typed, Resolved, OwnLock, HasLock, Missing, Builds, TagOf, Derives

(* A launch that goes from one call to another outside the build.          *)
LEMMA CallStep ==
  ASSUME BuildInv, NEW l \in Launches, NEW p \in Calls \cup Ends, Goto(l, p), ~Builds(l),
         p \notin {"volume", "look", "lock", "again", "build"},
         UNCHANGED <<id, lock, images>>, base' \in Bases \cup {Absent}
  PROVE  BuildInv'
  BY DEF BuildInv, Typed, Resolved, OwnLock, HasLock, Missing, Builds, TagOf, Derives, Goto

LEMMA InitBuilds == ASSUME Init PROVE BuildInv
  BY NobodyAssumption DEF Init, ResourcesInit, BuildInv, Typed, Resolved, OwnLock, HasLock, Missing, Builds, Calls, Tags

LEMMA LaunchBuilds ==
  ASSUME BuildInv, NEW l \in Launches, LaunchNext(l)
  PROVE  BuildInv'
<1> USE DEF BuildInv, Typed
<1>1. CASE \/ Resolve(l) \/ BaseExists(l) \/ Pull(l) \/ Join(l) \/ Drain(l)
  <2>1. PICK p \in Calls \cup Ends : Goto(l, p) /\ p \notin {"volume", "look", "lock", "again", "build"}
    BY <1>1 DEF Resolve, BaseExists, Pull, Join, Drain, Calls, Ends
  <2>2. ~Builds(l) /\ UNCHANGED <<id, lock, images>> /\ base' \in Bases \cup {Absent}
    BY <1>1 DEF Resolve, BaseExists, Pull, Join, Drain, At, Builds, engineVars
  <2>3. QED BY <2>1, <2>2, CallStep
<1>2. CASE ResolveBase(l)
  <2>1. /\ base \in Bases /\ id' = [id EXCEPT ![l] = base]
        /\ pc[l] = "base" /\ UNCHANGED <<base, lock, images>>
    BY <1>2 DEF ResolveBase, At, engineVars
  <2>2. /\ pc' \in [Launches -> Calls \cup Ends]
        /\ pc'[l] \in {"volume", "look", "join"} /\ (pc'[l] = "look" => Derives(l))
        /\ \A k \in Launches \ {l} : pc'[k] = pc[k]
    BY <1>2 DEF ResolveBase, Fork, Goto, Calls, Ends
  <2>3. /\ \A k \in Launches \ {l} : TagOf(k)' = TagOf(k) /\ (Builds(k)' <=> Builds(k))
        /\ ~Builds(l) /\ ~Builds(l)'
    BY <2>1, <2>2 DEF TagOf, Builds
  <2>4. Typed' /\ Resolved'
    BY <2>1, <2>2 DEF Resolved, Derives
  <2>5. OwnLock'
    BY <2>1, <2>3, NobodyAssumption DEF OwnLock
  <2>6. HasLock' /\ Missing'
    BY <2>1, <2>2, <2>3 DEF HasLock, Missing
  <2>7. QED BY <2>4, <2>5, <2>6
<1>3. CASE EnsureVolume(l)
  <2>1. pc[l] = "volume" /\ UNCHANGED <<base, id, lock, images>>
    BY <1>3 DEF EnsureVolume, At
  <2>2. /\ pc' \in [Launches -> Calls \cup Ends]
        /\ pc'[l] \in {"volume", "look", "join"} /\ (pc'[l] = "look" => Derives(l))
        /\ \A k \in Launches \ {l} : pc'[k] = pc[k]
    BY <1>3 DEF EnsureVolume, At, Fork, Goto, Calls, Ends
  <2>3. QED BY <2>1, <2>2 DEF Resolved, OwnLock, HasLock, Missing, Builds, TagOf, Derives
<1>4. CASE LookUp(l)
  BY <1>4 DEF LookUp, At, Goto, Calls, Resolved, OwnLock, HasLock, Missing, Builds, TagOf, Derives, engineVars
<1>5. CASE LockTag(l)
  <2>1. TagOf(l) \in Tags /\ lock[TagOf(l)] = Nobody /\ pc[l] = "lock"
    BY <1>5, TagType DEF LockTag, At, Resolved
  <2>2. /\ lock' = [lock EXCEPT ![TagOf(l)] = l] /\ pc' = [pc EXCEPT ![l] = "again"]
        /\ UNCHANGED <<base, id, images>>
    BY <1>5 DEF LockTag, Goto, engineVars
  <2>3. \A k \in Launches : TagOf(k)' = TagOf(k)
    BY <2>2 DEF TagOf
  <2>4. Typed' /\ Resolved'
    BY <2>1, <2>2 DEF Calls, Resolved, Derives
  <2>5. OwnLock'
    BY <2>1, <2>2, <2>3, NobodyAssumption DEF OwnLock, Builds
  <2>6. HasLock'
    BY <2>1, <2>2, <2>3, NobodyAssumption DEF HasLock, Builds
  <2>7. Missing'
    BY <2>1, <2>2, <2>3 DEF Missing
  <2>8. QED BY <2>4, <2>5, <2>6, <2>7
<1>6. CASE LookAgain(l) \/ Build(l) \/ ImageFails(l)
  <2>1. pc[l] \in {"look", "lock", "again", "build"} /\ TagOf(l) \in Tags
    BY <1>6, TagType DEF LookAgain, Build, ImageFails, At, Resolved
  <2>2. Builds(l) => lock[TagOf(l)] = l
    BY DEF HasLock
  <2>3. /\ UNCHANGED <<base, id>> /\ images \subseteq images'
        /\ images' \subseteq images \cup {TagOf(l)}
        /\ images' # images => Builds(l)
    BY <1>6 DEF LookAgain, Build, ImageFails, At, Builds, engineVars
  <2>4. CASE lock' = Unlocked(l) /\ \E p \in {"join", "drain"} : pc' = [pc EXCEPT ![l] = p]
    <3>1. PICK p \in {"join", "drain"} : pc' = [pc EXCEPT ![l] = p]
      BY <2>4
    <3>2. \A k \in Launches : TagOf(k)' = TagOf(k)
      BY <2>3 DEF TagOf
    <3>3. Typed' /\ Resolved'
      BY <2>3, <2>4, <3>1 DEF Calls, Resolved, Derives, Unlocked
    <3>4. OwnLock'
      BY <2>4, <3>1, <3>2, NobodyAssumption DEF OwnLock, Builds, Unlocked
    <3>5. HasLock'
      <4>1. SUFFICES ASSUME NEW k \in Launches, Builds(k)' PROVE lock'[TagOf(k)] = k
        BY <3>2 DEF HasLock
      <4>2. k # l /\ Builds(k)
        BY <4>1, <3>1 DEF Builds
      <4>3. TagOf(k) \in Tags /\ lock[TagOf(k)] = k
        BY <4>2, TagType DEF HasLock, Resolved, Builds
      <4>4. QED BY <4>2, <4>3, <2>4 DEF Unlocked
    <3>6. Missing'
      <4>1. SUFFICES ASSUME NEW k \in Launches, pc'[k] = "build" PROVE TagOf(k) \notin images'
        BY <3>2 DEF Missing
      <4>2. k # l /\ pc[k] = "build" /\ lock[TagOf(k)] = k /\ TagOf(k) \notin images
        BY <4>1, <3>1 DEF Missing, HasLock, Builds
      <4>3. QED BY <4>2, <2>2, <2>3
    <3>7. QED BY <3>3, <3>4, <3>5, <3>6
  <2>5. CASE UNCHANGED <<lock, images>> /\ pc[l] = "again" /\ pc' = [pc EXCEPT ![l] = "build"] /\ TagOf(l) \notin images
    BY <2>3, <2>5 DEF Calls, Resolved, OwnLock, HasLock, Missing, Builds, TagOf, Derives
  <2>6. QED BY <1>6, <2>4, <2>5 DEF LookAgain, Build, ImageFails, At, Goto, engineVars
<1>7. CASE Helper(l) \/ HelperFails(l)
  BY <1>7, NoImageStep DEF Helper, CreateHelper, RunHelper, RemoveHelper, HelperFails, engineVars
<1>8. CASE Connect(l) \/ Main(l) \/ MainExits(l) \/ CallFails(l)
  <2>1. PICK p \in Calls \cup Ends : Goto(l, p) /\ p \notin {"volume", "look", "lock", "again", "build"}
    BY <1>8 DEF Connect, InspectNetwork, CreateNetwork, ReinspectNetwork, AttachService, Main, CreateMain,
                ConnectMain, StartMain, RemoveMain, MainExits, CallFails, GiveUp, Calls, Ends
  <2>2. ~Builds(l)
    BY <1>8 DEF Connect, InspectNetwork, CreateNetwork, ReinspectNetwork, AttachService, Main, CreateMain,
                ConnectMain, StartMain, RemoveMain, MainExits, CallFails, At, Builds
  <2>3. UNCHANGED <<id, lock, images, base>>
    BY <1>8 DEF Connect, InspectNetwork, CreateNetwork, ReinspectNetwork, AttachService, Main, CreateMain,
                ConnectMain, StartMain, RemoveMain, MainExits, CallFails, engineVars
  <2>4. QED BY <2>1, <2>2, <2>3, CallStep
<1>9. QED
  BY <1>1, <1>2, <1>3, <1>4, <1>5, <1>6, <1>7, <1>8 DEF LaunchNext, LaunchStep, Prepare

LEMMA NextBuilds == ASSUME BuildInv, [Next]_vars PROVE BuildInv'
<1>1. CASE \E l \in Launches : LaunchNext(l)
  BY <1>1, LaunchBuilds
<1>2. CASE Edit \/ UNCHANGED vars
  BY <1>2, NoImageStep DEF Edit, vars, resourceVars, engineVars, launchVars, BuildInv, Typed
<1>3. CASE PruneNext /\ UNCHANGED <<catalog, base, changed, lock, launchVars>>
  <2>1. images' \subseteq images
    BY <1>3 DEF PruneNext, PruneStep, Remove, RemoveVolume, RemoveImage, RemoveNetwork, RemoveFails, engineVars
  <2>2. QED BY <1>3, <2>1, NoImageStep DEF launchVars, BuildInv, Typed
<1>4. QED BY <1>1, <1>2, <1>3 DEF Next

(* A build lock is held by the builder of its image, and by nobody when no *)
(* one builds: ensureDerivedImage unlocks on every path.                   *)
THEOREM LocksHaveBuilders == Spec => []LockHasBuilder
<1>1. BuildInv => LockHasBuilder
  BY DEF BuildInv, OwnLock, Builds, LockHasBuilder
<1>2. QED BY <1>1, InitBuilds, NextBuilds, PTL DEF Spec

(* Of the launches that miss a derived image one builds it; the lock and   *)
(* the second look of ensureDerivedImage keep the others from it.          *)
THEOREM BuiltOnce == Spec => NoRebuild
<1>1. BuildInv /\ [Next]_vars => [\A l \in Launches : Build(l) => TagOf(l) \notin images]_vars
  BY DEF BuildInv, Missing, Build, At
<1>2. QED BY <1>1, InitBuilds, NextBuilds, PTL DEF Spec, NoRebuild

-----------------------------------------------------------------------------
(* What prune keeps off the containers it has seen.                        *)

Kinds == /\ id \in [Launches -> Bases \cup {Absent}] /\ base \in Bases \cup {Absent}
         /\ pc \in [Launches -> Calls \cup Ends] /\ ctr \in [Launches -> {"none", "created", "running", "exited"}]
LiveAt == \A l \in Launches : Live(l) <=> pc[l] \in {"connect", "start", "run"}
Seen == /\ before \subseteq Launches
        /\ \A l \in before : pc[l] \in {"connect", "start", "run", "remove"} \cup Ends
Spared(l) == /\ ppc = "removeVolume" => left \cap CachesOf(l) = {}
             /\ ppc = "removeImage" => (Derives(l) => TagOf(l) \notin left)
KeptOff == \A l \in before : Live(l) => Spared(l)

SpareInv == Kinds /\ LiveAt /\ Seen /\ KeptOff

LEMMA InitSpares == ASSUME Init PROVE SpareInv
  BY DEF Init, ResourcesInit, SpareInv, Kinds, LiveAt, Seen, KeptOff, Live, Calls

(* A launch step that makes no container live that prune has not seen.     *)
LEMMA LaunchSpares ==
  ASSUME SpareInv, NEW l \in Launches, LaunchNext(l), UNCHANGED pruneVars
  PROVE  SpareInv'
<1> USE DEF SpareInv, Kinds
<1>1. /\ UNCHANGED <<ppc, left, before>>
      /\ \A k \in Launches \ {l} : pc'[k] = pc[k] /\ id'[k] = id[k] /\ ctr'[k] = ctr[k]
      /\ pc' \in [Launches -> Calls \cup Ends] /\ ctr' \in [Launches -> {"none", "created", "running", "exited"}]
      /\ id' \in [Launches -> Bases \cup {Absent}] /\ base' \in Bases \cup {Absent}
  <2>1. UNCHANGED <<ppc, left, before>>
    BY DEF pruneVars
  <2>a. CASE ResolveBase(l) \/ EnsureVolume(l)
    <3>1. /\ UNCHANGED <<ctr, base>> /\ id' \in {id, [id EXCEPT ![l] = base]}
          /\ pc' \in {pc} \cup {[pc EXCEPT ![l] = p] : p \in {"volume", "look", "join"}}
      BY <2>a DEF ResolveBase, EnsureVolume, Fork, Goto, engineVars
    <3>2. QED BY <3>1, <2>1 DEF Calls
  <2>2. CASE \/ Resolve(l) \/ BaseExists(l) \/ Pull(l) \/ LookUp(l) \/ LockTag(l) \/ LookAgain(l) \/ Build(l)
             \/ Join(l) \/ Drain(l) \/ Helper(l) \/ ImageFails(l) \/ HelperFails(l)
    BY <2>1, <2>2 DEF Resolve, BaseExists, Pull, LookUp, LockTag, LookAgain, Build, Join,
       Drain, Helper, CreateHelper, RunHelper, RemoveHelper, ImageFails, HelperFails, Goto, Calls, Ends
  <2>3. CASE Connect(l) \/ Main(l) \/ MainExits(l) \/ CallFails(l)
    BY <2>1, <2>3 DEF Connect, InspectNetwork, CreateNetwork, ReinspectNetwork, AttachService, Main, CreateMain,
       ConnectMain, StartMain, RemoveMain, MainExits, CallFails, GiveUp, Goto, Calls, Ends
  <2>4. QED BY <2>a, <2>2, <2>3 DEF LaunchNext, LaunchStep, Prepare
<1>2. /\ Live(l)' <=> pc'[l] \in {"connect", "start", "run"}
      /\ Live(l)' => Live(l) \/ pc[l] = "create"
  <2>1. CASE Resolve(l) \/ Prepare(l) \/ Helper(l) \/ ImageFails(l) \/ HelperFails(l) \/ Connect(l)
    <3>1. CASE Resolve(l) \/ Prepare(l) \/ ImageFails(l) \/ Connect(l)
      <4>1. /\ UNCHANGED ctr /\ pc[l] \notin {"connect", "start", "run"}
            /\ pc'[l] \notin {"connect", "start", "run"}
        BY <3>1 DEF Resolve, Prepare, BaseExists, Pull, ResolveBase, EnsureVolume, Fork, LookUp, LockTag, LookAgain, Build,
           Join, Drain, ImageFails, Connect, InspectNetwork, CreateNetwork, ReinspectNetwork, AttachService, At, Goto, Ends
      <4>2. QED BY <4>1 DEF Live, LiveAt
    <3>2. CASE Helper(l) \/ HelperFails(l)
      BY <3>2 DEF Helper, CreateHelper, RunHelper, RemoveHelper, HelperFails, Live, LiveAt
    <3>3. QED BY <2>1, <3>1, <3>2
  <2>2. CASE CreateMain(l)
    <3>1. /\ pc[l] = "create"
          /\ \/ pc'[l] \in {"connect", "start"} /\ ctr'[l] = "created"
             \/ pc'[l] = "noImage" /\ UNCHANGED ctr
      BY <2>2 DEF CreateMain, At, Goto
    <3>2. QED BY <3>1 DEF Live, LiveAt
  <2>3. CASE ConnectMain(l) \/ StartMain(l) \/ RemoveMain(l) \/ MainExits(l) \/ CallFails(l)
    <3>1. /\ \/ pc'[l] \in {"start", "run"} /\ ctr'[l] \in {ctr[l], "running"} /\ pc[l] \in {"connect", "start"}
             \/ pc'[l] \notin {"connect", "start", "run"} /\ ctr'[l] \in {"none", "exited"}
      BY <2>3 DEF ConnectMain, StartMain, RemoveMain, MainExits, CallFails, GiveUp, At, Goto
    <3>2. QED BY <3>1 DEF Live, LiveAt
  <2>4. QED BY <2>1, <2>2, <2>3 DEF LaunchNext, LaunchStep, Main
<1>3. pc[l] \in {"connect", "start", "run", "remove"} \cup Ends =>
        id'[l] = id[l] /\ pc'[l] \in {"connect", "start", "run", "remove"} \cup Ends
  <2>1. CASE Resolve(l) \/ Prepare(l) \/ Helper(l) \/ ImageFails(l) \/ HelperFails(l)
    BY <2>1 DEF Resolve, Prepare, BaseExists, Pull, ResolveBase, EnsureVolume, LookUp, LockTag, LookAgain, Build, Join,
       Drain, Helper, CreateHelper, RunHelper, RemoveHelper, ImageFails, HelperFails, At, Ends
  <2>2. CASE Connect(l) \/ Main(l) \/ MainExits(l) \/ CallFails(l)
    BY <2>2 DEF Connect, InspectNetwork, CreateNetwork, ReinspectNetwork, AttachService, Main, CreateMain,
       ConnectMain, StartMain, RemoveMain, MainExits, CallFails, GiveUp, Goto, At, Ends
  <2>3. QED BY <2>1, <2>2 DEF LaunchNext, LaunchStep
<1>4. Kinds'
  BY <1>1
<1>5. LiveAt' /\ Seen'
  BY <1>1, <1>2, <1>3 DEF LiveAt, Seen, Live
<1>6. KeptOff'
  <2>1. SUFFICES ASSUME NEW k \in before, Live(k)' PROVE Spared(k)'
    BY <1>1 DEF KeptOff
  <2>2. k \in Launches /\ Live(k) /\ id'[k] = id[k]
    BY <2>1, <1>1, <1>2, <1>3 DEF Seen, Live, Ends
  <2>3. QED BY <2>1, <2>2, <1>1 DEF KeptOff, Spared, TagOf, CachesOf, Derives
<1>7. QED BY <1>4, <1>5, <1>6

LEMMA PruneSpares ==
  ASSUME SpareInv, PruneNext, UNCHANGED <<catalog, base, changed, lock, launchVars>>
  PROVE  SpareInv'
<1> USE DEF SpareInv, Kinds
<1>1. UNCHANGED <<pc, id, ctr, base>> /\ LiveAt'
  BY DEF launchVars, LiveAt, Live
<1>2. \A l \in Launches : (Live(l)' <=> Live(l)) /\ TagOf(l)' = TagOf(l)
  BY <1>1 DEF Live, TagOf
<1>3. Kinds'
  BY <1>1
<1>4. CASE Confirm
  <2>1. before' = {l \in Launches : Live(l)} /\ ppc' = "again"
    BY <1>4 DEF Confirm
  <2>2. QED BY <2>1, <1>1, <1>2, <1>3 DEF LiveAt, Seen, KeptOff, Spared
<1>5. CASE RecheckVolume \/ RecheckImage \/ RecheckNetwork
  <2>1. before' = before
    BY <1>5 DEF RecheckVolume, RecheckImage, RecheckNetwork, CheckAgain
  <2>2. /\ ppc' = "removeVolume" => left' \cap VolumesInUse = {}
        /\ ppc' = "removeImage" => left' \cap ImagesInUse = {}
    BY <1>5 DEF RecheckVolume, RecheckImage, RecheckNetwork, CheckAgain
  <2>3. \A l \in Launches : Live(l) => CachesOf(l) \subseteq VolumesInUse /\ (Derives(l) => TagOf(l) \in ImagesInUse)
    BY DEF VolumesInUse, ImagesInUse, LiveContainer
  <2>4. KeptOff' /\ Seen'
    BY <2>1, <2>2, <2>3, <1>1, <1>2 DEF Seen, KeptOff, Spared, CachesOf, Derives
  <2>5. QED BY <2>4, <1>1, <1>3
<1>6. CASE \/ Start \/ Decline \/ PruneCallFails \/ Finished \/ Load \/ InspectBase \/ ListVolumes \/ ListImages
           \/ ListNetworks \/ DropReferenced \/ DropAttached \/ Remove
  <2>1. before' \in {before, {}} /\ ppc' \notin {"removeVolume", "removeImage"}
    BY <1>6 DEF Start, Rest, Decline, PruneCallFails, Finished, Finish, Load, InspectBase, ListVolumes, ListImages,
       ListNetworks, DropReferenced, DropAttached, Remove, RemoveVolume, RemoveImage, RemoveNetwork, RemoveFails, Removed
  <2>2. QED BY <2>1, <1>1, <1>3 DEF Seen, KeptOff, Spared
<1>7. QED BY <1>4, <1>5, <1>6 DEF PruneNext, PruneStep, Look

LEMMA NextSpares == ASSUME SpareInv, [Next]_vars PROVE SpareInv'
<1>1. CASE PruneNext /\ UNCHANGED <<catalog, base, changed, lock, launchVars>>
  BY <1>1, PruneSpares
<1>2. CASE \E l \in Launches : LaunchNext(l) /\ UNCHANGED pruneVars
  BY <1>2, LaunchSpares
<1>3. CASE (Edit /\ UNCHANGED pruneVars) \/ UNCHANGED vars
  <2>1. UNCHANGED <<pc, id, ctr, base>> /\ UNCHANGED pruneVars
    BY <1>3 DEF Edit, vars, resourceVars, launchVars
  <2>2. QED BY <2>1 DEF SpareInv, Kinds, LiveAt, Seen, KeptOff, Spared, Live, TagOf, CachesOf, Derives, pruneVars
<1>4. QED BY <1>1, <1>2, <1>3 DEF Next

(* A removal touches only what prune has found in nobody's hands.          *)
LEMMA RemovalSpares ==
  ASSUME SpareInv, [Next]_vars, NEW l \in before, Live(l)
  PROVE  /\ volumes \cap CachesOf(l) \subseteq volumes'
         /\ Derives(l) => images \cap {TagOf(l)} \subseteq images'
<1>1. CASE RemoveVolume
  <2>1. ppc = "removeVolume" /\ Spared(l) /\ UNCHANGED images /\ volumes \ left \subseteq volumes'
    BY <1>1 DEF RemoveVolume, SpareInv, KeptOff
  <2>2. QED BY <2>1 DEF Spared
<1>2. CASE RemoveImage
  <2>1. ppc = "removeImage" /\ Spared(l) /\ UNCHANGED volumes /\ images \ left \subseteq images'
    BY <1>2 DEF RemoveImage, SpareInv, KeptOff
  <2>2. QED BY <2>1 DEF Spared
<1>3. CASE RemoveNetwork \/ UNCHANGED engineVars
  BY <1>3 DEF RemoveNetwork, engineVars
<1>4. CASE \E k \in Launches : LaunchNext(k)
  <2>1. volumes \subseteq volumes' /\ images \subseteq images'
    <3>1. PICK k \in Launches : LaunchNext(k)
      BY <1>4
    <3>2. CASE Resolve(k) \/ Prepare(k) \/ Helper(k) \/ ImageFails(k) \/ HelperFails(k)
      BY <3>2 DEF Resolve, Prepare, BaseExists, Pull, ResolveBase, EnsureVolume, LookUp, LockTag, LookAgain, Build, Join,
         Drain, Helper, CreateHelper, RunHelper, RemoveHelper, MountVolumes, ImageFails, HelperFails, engineVars
    <3>3. CASE Connect(k) \/ Main(k) \/ MainExits(k) \/ CallFails(k)
      BY <3>3 DEF Connect, InspectNetwork, CreateNetwork, ReinspectNetwork, AttachService, Main, CreateMain,
         ConnectMain, StartMain, RemoveMain, MainExits, CallFails, MountVolumes, engineVars
    <3>4. QED BY <3>1, <3>2, <3>3 DEF LaunchNext, LaunchStep
  <2>2. QED BY <2>1
<1>5. QED
  BY <1>1, <1>2, <1>3, <1>4 DEF Next, PruneNext, PruneStep, Remove, RemoveFails, Edit, vars, resourceVars

(* What a container uses that was there at the user's yes is not removed   *)
(* under it, not even with --all: the look run takes at the containers     *)
(* before each removal sees it, whether it is only created or runs.        *)
THEOREM ActiveIsSpared == Spec => ActiveSpared
<1>1. SpareInv /\ [Next]_vars =>
        [\A l \in before : Live(l) =>
           /\ volumes \cap CachesOf(l) \subseteq volumes'
           /\ Derives(l) => images \cap {TagOf(l)} \subseteq images']_vars
  BY RemovalSpares
<1>2. QED BY <1>1, InitSpares, NextSpares, PTL DEF Spec, ActiveSpared
-----------------------------------------------------------------------------
(* Types.  What a helper container mounts is there until it is through,    *)
(* because the engine refuses to remove it; prune looks only at the kinds  *)
(* it was asked for.                                                       *)

Scoped ==
  /\ cand.volumes # {} \/ ppc = "removeVolume" => InScope("volumes")
  /\ cand.images # {} \/ ppc = "removeImage" => InScope("images")
  /\ cand.networks # {} \/ ppc = "removeNetwork" => InScope("networks")
  /\ ppc \in {"idle", "load", "bases", "volumes"} => cand = Nothing
  /\ ppc = "bases" => left \subseteq Packaged
Mounted == \A l \in Launches : helper[l] = "mkdir" => CachesOf(l) \subseteq volumes

TypeInv == TypeOK /\ Scoped /\ Mounted

(* What a launch leaves alone: the catalog, the other launches, and all    *)
(* there is in the engine.                                                 *)
LEMMA LaunchAdds ==
  ASSUME ResourcesTypeOK, NEW l \in Launches, LaunchNext(l)
  PROVE  /\ catalog' = catalog
         /\ volumes \subseteq volumes' /\ filled \subseteq filled' /\ images \subseteq images'
         /\ network => network'
         /\ ~changed' => ~changed /\ (base' = base \/ base = Absent)
<1>0. CASE Pull(l)
  BY <1>0 DEF Pull, engineVars, ResourcesTypeOK
<1>1. CASE EnsureVolume(l) \/ CreateHelper(l) \/ RunHelper(l) \/ Build(l) \/ CreateNetwork(l) \/ CreateMain(l)
  BY <1>1 DEF EnsureVolume, CreateHelper, RunHelper, Build, CreateNetwork, CreateMain, MountVolumes, engineVars
<1>2. CASE \/ Resolve(l) \/ BaseExists(l) \/ ResolveBase(l) \/ LookUp(l) \/ LockTag(l) \/ LookAgain(l) \/ Join(l) \/ Drain(l)
           \/ RemoveHelper(l) \/ HelperFails(l) \/ ImageFails(l)
  BY <1>2 DEF Resolve, BaseExists, ResolveBase, LookUp, LockTag, LookAgain, Join, Drain, RemoveHelper,
     HelperFails, ImageFails, engineVars
<1>3. CASE \/ InspectNetwork(l) \/ ReinspectNetwork(l) \/ AttachService(l) \/ ConnectMain(l) \/ StartMain(l) \/ RemoveMain(l)
           \/ MainExits(l) \/ CallFails(l)
  BY <1>3 DEF InspectNetwork, ReinspectNetwork, AttachService, ConnectMain, StartMain, RemoveMain, MainExits,
     CallFails, engineVars
<1>4. QED BY <1>0, <1>1, <1>2, <1>3 DEF LaunchNext, LaunchStep, Prepare, Helper, Connect, Main

LEMMA LaunchFrame ==
  ASSUME ResourcesTypeOK, NEW l \in Launches, LaunchNext(l), NEW k \in Launches \ {l}
  PROVE  pc'[k] = pc[k] /\ id'[k] = id[k] /\ helper'[k] = helper[k]
<1> USE DEF ResourcesTypeOK
<1>1. /\ pc' = pc \/ \E p \in Calls \cup Ends : Goto(l, p)
      /\ id' \in {id, [id EXCEPT ![l] = base]}
      /\ helper' = helper \/ \E h \in {"create", "mkdir", "remove", "done", "broken"} : helper' = [helper EXCEPT ![l] = h]
  <2>1. CASE \/ Resolve(l) \/ BaseExists(l) \/ Pull(l) \/ LookUp(l) \/ LockTag(l) \/ LookAgain(l) \/ Build(l) \/ Join(l)
             \/ Drain(l) \/ ImageFails(l)
    BY <2>1 DEF Resolve, BaseExists, Pull, LookUp, LockTag, LookAgain, Build, Join, Drain, ImageFails, Goto, Calls, Ends
  <2>2. CASE ResolveBase(l) \/ EnsureVolume(l)
    BY <2>2 DEF ResolveBase, EnsureVolume, Fork, Goto, Calls, Ends
  <2>3. CASE Helper(l) \/ HelperFails(l)
    BY <2>3 DEF Helper, CreateHelper, RunHelper, RemoveHelper, HelperFails
  <2>4. CASE Connect(l) \/ Main(l) \/ MainExits(l) \/ CallFails(l)
    BY <2>4 DEF Connect, InspectNetwork, CreateNetwork, ReinspectNetwork, AttachService, Main, CreateMain,
       ConnectMain, StartMain, RemoveMain, MainExits, CallFails, GiveUp, Goto, Calls, Ends
  <2>5. QED BY <2>1, <2>2, <2>3, <2>4 DEF LaunchNext, LaunchStep, Prepare
<1>2. QED BY <1>1 DEF Goto

LEMMA InitTyped == ASSUME Init PROVE TypeInv
<1>1. ResourcesTypeOK
  BY DEF Init, ResourcesInit, ResourcesTypeOK, Calls
<1>2. QED BY <1>1 DEF Init, ResourcesInit, TypeInv, TypeOK, Scoped, Mounted, Nothing

LEMMA LaunchTypes ==
  ASSUME BuildInv, TypeInv, NEW l \in Launches, LaunchNext(l)
  PROVE  ResourcesTypeOK' /\ Mounted'
<1> USE DEF TypeInv, TypeOK, ResourcesTypeOK
<1>c. CachesOf(l) \subseteq Volumes
  BY CachesAssumption, LaunchesAssumption DEF CachesOf
<1>1. CASE \/ Resolve(l) \/ BaseExists(l) \/ Pull(l) \/ LookUp(l) \/ Join(l) \/ Drain(l)
  <2>1. /\ UNCHANGED <<catalog, engineVars, lock, id, todo, helper, ctr, attached>>
        /\ base' \in Bases \cup {Absent} /\ changed' \in BOOLEAN
        /\ \E p \in Calls \cup Ends : Goto(l, p)
    BY <1>1 DEF Resolve, BaseExists, Pull, LookUp, Join, Drain, Calls, Ends
  <2>2. QED BY <2>1 DEF engineVars, Goto, Mounted
<1>2. CASE LockTag(l) \/ LookAgain(l) \/ Build(l) \/ ImageFails(l)
  <2>1. TagOf(l) \in Tags
    BY <1>2, TagType DEF LockTag, LookAgain, Build, ImageFails, At, BuildInv, Resolved
  <2>2. /\ UNCHANGED <<catalog, base, changed, volumes, owned, filled, network, id, todo, helper, ctr, attached>>
        /\ images' \in {images, images \cup {TagOf(l)}}
        /\ lock' \in {lock, Unlocked(l), [lock EXCEPT ![TagOf(l)] = l]}
        /\ \E p \in Calls \cup Ends : Goto(l, p)
    BY <1>2 DEF LockTag, LookAgain, Build, ImageFails, Calls, Ends, engineVars
  <2>3. Unlocked(l) \in [Tags -> Launches \cup {Nobody}]
    BY DEF Unlocked
  <2>4. QED BY <2>1, <2>2, <2>3 DEF Goto, Mounted
<1>3. CASE ResolveBase(l) \/ EnsureVolume(l)
  <2>1. /\ UNCHANGED <<catalog, base, changed, images, filled, network, lock, ctr, attached>>
        /\ id' \in {id, [id EXCEPT ![l] = base]}
        /\ helper' \in {helper, [helper EXCEPT ![l] = "create"], [helper EXCEPT ![l] = "done"]}
        /\ pc' = pc \/ \E p \in Calls \cup Ends : Goto(l, p)
    BY <1>3 DEF ResolveBase, EnsureVolume, Fork, Goto, Calls, engineVars
  <2>2. volumes' \subseteq Volumes /\ volumes \subseteq volumes' /\ owned' \subseteq volumes'
    BY <1>3 DEF ResolveBase, EnsureVolume, engineVars
  <2>3. todo' \in [Launches -> SUBSET Volumes]
    BY <1>3, <1>c DEF ResolveBase, EnsureVolume
  <2>4. Mounted'
    BY <2>1, <2>2 DEF Mounted, CachesOf
  <2>5. QED BY <2>1, <2>2, <2>3, <2>4 DEF Goto
<1>4. CASE Helper(l) \/ HelperFails(l)
  <2>1. /\ UNCHANGED <<catalog, base, changed, images, owned, network, lock, pc, id, todo, ctr, attached>>
        /\ volumes' \in {volumes, volumes \cup CachesOf(l)} /\ filled' \in {filled, filled \cup CachesOf(l)}
        /\ \E h \in {"mkdir", "remove", "done", "broken"} : helper' = [helper EXCEPT ![l] = h]
    BY <1>4 DEF Helper, CreateHelper, RunHelper, RemoveHelper, HelperFails, MountVolumes, engineVars
  <2>2. filled' \subseteq volumes'
    BY <1>4 DEF Helper, CreateHelper, RunHelper, RemoveHelper, HelperFails, MountVolumes, Mounted, engineVars
  <2>3. Mounted'
    <3>1. helper'[l] = "mkdir" => CachesOf(l) \subseteq volumes'
      BY <1>4 DEF Helper, CreateHelper, RunHelper, RemoveHelper, HelperFails, MountVolumes
    <3>2. \A k \in Launches \ {l} : helper'[k] = helper[k]
      BY <2>1
    <3>3. QED BY <3>1, <3>2, <2>1 DEF Mounted, CachesOf
  <2>4. QED BY <2>1, <2>2, <2>3, <1>c
<1>5. CASE Connect(l) \/ Main(l) \/ MainExits(l) \/ CallFails(l)
  <2>1. /\ UNCHANGED <<catalog, base, changed, images, owned, filled, lock, id, todo, helper>>
        /\ volumes' \in {volumes, volumes \cup CachesOf(l)} /\ network' \in BOOLEAN
        /\ \E p \in Calls \cup Ends : Goto(l, p)
    BY <1>5 DEF Connect, InspectNetwork, CreateNetwork, ReinspectNetwork, AttachService, Main, CreateMain,
       ConnectMain, StartMain, RemoveMain, MainExits, CallFails, GiveUp, MountVolumes, Calls, Ends, engineVars
  <2>2. /\ ctr' = ctr \/ \E c \in {"none", "created", "running", "exited"} : ctr' = [ctr EXCEPT ![l] = c]
        /\ attached' = attached \/ \E b \in BOOLEAN : attached' = [attached EXCEPT ![l] = b]
    BY <1>5 DEF Connect, InspectNetwork, CreateNetwork, ReinspectNetwork, AttachService, Main, CreateMain,
       ConnectMain, StartMain, RemoveMain, MainExits, CallFails, GiveUp
  <2>3. QED BY <2>1, <2>2, <1>c DEF Goto, Mounted
<1>6. QED BY <1>1, <1>2, <1>3, <1>4, <1>5 DEF LaunchNext, LaunchStep, Prepare

LEMMA PruneTypes ==
  ASSUME BuildInv, TypeInv, PruneNext, UNCHANGED <<catalog, base, changed, lock, launchVars>>
  PROVE  TypeInv'
<1> USE DEF TypeInv, TypeOK
<1>c. \A p \in Profiles : Caches[p] \subseteq Volumes
  BY CachesAssumption
<1>t. \A p \in Packaged : base \in Bases => [profile |-> p, base |-> base] \in Tags
  BY DEF Tags
<1>1. CASE RemoveVolume \/ RemoveImage \/ RemoveNetwork \/ RemoveFails
  <2>1. ResourcesTypeOK'
    BY <1>1 DEF RemoveVolume, RemoveImage, RemoveNetwork, RemoveFails, ResourcesTypeOK, launchVars, engineVars
  <2>2. Mounted'
    <3>1. SUFFICES ASSUME NEW l \in Launches, helper[l] = "mkdir" PROVE CachesOf(l) \subseteq volumes'
      BY DEF Mounted, launchVars, CachesOf
    <3>2. \A v \in CachesOf(l) : Holds(l, v) /\ v \in volumes
      BY <3>1 DEF Holds, Mounted
    <3>3. QED BY <1>1, <3>2 DEF RemoveVolume, RemoveImage, RemoveNetwork, RemoveFails, engineVars
  <2>3. \E type \in {"volumes", "images", "networks"} : Removed(type)
    BY <1>1 DEF RemoveVolume, RemoveImage, RemoveNetwork, RemoveFails
  <2>4. QED BY <2>1, <2>2, <2>3 DEF Removed, Scoped, Nothing, InScope
<1>2. CASE UNCHANGED engineVars /\ (Start \/ Confirm \/ Decline \/ PruneCallFails \/ Look)
  <2>1. ResourcesTypeOK' /\ Mounted'
    BY <1>2 DEF ResourcesTypeOK, Mounted, CachesOf, launchVars, engineVars
  <2>2. CASE Start
    BY <2>1, <2>2 DEF Start, Rest, Scoped, InScope, Nothing
  <2>3. CASE Decline \/ PruneCallFails \/ Finished
    BY <2>1, <2>3 DEF Decline, PruneCallFails, Finished, Finish, Scoped, InScope, Nothing
  <2>4. CASE Confirm
    BY <2>1, <2>4 DEF Confirm, Scoped, InScope, Nothing
  <2>5. CASE Load
    BY <2>1, <2>5, <1>c, PackagedAssumption DEF Load, Loaded, Scoped, InScope, Nothing
  <2>6. CASE InspectBase
    BY <2>1, <2>6, <1>t DEF InspectBase, Scoped, InScope, Nothing, ResourcesTypeOK
  <2>7. CASE ListVolumes \/ ListImages \/ ListNetworks
    BY <2>1, <2>7 DEF ListVolumes, ListImages, ListNetworks, Scoped, InScope, Nothing, ResourcesTypeOK
  <2>8. CASE DropReferenced \/ DropAttached
    <3>1. /\ UNCHANGED <<command, left, kept, before>> /\ ppc \in {"refs", "attachments"}
          /\ ppc' \in {"attachments", "confirm"}
      BY <2>8 DEF DropReferenced, DropAttached
    <3>2. /\ cand' \in [volumes : SUBSET Volumes, images : SUBSET Tags, networks : SUBSET {"services"}]
          /\ cand'.volumes \subseteq cand.volumes /\ cand'.images \subseteq cand.images
          /\ cand'.networks \subseteq cand.networks
      <4>1. CASE DropReferenced
        BY <4>1 DEF DropReferenced
      <4>2. CASE DropAttached
        BY <4>2 DEF DropAttached
      <4>3. QED BY <2>8, <4>1, <4>2
    <3>3. QED BY <2>1, <3>1, <3>2 DEF Scoped, InScope
  <2>9. CASE RecheckVolume \/ RecheckImage \/ RecheckNetwork
    BY <2>1, <2>9 DEF RecheckVolume, RecheckImage, RecheckNetwork, CheckAgain, Skip, Scoped, InScope, Nothing
  <2>10. QED BY <1>2, <2>2, <2>3, <2>4, <2>5, <2>6, <2>7, <2>8, <2>9 DEF Look
<1>3. QED BY <1>1, <1>2 DEF PruneNext, PruneStep, Remove

LEMMA NextTypes == ASSUME BuildInv, TypeInv, [Next]_vars PROVE TypeInv'
<1>1. CASE PruneNext /\ UNCHANGED <<catalog, base, changed, lock, launchVars>>
  BY <1>1, PruneTypes
<1>2. CASE (\E l \in Launches : LaunchNext(l)) /\ UNCHANGED pruneVars
  <2>1. ResourcesTypeOK' /\ Mounted'
    BY <1>2, LaunchTypes
  <2>2. QED BY <1>2, <2>1 DEF pruneVars, TypeInv, TypeOK, Scoped, InScope
<1>3. CASE (Edit /\ UNCHANGED pruneVars) \/ UNCHANGED vars
  <2>1. UNCHANGED <<base, images, volumes, owned, filled, network, lock, pc, id, todo, helper, ctr, attached>>
    BY <1>3 DEF Edit, vars, resourceVars, launchVars, engineVars
  <2>2. catalog' \in [Profiles -> Status] /\ changed' \in BOOLEAN /\ UNCHANGED pruneVars
    <3>1. CASE Edit /\ UNCHANGED pruneVars
      <4>1. PICK p \in Profiles, s \in Status : catalog' = [catalog EXCEPT ![p] = s]
        BY <3>1 DEF Edit
      <4>2. QED BY <3>1, <4>1 DEF Edit, TypeInv, TypeOK, ResourcesTypeOK
    <3>2. CASE UNCHANGED vars
      BY <3>2 DEF vars, resourceVars, TypeInv, TypeOK, ResourcesTypeOK
    <3>3. QED BY <1>3, <3>1, <3>2
  <2>3. ResourcesTypeOK' /\ Mounted'
    BY <2>1, <2>2 DEF TypeInv, TypeOK, ResourcesTypeOK, Mounted, CachesOf
  <2>4. QED BY <2>2, <2>3 DEF pruneVars, TypeInv, TypeOK, Scoped, InScope
<1>4. QED BY <1>1, <1>2, <1>3 DEF Next

(* The variables keep their types; the directories a helper makes are in   *)
(* volumes that are still there.                                           *)
THEOREM PruneTyped == Spec => []TypeOK
<1>1. TypeInv => TypeOK
  BY DEF TypeInv
<1>2. QED BY <1>1, InitBuilds, NextBuilds, InitTyped, NextTypes, PTL DEF Spec

-----------------------------------------------------------------------------
(* What the catalog uses stays: prune lists nothing it has kept, and what  *)
(* it has kept is what the profiles still use while nobody edits one and   *)
(* the base image is not replaced.                                         *)

Quiet == ~changed /\ ~command.all
CandidatesUnkept ==
  ~command.all =>
    /\ cand.volumes \cap kept.volumes = {} /\ cand.images \cap kept.images = {}
    /\ ppc = "removeVolume" => left \cap kept.volumes = {}
    /\ ppc = "removeImage" => left \cap kept.images = {}

Listed == ppc \notin {"idle", "load", "done"} /\ (InScope("volumes") \/ InScope("images"))
KeepsImage(p) == kept.images = Tags \/ (base # Absent /\ [profile |-> p, base |-> base] \in kept.images)
CatalogKept ==
  Quiet /\ Listed =>
    /\ \A p \in Profiles : catalog[p] # "gone" => Caches[p] \subseteq kept.volumes
    /\ \A p \in Loaded \cap Packaged : (ppc = "bases" /\ p \in left) \/ KeepsImage(p)

KeptInv == CandidatesUnkept /\ CatalogKept

LEMMA InitKept == ASSUME Init PROVE KeptInv
  BY DEF Init, KeptInv, CandidatesUnkept, CatalogKept, Listed, Nothing

(* A base image that is only now pulled replaces none.                     *)
LEMMA OthersKept ==
  ASSUME KeptInv, UNCHANGED pruneVars,
         ~changed' => ~changed /\ catalog' = catalog /\ (base' = base \/ base = Absent)
  PROVE  KeptInv'
<1>1. CandidatesUnkept'
  BY DEF KeptInv, CandidatesUnkept, pruneVars
<1>2. CASE ~changed'
  <2>1. \A p \in Packaged : KeepsImage(p) => KeepsImage(p)'
    BY <1>2 DEF KeepsImage, pruneVars
  <2>2. QED BY <1>1, <1>2, <2>1 DEF KeptInv, CatalogKept, Quiet, Listed, Loaded, InScope, pruneVars
<1>3. CASE changed'
  BY <1>1, <1>3 DEF KeptInv, CatalogKept, Quiet
<1>4. QED BY <1>2, <1>3

LEMMA PruneKeeps ==
  ASSUME TypeInv, KeptInv, PruneNext, UNCHANGED <<catalog, base, changed, lock, launchVars>>
  PROVE  KeptInv'
<1> USE DEF TypeInv, TypeOK, KeptInv
<1>0. Loaded' = Loaded /\ (Quiet' => Quiet) /\ command' = command /\ (InScope("volumes")' <=> InScope("volumes"))
      /\ (InScope("images")' <=> InScope("images"))
  <2>1. command' = command
    BY DEF PruneNext, PruneStep, Look, Remove, Start, Rest, Confirm, Decline, PruneCallFails, Finish, Load, InspectBase,
       ListVolumes, ListImages, ListNetworks, DropReferenced, DropAttached, RecheckVolume, RecheckImage,
       RecheckNetwork, CheckAgain, Finished, RemoveVolume, RemoveImage, RemoveNetwork, RemoveFails, Removed
  <2>2. QED BY <2>1 DEF Loaded, Quiet, InScope
<1>1. CASE Start
  <2>1. UNCHANGED <<cand, kept, left>> /\ ppc = "idle"
        /\ (~command.all /\ (InScope("volumes") \/ InScope("images")) => ppc' = "load")
        /\ ppc' \in {"load", "volumes"}
    BY <1>1 DEF Start, Rest
  <2>2. QED BY <1>0, <2>1 DEF CandidatesUnkept, CatalogKept, Quiet, Listed
<1>2. CASE Decline \/ PruneCallFails \/ Finished
  BY <1>2 DEF Decline, PruneCallFails, Finished, Finish, CandidatesUnkept, CatalogKept, Listed, Nothing
<1>3. CASE Load
  <2>1. /\ cand' = Nothing /\ ppc' = "bases" /\ left' = Loaded \cap Packaged
        /\ \A p \in Profiles : catalog[p] # "gone" => Caches[p] \subseteq kept'.volumes
    <3>1. \A p \in Profiles : catalog[p] # "gone" => catalog[p] = "bad" \/ p \in Loaded
      BY DEF Loaded, ResourcesTypeOK, Status
    <3>2. QED BY <1>3, <3>1, CachesAssumption DEF Load, Scoped
  <2>2. QED BY <1>0, <2>1 DEF CandidatesUnkept, CatalogKept, Nothing
<1>4. CASE InspectBase
  <2>1. /\ ppc = "bases" /\ cand = Nothing /\ cand' = Nothing /\ ppc' \in {"bases", "volumes"}
        /\ kept'.volumes = kept.volumes /\ base' = base
    BY <1>4 DEF InspectBase, Scoped
  <2>2. ASSUME NEW p \in Loaded \cap Packaged, (ppc = "bases" /\ p \in left) \/ KeepsImage(p)
        PROVE  (ppc' = "bases" /\ p \in left') \/ KeepsImage(p)'
    <3>1. CASE left = {}
      BY <1>4, <2>2, <3>1 DEF InspectBase, KeepsImage
    <3>2. CASE left # {}
      <4>1. PICK q \in left : /\ left' = left \ {q} /\ ppc' = ppc
                              /\ kept'.images = IF base = Absent THEN Tags ELSE kept.images \cup {[profile |-> q, base |-> base]}
        BY <1>4, <3>2 DEF InspectBase
      <4>2. q \in Packaged /\ (base # Absent => [profile |-> q, base |-> base] \in Tags)
        BY <2>1, <4>1 DEF Scoped, Tags, ResourcesTypeOK
      <4>3. QED BY <2>1, <2>2, <4>1, <4>2 DEF KeepsImage
    <3>3. QED BY <3>1, <3>2
  <2>3. CatalogKept'
    <3>1. SUFFICES ASSUME Quiet', Listed'
                   PROVE  /\ \A p \in Profiles : catalog[p] # "gone" => Caches[p] \subseteq kept'.volumes
                          /\ \A p \in Loaded \cap Packaged : (ppc' = "bases" /\ p \in left') \/ KeepsImage(p)'
      BY <1>0 DEF CatalogKept
    <3>2. Quiet /\ Listed
      BY <1>0, <2>1, <3>1 DEF Listed
    <3>3. QED BY <2>1, <2>2, <3>2 DEF CatalogKept
  <2>4. QED BY <2>1, <2>3 DEF CandidatesUnkept, Nothing
<1>5. CASE \/ Confirm \/ ListVolumes \/ ListImages \/ ListNetworks \/ DropReferenced \/ DropAttached
           \/ RecheckVolume \/ RecheckImage \/ RecheckNetwork \/ Remove
  <2>1. /\ kept' = kept /\ ppc \notin {"idle", "load", "done", "bases"} /\ ppc' \notin {"idle", "load", "done", "bases"}
    <3>1. CASE Confirm \/ ListVolumes \/ ListImages \/ ListNetworks \/ DropReferenced \/ DropAttached
      BY <3>1 DEF Confirm, ListVolumes, ListImages, ListNetworks, DropReferenced, DropAttached
    <3>2. CASE RecheckVolume \/ RecheckImage \/ RecheckNetwork \/ Remove
      BY <3>2 DEF RecheckVolume, RecheckImage, RecheckNetwork, CheckAgain, Remove, RemoveVolume, RemoveImage, RemoveNetwork,
         RemoveFails, Removed
    <3>3. QED BY <1>5, <3>1, <3>2
  <2>2. CatalogKept'
    <3>1. \A p \in Packaged : KeepsImage(p) => KeepsImage(p)'
      BY <2>1 DEF KeepsImage
    <3>2. QED BY <1>0, <2>1, <3>1 DEF CatalogKept, Listed
  <2>3. CandidatesUnkept'
    <3>1. CASE Confirm \/ ListVolumes \/ ListImages \/ ListNetworks \/ DropReferenced \/ DropAttached
      <4>1. ~command.all =>
              /\ cand'.volumes \subseteq cand.volumes \/ cand'.volumes \cap kept.volumes = {}
              /\ cand'.images \subseteq cand.images \/ cand'.images \cap kept.images = {}
        <5>1. CASE Confirm \/ ListNetworks \/ DropReferenced \/ DropAttached
          BY <5>1 DEF Confirm, ListNetworks, DropReferenced, DropAttached
        <5>2. CASE ListVolumes
          BY <5>2 DEF ListVolumes
        <5>3. CASE ListImages
          BY <5>3 DEF ListImages
        <5>4. QED BY <3>1, <5>1, <5>2, <5>3
      <4>2. ppc' \notin {"removeVolume", "removeImage"}
        BY <3>1 DEF Confirm, ListVolumes, ListImages, ListNetworks, DropReferenced, DropAttached
      <4>3. QED BY <1>0, <2>1, <4>1, <4>2 DEF CandidatesUnkept
    <3>2. CASE RecheckVolume \/ RecheckImage \/ RecheckNetwork
      <4>1. cand'.volumes \subseteq cand.volumes /\ cand'.images \subseteq cand.images
        BY <3>2 DEF RecheckVolume, RecheckImage, RecheckNetwork, CheckAgain, Skip
      <4>2. /\ ppc' = "removeVolume" => left' \subseteq cand.volumes
            /\ ppc' = "removeImage" => left' \subseteq cand.images
        BY <3>2 DEF RecheckVolume, RecheckImage, RecheckNetwork, CheckAgain
      <4>3. QED BY <1>0, <2>1, <4>1, <4>2 DEF CandidatesUnkept
    <3>3. CASE Remove
      <4>1. \E type \in {"volumes", "images", "networks"} : Removed(type)
        BY <3>3 DEF Remove, RemoveVolume, RemoveImage, RemoveNetwork, RemoveFails
      <4>2. cand'.volumes \subseteq cand.volumes /\ cand'.images \subseteq cand.images /\ ppc' = "again"
        BY <4>1 DEF Removed
      <4>3. QED BY <1>0, <2>1, <4>2 DEF CandidatesUnkept
    <3>4. QED BY <1>5, <3>1, <3>2, <3>3
  <2>4. QED BY <2>2, <2>3
<1>6. QED BY <1>1, <1>2, <1>3, <1>4, <1>5 DEF PruneNext, PruneStep, Look

LEMMA NextKept == ASSUME TypeInv, KeptInv, [Next]_vars PROVE KeptInv'
<1>1. CASE PruneNext /\ UNCHANGED <<catalog, base, changed, lock, launchVars>>
  BY <1>1, PruneKeeps
<1>2. CASE (\E l \in Launches : LaunchNext(l)) /\ UNCHANGED pruneVars
  BY <1>2, LaunchAdds, OthersKept DEF TypeInv, TypeOK
<1>3. CASE Edit /\ UNCHANGED pruneVars
  BY <1>3, OthersKept DEF Edit
<1>4. CASE UNCHANGED vars
  BY <1>4, OthersKept DEF vars, resourceVars
<1>5. QED BY <1>1, <1>2, <1>3, <1>4 DEF Next

(* What a removal leaves while the catalog is what it was: the volumes of  *)
(* every profile, and the images of those that resolve.                    *)
LEMMA RemovalKeeps ==
  ASSUME TypeInv, KeptInv, [Next]_vars, Quiet
  PROVE  /\ \A p \in Profiles : catalog[p] # "gone" =>
              volumes \cap Caches[p] \subseteq volumes' /\ filled \cap Caches[p] \subseteq filled'
         /\ \A p \in Loaded \cap Packaged :
              base # Absent => images \cap {[profile |-> p, base |-> base]} \subseteq images'
<1> USE DEF TypeInv, TypeOK
<1>1. CASE RemoveVolume
  <2>1. Listed /\ left \cap kept.volumes = {}
    BY <1>1 DEF RemoveVolume, KeptInv, CandidatesUnkept, Quiet, Listed, Scoped
  <2>2. /\ volumes \ left \subseteq volumes' /\ filled \ left \subseteq filled' /\ images' = images
    BY <1>1 DEF RemoveVolume
  <2>3. QED BY <2>1, <2>2 DEF KeptInv, CatalogKept
<1>2. CASE RemoveImage
  <2>1. Listed /\ left \cap kept.images = {} /\ ppc # "bases"
    BY <1>2 DEF RemoveImage, KeptInv, CandidatesUnkept, Quiet, Listed, Scoped
  <2>2. images \ left \subseteq images' /\ volumes' = volumes /\ filled' = filled
    BY <1>2 DEF RemoveImage
  <2>3. ASSUME NEW p \in Loaded \cap Packaged, base # Absent PROVE [profile |-> p, base |-> base] \notin left
    <3>1. KeepsImage(p)
      BY <2>1, <2>3 DEF KeptInv, CatalogKept
    <3>2. [profile |-> p, base |-> base] \in Tags
      BY <2>3 DEF Tags, ResourcesTypeOK
    <3>3. QED BY <2>1, <2>3, <3>1, <3>2 DEF KeepsImage
  <2>4. QED BY <2>2, <2>3
<1>3. CASE UNCHANGED engineVars \/ RemoveNetwork
  BY <1>3 DEF engineVars, RemoveNetwork
<1>4. CASE \E l \in Launches : LaunchNext(l)
  BY <1>4, LaunchAdds
<1>5. QED
  BY <1>1, <1>2, <1>3, <1>4 DEF Next, PruneNext, PruneStep, Remove, RemoveFails, Edit, vars, resourceVars

(* Without --all prune removes nothing that a profile of the user names,   *)
(* one it cannot read or resolve included: such a profile defers the       *)
(* volumes, an absent base image the images.                               *)
THEOREM OwnedIsKept == Spec => DefaultKeepsOwned
<1>1. TypeInv /\ TypeInv' /\ KeptInv /\ [Next]_vars =>
        [~changed' /\ ~command.all =>
           /\ \A p \in Profiles : catalog[p] # "gone" => volumes \cap Caches[p] \subseteq volumes'
           /\ \A p \in Loaded \cap Packaged :
                base # Absent => images \cap {[profile |-> p, base |-> base]} \subseteq images']_vars
  <2>1. SUFFICES ASSUME TypeInv, KeptInv, [Next]_vars, ~changed', ~command.all
                 PROVE  /\ \A p \in Profiles : catalog[p] # "gone" => volumes \cap Caches[p] \subseteq volumes'
                        /\ \A p \in Loaded \cap Packaged :
                             base # Absent => images \cap {[profile |-> p, base |-> base]} \subseteq images'
    OBVIOUS
  <2>2. ~changed
    <3>1. CASE \E l \in Launches : LaunchNext(l)
      BY <2>1, <3>1, LaunchAdds DEF TypeInv, TypeOK
    <3>2. QED BY <2>1, <3>1 DEF Next, Edit, vars, resourceVars
  <2>3. QED BY <2>1, <2>2, RemovalKeeps DEF Quiet
<1>2. QED BY <1>1, InitBuilds, NextBuilds, InitTyped, NextTypes, InitKept, NextKept, PTL DEF Spec, DefaultKeepsOwned

-----------------------------------------------------------------------------
(* What a launch relies on.  From the inspection of its base image on it   *)
(* works on that content; once the helper is through, its directories are  *)
(* there; once its image is found or built, it stays.  All this while      *)
(* Quiet, by RemovalKeeps.                                                 *)

Joined == {"inspect", "createNet", "reinspect", "attach", "create", "connect", "start"}
Based == {"volume", "look", "lock", "again", "build", "join"} \cup Joined
Found == {"join", "inspect", "createNet", "reinspect", "attach", "create"}

Resolves(l) == pc[l] \in {"exists", "pull", "base"} \cup Based \/ helper[l] # "none"
               => catalog[ProfileOf[l]] = "ok"
OnBase(l) == pc[l] \in Based => base # Absent /\ id[l] = base
HasPaths(l) == /\ helper[l] \in {"remove", "done"} => CachesOf(l) \subseteq filled
               /\ pc[l] \in Joined => helper[l] = "done"
HasImage(l) == pc[l] \in Found /\ Derives(l) => TagOf(l) \in images
Ready(l) == Resolves(l) /\ OnBase(l) /\ HasPaths(l) /\ HasImage(l) /\ pc[l] \notin {"noImage", "noVolume"}

ReadyInv == Quiet => \A l \in Launches : Ready(l)

LEMMA InitReady == ASSUME Init PROVE ReadyInv
  BY DEF Init, ResourcesInit, ReadyInv, Ready, Resolves, OnBase, HasPaths, HasImage, Joined, Based, Found

(* What others may do to a launch that is ready.                           *)
LEMMA StaysReady ==
  ASSUME ResourcesTypeOK, NEW l \in Launches, Ready(l), catalog' = catalog, base' = base \/ base = Absent,
         pc'[l] = pc[l], id'[l] = id[l], helper'[l] = helper[l],
         catalog[ProfileOf[l]] = "ok" => filled \cap CachesOf(l) \subseteq filled',
         OnBase(l) /\ pc[l] \in Found /\ Derives(l) => images \cap {TagOf(l)} \subseteq images'
  PROVE  Ready(l)'
<1>1. Resolves(l)' /\ OnBase(l)' /\ pc'[l] \notin {"noImage", "noVolume"}
  BY DEF Ready, Resolves, OnBase
<1>2. HasPaths(l)'
  BY DEF Ready, Resolves, HasPaths, CachesOf
<1>3. HasImage(l)'
  BY DEF Ready, HasImage, TagOf, Derives
<1>4. QED BY <1>1, <1>2, <1>3 DEF Ready

(* A launch's own step to another call.                                    *)
LEMMA OwnReady ==
  ASSUME BuildInv, TypeInv, NEW l \in Launches, Ready(l), LaunchNext(l), ~changed'
  PROVE  Ready(l)'
<1> USE DEF TypeInv, TypeOK
<1>0. /\ catalog' = catalog /\ filled \subseteq filled' /\ images \subseteq images'
      /\ (base' = base \/ base = Absent)
  BY LaunchAdds
<1>1. CASE Resolve(l) \/ BaseExists(l) \/ Pull(l) \/ LookUp(l) \/ Join(l) \/ Drain(l)
  <2>1. id' = id /\ helper' = helper
    BY <1>1 DEF Resolve, BaseExists, Pull, LookUp, Join, Drain
  <2>2. /\ pc'[l] \in {"exists", "pull", "base"} \cup Based => catalog[ProfileOf[l]] = "ok"
        /\ pc'[l] \in Based => pc[l] \in Based
        /\ pc'[l] \in Joined => pc[l] = "join" /\ helper[l] = "done"
        /\ pc'[l] \in Found /\ Derives(l) => pc[l] = "join" \/ TagOf(l) \in images
        /\ pc'[l] \notin {"noImage", "noVolume"}
    BY <1>1 DEF Resolve, BaseExists, Pull, LookUp, Join, Drain, At, Goto, Ready, Resolves, Based, Joined, Found,
       ResourcesTypeOK
  <2>3. Resolves(l)' /\ OnBase(l)'
    BY <1>0, <2>1, <2>2 DEF Ready, Resolves, OnBase
  <2>4. HasPaths(l)' /\ HasImage(l)'
    BY <1>0, <2>1, <2>2 DEF Ready, HasPaths, HasImage, CachesOf, TagOf, Derives, Found
  <2>5. QED BY <2>2, <2>3, <2>4 DEF Ready
<1>2. CASE LockTag(l) \/ LookAgain(l) \/ Build(l) \/ ImageFails(l)
  <2>1. UNCHANGED <<id, helper, base>> /\ pc[l] \in {"look", "lock", "again", "build"}
        /\ pc'[l] \in {"again", "build", "join", "drain"}
        /\ (pc'[l] = "join" => TagOf(l) \in images')
    <3>1. CASE LockTag(l) \/ ImageFails(l)
      BY <3>1 DEF LockTag, ImageFails, At, Goto, ResourcesTypeOK
    <3>2. CASE LookAgain(l)
      BY <1>0, <3>2 DEF LookAgain, At, Goto, ResourcesTypeOK
    <3>3. CASE Build(l)
      BY <3>3 DEF Build, At, Goto, ResourcesTypeOK
    <3>4. QED BY <1>2, <3>1, <3>2, <3>3
  <2>2. QED
    BY <1>0, <2>1 DEF Ready, Resolves, OnBase, HasPaths, HasImage, Based, Joined, Found, CachesOf, TagOf, Derives
<1>3. CASE ResolveBase(l) \/ EnsureVolume(l)
  <2>1. /\ UNCHANGED <<base, images, filled>> /\ pc[l] \in {"base", "volume"} /\ pc'[l] \in {"volume", "look", "join"}
        /\ base # Absent /\ id'[l] = base
        /\ helper'[l] \in {helper[l], "create"} \/ CachesOf(l) = {}
        /\ pc'[l] = "join" => ~Derives(l)
    BY <1>3 DEF ResolveBase, EnsureVolume, Fork, At, Goto, Ready, OnBase, Based, ResourcesTypeOK, engineVars
  <2>2. QED
    BY <1>0, <2>1 DEF Ready, Resolves, OnBase, HasPaths, HasImage, Based, Joined, Found, CachesOf, TagOf, Derives
<1>4. CASE Helper(l) \/ HelperFails(l)
  <2>1. /\ UNCHANGED <<base, images, pc, id>> /\ helper[l] \in {"create", "mkdir", "remove"}
        /\ helper'[l] \in {"remove", "done"} => helper[l] = "remove" \/ CachesOf(l) \subseteq filled'
    BY <1>4 DEF Helper, CreateHelper, RunHelper, RemoveHelper, HelperFails, ResourcesTypeOK, engineVars
  <2>2. QED
    BY <1>0, <2>1 DEF Ready, Resolves, OnBase, HasPaths, HasImage, CachesOf, TagOf, Derives
<1>5. CASE Connect(l) \/ Main(l) \/ MainExits(l) \/ CallFails(l)
  <2>1. /\ UNCHANGED <<base, id, helper>>
        /\ pc'[l] \in {"exists", "pull", "base"} \cup Based => pc[l] \in Joined /\ pc'[l] \in Joined
        /\ pc'[l] \in Found => pc[l] \in Found
        /\ pc'[l] \notin {"noImage", "noVolume"}
    <3>1. CASE Connect(l)
      BY <3>1 DEF Connect, InspectNetwork, CreateNetwork, ReinspectNetwork, AttachService, At, Goto,
         Based, Joined, Found, ResourcesTypeOK, engineVars
    <3>2. CASE CreateMain(l)
      <4>1. Derives(l) => TagOf(l) \in images
        BY <3>2 DEF CreateMain, At, Ready, HasImage, Found
      <4>2. pc[l] = "create" /\ pc'[l] \in {"connect", "start"} /\ UNCHANGED <<base, id, helper>>
        BY <3>2, <4>1 DEF CreateMain, At, Goto, ResourcesTypeOK
      <4>3. QED BY <4>2 DEF Based, Joined, Found
    <3>3. CASE StartMain(l)
      <4>1. CachesOf(l) \subseteq filled
        BY <3>3 DEF StartMain, At, Ready, HasPaths, Joined
      <4>2. pc'[l] = "run" /\ UNCHANGED <<base, id, helper>>
        BY <3>3, <4>1 DEF StartMain, Goto, ResourcesTypeOK
      <4>3. QED BY <4>2 DEF Based, Joined, Found
    <3>4. CASE ConnectMain(l) \/ RemoveMain(l) \/ MainExits(l) \/ CallFails(l)
      BY <3>4 DEF ConnectMain, RemoveMain, MainExits, CallFails, GiveUp, At, Goto, Based, Joined, Found, ResourcesTypeOK
    <3>5. QED BY <1>5, <3>1, <3>2, <3>3, <3>4 DEF Main
  <2>2. QED
    BY <1>0, <2>1 DEF Ready, Resolves, OnBase, HasPaths, HasImage, Based, CachesOf, TagOf, Derives
<1>6. QED BY <1>1, <1>2, <1>3, <1>4, <1>5 DEF LaunchNext, LaunchStep, Prepare

LEMMA NextReady == ASSUME BuildInv, TypeInv, KeptInv, ReadyInv, [Next]_vars PROVE ReadyInv'
<1> USE DEF TypeInv, TypeOK
<1>1. CASE (\E l \in Launches : LaunchNext(l)) /\ UNCHANGED pruneVars
  <2>1. PICK l \in Launches : LaunchNext(l)
    BY <1>1
  <2>2. SUFFICES ASSUME Quiet', NEW k \in Launches PROVE Ready(k)'
    BY DEF ReadyInv
  <2>3. ~changed' /\ Quiet /\ Ready(k)
    BY <1>1, <2>1, <2>2, LaunchAdds DEF Quiet, ReadyInv, pruneVars
  <2>4. CASE k = l
    BY <2>1, <2>3, <2>4, OwnReady
  <2>5. CASE k # l
    BY <2>1, <2>3, <2>5, LaunchAdds, LaunchFrame, StaysReady
  <2>6. QED BY <2>4, <2>5
<1>2. CASE PruneNext /\ UNCHANGED <<catalog, base, changed, lock, launchVars>>
  <2>1. SUFFICES ASSUME Quiet', NEW k \in Launches PROVE Ready(k)'
    BY DEF ReadyInv
  <2>2. Quiet
    <3>1. command' = command
      BY <1>2 DEF PruneNext, PruneStep, Look, Remove, Start, Rest, Confirm, Decline, PruneCallFails, Finish, Load, InspectBase,
         ListVolumes, ListImages, ListNetworks, DropReferenced, DropAttached, RecheckVolume, RecheckImage,
         RecheckNetwork, CheckAgain, Finished, RemoveVolume, RemoveImage, RemoveNetwork, RemoveFails, Removed
    <3>2. QED BY <1>2, <2>1, <3>1 DEF Quiet
  <2>3. Ready(k) /\ ProfileOf[k] \in Profiles
    BY <2>2, LaunchesAssumption DEF ReadyInv
  <2>4. /\ catalog[ProfileOf[k]] = "ok" => filled \cap CachesOf(k) \subseteq filled'
        /\ OnBase(k) /\ pc[k] \in Found /\ Derives(k) => images \cap {TagOf(k)} \subseteq images'
    <3>1. catalog[ProfileOf[k]] = "ok" => filled \cap CachesOf(k) \subseteq filled'
      BY <2>2, <2>3, RemovalKeeps DEF CachesOf
    <3>2. ASSUME OnBase(k), pc[k] \in Found, Derives(k) PROVE images \cap {TagOf(k)} \subseteq images'
      <4>1. base # Absent /\ id[k] = base /\ catalog[ProfileOf[k]] = "ok"
        BY <2>3, <3>2 DEF OnBase, Ready, Resolves, Found, Based, Joined
      <4>2. ProfileOf[k] \in Loaded \cap Packaged /\ TagOf(k) = [profile |-> ProfileOf[k], base |-> base]
        BY <2>3, <3>2, <4>1 DEF Loaded, Derives, TagOf
      <4>3. QED BY <2>2, <4>1, <4>2, RemovalKeeps
    <3>3. QED BY <3>1, <3>2
  <2>5. UNCHANGED <<catalog, base, pc, id, helper>>
    BY <1>2 DEF launchVars
  <2>6. QED BY <2>3, <2>4, <2>5, StaysReady
<1>3. CASE Edit
  BY <1>3 DEF Edit, ReadyInv, Quiet
<1>4. CASE UNCHANGED vars
  <2>1. UNCHANGED <<catalog, base, changed, command, images, filled, pc, id, helper>>
    BY <1>4 DEF vars, resourceVars, engineVars, launchVars, pruneVars
  <2>2. QED BY <2>1 DEF ReadyInv, Quiet, Ready, Resolves, OnBase, HasPaths, HasImage, CachesOf, TagOf, Derives
<1>5. QED BY <1>1, <1>2, <1>3, <1>4 DEF Next

(* A launch beside prune finds its image and the directories in its        *)
(* volumes, unless a profile or the base image was changed under both or   *)
(* prune was told to remove what the catalog uses.                         *)
THEOREM LaunchesUnharmed == Spec => []LaunchUnharmed
<1>1. ReadyInv /\ TypeInv => LaunchUnharmed
  BY DEF ReadyInv, Quiet, Ready, LaunchUnharmed
<1>2. QED
  BY <1>1, InitBuilds, NextBuilds, InitTyped, NextTypes, InitKept, NextKept, InitReady, NextReady, PTL DEF Spec

-----------------------------------------------------------------------------
(* The network, which prune removes only when it is asked for networks.    *)

OnNetwork(l) == pc[l] \in {"reinspect", "attach", "connect"} \/ (pc[l] = "create" /\ ProfileOf[l] \in Connected)
NetInv == "networks" \notin command.types =>
            \A l \in Launches : pc[l] # "noNetwork" /\ (OnNetwork(l) => network)

LEMMA NextNet == ASSUME BuildInv, TypeInv, NetInv, [Next]_vars PROVE NetInv'
<1> USE DEF TypeInv, TypeOK
<1>1. CASE (\E l \in Launches : LaunchNext(l)) /\ UNCHANGED pruneVars
  <2>1. PICK l \in Launches : LaunchNext(l)
    BY <1>1
  <2>2. network => network'
    BY <2>1, LaunchAdds
  <2>3. \A k \in Launches \ {l} : pc'[k] = pc[k]
    BY <2>1, LaunchFrame
  <2>4. ASSUME OnNetwork(l) => network, pc[l] # "noNetwork" PROVE pc'[l] # "noNetwork" /\ (OnNetwork(l)' => network')
    <3>1. CASE Resolve(l) \/ Prepare(l) \/ Helper(l) \/ ImageFails(l) \/ HelperFails(l)
      <4>1. CASE Resolve(l) \/ Prepare(l) \/ ImageFails(l)
        <5>1. pc'[l] \in {"failed", "pull", "exists", "base", "volume", "look", "lock", "again", "build", "drain",
                          "join", "inspect"} \/ (pc'[l] = "create" /\ ProfileOf[l] \notin Connected)
          BY <4>1 DEF Resolve, Prepare, BaseExists, Pull, ResolveBase, EnsureVolume, Fork, LookUp, LockTag, LookAgain, Build,
             Join, Drain, ImageFails, At, Goto, ResourcesTypeOK
        <5>2. QED BY <5>1 DEF OnNetwork
      <4>2. CASE Helper(l) \/ HelperFails(l)
        BY <2>2, <2>4, <4>2 DEF Helper, CreateHelper, RunHelper, RemoveHelper, HelperFails, OnNetwork
      <4>3. QED BY <3>1, <4>1, <4>2
    <3>2. CASE Connect(l)
      BY <2>4, <3>2 DEF Connect, InspectNetwork, CreateNetwork, ReinspectNetwork, AttachService, At, Goto, OnNetwork,
         ResourcesTypeOK, engineVars
    <3>3. CASE Main(l) \/ MainExits(l) \/ CallFails(l)
      BY <2>2, <2>4, <3>3 DEF Main, CreateMain, ConnectMain, StartMain, RemoveMain, MainExits, CallFails, GiveUp, At, Goto,
         OnNetwork, ResourcesTypeOK
    <3>4. QED BY <2>1, <3>1, <3>2, <3>3 DEF LaunchNext, LaunchStep
  <2>5. QED BY <1>1, <2>2, <2>3, <2>4 DEF NetInv, OnNetwork, pruneVars
<1>2. CASE PruneNext /\ UNCHANGED <<catalog, base, changed, lock, launchVars>>
  <2>1. command' = command
    BY <1>2 DEF PruneNext, PruneStep, Look, Remove, Start, Rest, Confirm, Decline, PruneCallFails, Finish, Load, InspectBase,
       ListVolumes, ListImages, ListNetworks, DropReferenced, DropAttached, RecheckVolume, RecheckImage,
       RecheckNetwork, CheckAgain, Finished, RemoveVolume, RemoveImage, RemoveNetwork, RemoveFails, Removed
  <2>2. "networks" \notin command.types => network' = network
    BY <1>2 DEF PruneNext, PruneStep, Remove, RemoveVolume, RemoveImage, RemoveNetwork, RemoveFails, Scoped, InScope, engineVars
  <2>3. QED BY <1>2, <2>1, <2>2 DEF NetInv, OnNetwork, launchVars
<1>3. CASE (Edit /\ UNCHANGED pruneVars) \/ UNCHANGED vars
  <2>1. UNCHANGED <<network, pc, command>>
    BY <1>3 DEF Edit, vars, resourceVars, engineVars, launchVars, pruneVars
  <2>2. QED BY <2>1 DEF NetInv, OnNetwork
<1>4. QED BY <1>1, <1>2, <1>3 DEF Next

(* Whoever of the launches creates the network, the others find it; only a *)
(* prune of networks takes it from under them.                             *)
THEOREM NetworkIsShared == Spec => []NetworkShared
<1>1. Init => NetInv
  BY DEF Init, ResourcesInit, NetInv, OnNetwork
<1>2. NetInv => NetworkShared
  BY DEF NetInv, NetworkShared
<1>3. QED BY <1>1, <1>2, InitBuilds, NextBuilds, InitTyped, NextTypes, NextNet, PTL DEF Spec
=============================================================================
