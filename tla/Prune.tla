------------------------------- MODULE Prune -------------------------------
(***************************************************************************)
(* tpd prune beside launches: it lists what tpd owns and no profile uses,  *)
(* leaves out what containers use, asks, and removes one thing at a time,  *)
(* each after another look at the containers.                              *)
(*                                                                         *)
(* Source: internal/prune/prune.go.                                        *)
(***************************************************************************)
EXTENDS Resources

CONSTANTS Commands   \* the flags prune is called with: [all, types]

ASSUME CommandsAssumption ==
  Commands \subseteq [all : BOOLEAN, types : SUBSET {"volumes", "images", "networks"}]

VARIABLES
  ppc,      \* the step prune is at
  command,  \* its flags
  left,     \* profiles whose base image it still has to inspect
  kept,     \* what the catalog uses: [volumes, images]
  cand,     \* what it is about to remove: [volumes, images, networks]
  before    \* history: the launches that had a live container at its yes

pruneVars == <<ppc, command, left, kept, cand, before>>
vars == <<resourceVars, pruneVars>>

InScope(type) ==
  IF command.types = {} THEN type \in {"volumes", "images"} ELSE type \in command.types
Live(l) == ctr[l] \in {"created", "running"}
Nothing == [volumes |-> {}, images |-> {}, networks |-> {}]
Loaded == {p \in Profiles : catalog[p] = "ok"}

(* Mutant: only running containers count.                                  *)
RunningOnly(l) == ctr[l] = "running"
LiveContainer(l) == Live(l)

(* runningContainerRefs: helpers are containers too.                       *)
VolumesInUse == UNION {CachesOf(l) : l \in {k \in Launches : LiveContainer(k) \/ helper[k] = "mkdir"}}
ImagesInUse == {TagOf(l) : l \in {k \in Launches : LiveContainer(k) /\ Derives(k)}}
NetworksInUse == {n \in {"services"} : \E l \in Launches : attached[l]}

Rest == <<command, left, kept, cand, before>>

(* An error ends prune; so does having nothing left to do.                 *)
Finish ==
  /\ ppc' = "done" /\ left' = {} /\ cand' = Nothing /\ before' = {}
  /\ kept' = [volumes |-> {}, images |-> {}]
  /\ UNCHANGED command

-----------------------------------------------------------------------------
(* What the catalog uses.                                                  *)

Start ==
  /\ ppc = "idle"
  /\ ppc' = IF ~command.all /\ (InScope("volumes") \/ InScope("images"))
            THEN "load" ELSE "volumes"
  /\ UNCHANGED Rest

(* Mutant: a profile that cannot be assessed uses nothing.                 *)
LoadAsFar ==
  /\ ppc = "load" /\ ppc' = "bases"
  /\ left' = Loaded \cap Packaged
  /\ kept' = [kept EXCEPT !.volumes = UNION {Caches[p] : p \in Loaded}]
  /\ UNCHANGED <<command, cand, before>>

(* One bad profile defers all volumes.                                     *)
Load ==
  /\ ppc = "load" /\ ppc' = "bases"
  /\ left' = Loaded \cap Packaged
  /\ kept' = [kept EXCEPT !.volumes =
                IF \E p \in Profiles : catalog[p] = "bad" THEN Volumes
                ELSE UNION {Caches[p] : p \in Loaded}]
  /\ UNCHANGED <<command, cand, before>>

(* Mutant: a profile whose base image is not there uses no image.          *)
InspectBaseAsFar ==
  /\ ppc = "bases"
  /\ IF left = {} THEN ppc' = "volumes" /\ UNCHANGED <<left, kept>>
     ELSE \E p \in left :
            /\ left' = left \ {p} /\ UNCHANGED ppc
            /\ kept' = [kept EXCEPT !.images = @ \cup ({[profile |-> p, base |-> base]} \cap Tags)]
  /\ UNCHANGED <<command, cand, before>>

(* A base image that is not there defers all images.                       *)
InspectBase ==
  /\ ppc = "bases"
  /\ IF left = {} THEN ppc' = "volumes" /\ UNCHANGED <<left, kept>>
     ELSE \E p \in left :
            /\ left' = left \ {p} /\ UNCHANGED ppc
            /\ kept' = [kept EXCEPT !.images =
                          IF base = Absent THEN Tags ELSE @ \cup {[profile |-> p, base |-> base]}]
  /\ UNCHANGED <<command, cand, before>>

-----------------------------------------------------------------------------
(* The candidates: owned, not used by the catalog, not in use.             *)

ListVolumes ==
  /\ ppc = "volumes" /\ ppc' = "images"
  /\ cand' = [cand EXCEPT !.volumes = {v \in owned : InScope("volumes") /\ (command.all \/ v \notin kept.volumes)}]
  /\ UNCHANGED <<command, left, kept, before>>

ListImages ==
  /\ ppc = "images" /\ ppc' = "networks"
  /\ cand' = [cand EXCEPT !.images = {t \in images : InScope("images") /\ (command.all \/ t \notin kept.images)}]
  /\ UNCHANGED <<command, left, kept, before>>

ListNetworks ==
  /\ ppc = "networks" /\ ppc' = "refs"
  /\ cand' = [cand EXCEPT !.networks = {n \in {"services"} : InScope("networks") /\ network}]
  /\ UNCHANGED <<command, left, kept, before>>

DropReferenced ==
  /\ ppc = "refs" /\ ppc' = "attachments"
  /\ cand' = [cand EXCEPT !.volumes = @ \ VolumesInUse, !.images = @ \ ImagesInUse]
  /\ UNCHANGED <<command, left, kept, before>>

DropAttached ==
  /\ ppc = "attachments" /\ ppc' = "confirm"
  /\ cand' = [cand EXCEPT !.networks = @ \ NetworksInUse]
  /\ UNCHANGED <<command, left, kept, before>>

(* The user may take any time to answer; --force is an immediate yes.      *)
Confirm ==
  /\ ppc = "confirm" /\ cand # Nothing /\ ppc' = "again"
  /\ before' = {l \in Launches : Live(l)}
  /\ UNCHANGED <<command, left, kept, cand>>

Decline ==
  /\ ppc = "confirm" /\ Finish

-----------------------------------------------------------------------------
(* Removal: volumes, then images, then the network.                        *)

Skip(type, x) == cand' = [cand EXCEPT ![type] = @ \ {x}]

CheckAgain(type, next, inUse) ==
  /\ \E x \in cand[type] :
       IF x \in inUse THEN Skip(type, x) /\ UNCHANGED <<ppc, left>>
       ELSE ppc' = next /\ left' = {x} /\ UNCHANGED cand
  /\ UNCHANGED <<command, kept, before>>

RecheckVolume ==
  /\ ppc = "again" /\ CheckAgain("volumes", "removeVolume", VolumesInUse)

RecheckImage ==
  /\ ppc = "again" /\ cand.volumes = {}
  /\ CheckAgain("images", "removeImage", ImagesInUse)

RecheckNetwork ==
  /\ ppc = "again" /\ cand.volumes = {} /\ cand.images = {}
  /\ CheckAgain("networks", "removeNetwork", NetworksInUse)

Finished == ppc = "again" /\ cand = Nothing /\ Finish

Removed(type) ==
  /\ ppc' = "again" /\ left' = {} /\ cand' = [cand EXCEPT ![type] = @ \ left]
  /\ UNCHANGED <<command, kept, before>>

(* The engine refuses while any container has the volume, in whatever      *)
(* state, while a container runs on the image, while one is in the network.*)
(* What it refuses, or fails to do, is recorded, and prune goes on.        *)
RemoveVolume ==
  /\ ppc = "removeVolume" /\ Removed("volumes")
  /\ LET gone == {v \in left : \A l \in Launches : ~Holds(l, v)}
     IN  volumes' = volumes \ gone /\ owned' = owned \ gone /\ filled' = filled \ gone
  /\ UNCHANGED <<images, network>>

RemoveImage ==
  /\ ppc = "removeImage" /\ Removed("images")
  /\ images' = images \ {t \in left : \A l \in Launches : ~RunsOn(l, t)}
  /\ UNCHANGED <<volumes, owned, filled, network>>

RemoveNetwork ==
  /\ ppc = "removeNetwork" /\ Removed("networks")
  /\ network' = (network /\ NetworksInUse # {})
  /\ UNCHANGED <<images, volumes, owned, filled>>

RemoveFails ==
  /\ \/ ppc = "removeVolume" /\ Removed("volumes")
     \/ ppc = "removeImage" /\ Removed("images")
     \/ ppc = "removeNetwork" /\ Removed("networks")
  /\ UNCHANGED engineVars

Remove == RemoveVolume \/ RemoveImage \/ RemoveNetwork \/ RemoveFails

(* Any other call that fails ends prune.                                   *)
PruneCallFails ==
  /\ ppc \notin {"idle", "confirm", "done", "removeVolume", "removeImage", "removeNetwork"}
  /\ Finish

Look == \/ Load \/ InspectBase \/ ListVolumes \/ ListImages \/ ListNetworks
        \/ DropReferenced \/ DropAttached \/ RecheckVolume \/ RecheckImage \/ RecheckNetwork
        \/ Finished
PruneStep == \/ Look /\ UNCHANGED engineVars
             \/ Remove
PruneNext == \/ (Start \/ Confirm \/ Decline \/ PruneCallFails) /\ UNCHANGED engineVars
             \/ PruneStep

-----------------------------------------------------------------------------
Init ==
  /\ ResourcesInit
  /\ ppc = "idle" /\ command \in Commands /\ left = {} /\ cand = Nothing /\ before = {}
  /\ kept = [volumes |-> {}, images |-> {}]

Next == \/ PruneNext /\ UNCHANGED <<catalog, base, changed, lock, launchVars>>
        \/ (Edit \/ \E l \in Launches : LaunchNext(l)) /\ UNCHANGED pruneVars

Spec == Init /\ [][Next]_vars

-----------------------------------------------------------------------------
TypeOK ==
  /\ ResourcesTypeOK
  /\ ppc \in {"idle", "done", "load", "bases", "volumes", "images", "networks", "refs", "attachments",
              "confirm", "again", "removeVolume", "removeImage", "removeNetwork"}
  /\ command \in Commands
  /\ CASE ppc = "removeVolume" -> left \subseteq Volumes
       [] ppc = "removeImage" -> left \subseteq Tags
       [] ppc = "removeNetwork" -> left = {"services"}
       [] OTHER -> left \subseteq Profiles
  /\ kept \in [volumes : SUBSET Volumes, images : SUBSET Tags]
  /\ cand \in [volumes : SUBSET Volumes, images : SUBSET Tags, networks : SUBSET {"services"}]
  /\ before \subseteq Launches

(* A launch loses a volume or an image to prune only if a profile or the   *)
(* base image was changed meanwhile, or prune had --all.                   *)
LaunchUnharmed ==
  \A l \in Launches : pc[l] \in {"noImage", "noVolume"} => changed \/ command.all

(* Without --all, prune removes no volume of a profile the user still has, *)
(* read or unreadable, and not the current image of one that resolves.     *)
DefaultKeepsOwned ==
  [][~changed' /\ ~command.all =>
       /\ \A p \in Profiles : catalog[p] # "gone" => volumes \cap Caches[p] \subseteq volumes'
       /\ \A p \in Loaded \cap Packaged :
            base # Absent => images \cap {[profile |-> p, base |-> base]} \subseteq images']_vars

(* Not even --all removes what a container uses that was there when the    *)
(* user said yes, started or not, listed in the question or not.           *)
ActiveSpared ==
  [][\A l \in before : Live(l) =>
       /\ volumes \cap CachesOf(l) \subseteq volumes'
       /\ Derives(l) => images \cap {TagOf(l)} \subseteq images']_vars

(* No launch builds an image that is there by the time the build ends.     *)
NoRebuild == [][\A l \in Launches : Build(l) => TagOf(l) \notin images]_vars

(* Launches that create the network at once all get it.                    *)
NetworkShared == \A l \in Launches : pc[l] = "noNetwork" => "networks" \in command.types

(* Whoever has a build lock is at the build: no end of a launch leaves it   *)
(* locked to the next.                                                     *)
LockHasBuilder == \A t \in Tags : lock[t] # Nobody => pc[lock[t]] \in {"again", "build"}
=============================================================================
