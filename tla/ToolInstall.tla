---------------------------- MODULE ToolInstall ----------------------------
(***************************************************************************)
(* The shell command a main container starts with: it writes mise's        *)
(* config, adds the runtimes of backends, installs the embedded plug-in    *)
(* into the cache volume that all containers share, runs mise install and  *)
(* then the profile's command.  Each container's script is a process, each *)
(* system call that others can see is a step.                              *)
(*                                                                         *)
(* Source: internal/mise/mise.go, internal/mise/plugins.go, and the list   *)
(* of parts in CreateContainer, internal/runtime/docker_run.go.            *)
(***************************************************************************)
EXTENDS Integers, FiniteSets

CONSTANTS
  Containers,
  Versions,   \* hashes of embedded plug-in trees
  Tpds,       \* Tpds[c]: those of the tpds that may create container c
  Files,      \* how many files a plug-in has
  Names,      \* tools a profile may declare
  Tools,      \* Tools[c]: those of container c
  Backend,    \* Backend[t]: "npm", "pipx", "appimage" by the prefix of t; or "none"
  Registry,   \* Registry[t]: what mise's registry says of a tool without prefix
  Kills,      \* whether containers are killed, which may be at any step
  None

Runtime == {"node", "uv", "pipx"}
Backends == {"npm", "pipx", "appimage", "none"}
ASSUME ToolsAssumption ==
  /\ Tpds \in [Containers -> (SUBSET Versions) \ {{}}]
  /\ Files \in Nat \ {0} /\ Kills \in BOOLEAN /\ Versions \cap Nat = {}
  /\ Tools \in [Containers -> SUBSET Names]
  /\ Runtime \subseteq Names /\ \A r \in Runtime : Backend[r] = "none"
  /\ Backend \in [Names -> Backends] /\ Registry \in [Names -> {"npm", "pipx", "other"}]
  /\ None \notin Versions /\ "dir" \notin Versions /\ None # "dir"
  /\ None \notin [1 .. Files + 1 \cup Versions -> {"none", "partial", "whole"}]

(* The marker is written like a file, after them.  A version among the     *)
(* parts is no file of the plug-in: a link that ln has put there.          *)
Marker == Files + 1
Parts == 1 .. Marker \cup Versions
Fresh == [f \in Parts |-> IF f \in Versions THEN "none" ELSE "whole"]
Empty == [f \in Parts |-> "none"]

VARIABLES
  dir,      \* dir[v]: the files in appimage-v; None: there is no directory
  pointer,  \* plugins/appimage: None, a link to a version, or an old directory
  tmp,      \* plugins/appimage.tmp: None, or a link to a version
  pc,       \* pc[c]: the step of c's script
  want,     \* want[c]: the plug-in of the tpd that created c
  todo,     \* todo[c]: what its rm -rf has listed and not yet unlinked
  part,     \* part[c]: the file it is at
  lost,     \* lost[c]: the file it writes was unlinked meanwhile
  cfg,      \* cfg[c]: the tools in its config file
  ready,    \* ready[c]: its mise install succeeded
  spared,   \* history: no write to c's config and no download of it failed
  met,      \* history: two scripts were at the plug-in at once
  collided  \* history: and what they did there broke the pointer's promise

volume == <<dir, pointer, tmp>>
own == <<want, todo, part, lost, cfg, ready, spared>>
history == <<met, collided>>
vars == <<volume, pc, own, history>>

(* The plug-in's command, and what of it changes the volume.               *)
Installing == {"list", "unlink", "mkdir", "open", "write",
               "isLink", "clearPointer", "clearTmp", "link", "swap"}
Command == {"check", "readlink"} \cup Installing
Script == {"config", "runtimes", "unnamed", "install"} \cup Command

Init ==
  /\ dir \in [Versions -> {None, Fresh}]
  /\ pointer \in {None, "dir"} \cup {v \in Versions : dir[v] # None}
  /\ tmp = None
  /\ pc = [c \in Containers |-> "gone"]
  /\ want = [c \in Containers |-> CHOOSE v \in Tpds[c] : TRUE]
  /\ todo = [c \in Containers |-> {}]
  /\ part = [c \in Containers |-> 1]
  /\ lost = [c \in Containers |-> FALSE]
  /\ cfg = [c \in Containers |-> {}]
  /\ ready = [c \in Containers |-> FALSE]
  /\ spared = [c \in Containers |-> TRUE]
  /\ met = FALSE /\ collided = FALSE

At(c, p) == pc[c] = p
Goto(c, p) == pc' = [pc EXCEPT ![c] = p]

(* The parts are one list "a && ... && eval ... || true && exec command":  *)
(* the shell goes on with exec whatever failed before.                     *)
Fails(c) == Goto(c, "running")

-----------------------------------------------------------------------------
(* Before the plug-in.                                                     *)

(* RunContainer: a new container on the same volume.                       *)
Start(c) ==
  /\ At(c, "gone") /\ Goto(c, "config")
  /\ \E v \in Tpds[c] : want' = [want EXCEPT ![c] = v]
  /\ UNCHANGED <<volume, todo, part, lost, cfg, ready, spared>>

(* Tools whose backend has to be asked for, or is in the name.             *)
Unprefixed(T) == {t \in T \ Runtime : Backend[t] \notin {"npm", "pipx"}}
BackedBy(T, b) == {t \in T \ Runtime : Backend[t] = b} \cup {t \in Unprefixed(T) : Registry[t] = b}
NeedNode(T) == "node" \notin T
NeedUV(T) == T \cap {"uv", "pipx"} = {}

(* What the snippet appends to the config.                                 *)
Runtimes(T) ==
  {r \in {"node"} : NeedNode(T) /\ BackedBy(T, "npm") # {}}
    \cup {r \in {"uv"} : NeedUV(T) /\ BackedBy(T, "pipx") # {}}

(* It stands on lines of its own, so what fails before it stops nothing.   *)
Snippet(T) ==
  /\ NeedNode(T) \/ NeedUV(T)
  /\ \/ Unprefixed(T) # {}
     \/ NeedNode(T) /\ \E t \in T : Backend[t] = "npm"
     \/ NeedUV(T) /\ \E t \in T : Backend[t] = "pipx"

NeedsPlugin(T) == \E t \in T : Backend[t] = "appimage"

(* cd to the workspace, and the config file.                               *)
Config(c) ==
  /\ At(c, "config") /\ Goto(c, "runtimes")
  /\ cfg' = [cfg EXCEPT ![c] = Tools[c]]
  /\ UNCHANGED <<volume, want, todo, part, lost, ready, spared>>

(* The workspace is gone, or the file cannot be written.  The name of the  *)
(* file is not set then: it is on the snippet's first line.                *)
ConfigFails(c) ==
  /\ At(c, "config")
  /\ IF Snippet(Tools[c]) THEN Goto(c, "unnamed") ELSE Fails(c)
  /\ spared' = [spared EXCEPT ![c] = FALSE]
  /\ UNCHANGED <<volume, want, todo, part, lost, cfg, ready>>

AfterRuntimes(T) == IF NeedsPlugin(T) THEN "check" ELSE "install"

AddRuntimes(c) ==
  /\ At(c, "runtimes") /\ Goto(c, AfterRuntimes(Tools[c]))
  /\ cfg' = [cfg EXCEPT ![c] = @ \cup Runtimes(Tools[c])]
  /\ UNCHANGED <<volume, want, todo, part, lost, ready, spared>>

(* Each line adds one runtime; only what the last one returns stops the    *)
(* script.                                                                 *)
LastLine(T) ==
  IF NeedUV(T) /\ (Unprefixed(T) # {} \/ \E t \in T : Backend[t] = "pipx") THEN "uv" ELSE "node"

RuntimesFail(c) ==
  /\ At(c, "unnamed") \/ (At(c, "runtimes") /\ Runtimes(Tools[c]) # {})
  /\ IF LastLine(Tools[c]) \in Runtimes(Tools[c]) THEN Fails(c)
     ELSE Goto(c, AfterRuntimes(Tools[c]))
  /\ spared' = [spared EXCEPT ![c] = FALSE]
  /\ UNCHANGED <<volume, want, todo, part, lost, cfg, ready>>

-----------------------------------------------------------------------------
(* The plug-in: nothing to do, or rm -rf, the files one by one, the marker.*)

(* Mutant: what is up to date is installed again.                          *)
NeverUpToDate(c) == FALSE
PointerMatches(c) == pointer = want[c]
MarkerMatches(c) == dir[want[c]] # None /\ dir[want[c]][Marker] = "whole"

(* test -f and cat of the marker, then readlink of the pointer.            *)
Check(c) ==
  /\ At(c, "check")
  /\ Goto(c, IF MarkerMatches(c) THEN "readlink" ELSE "list")
  /\ UNCHANGED <<volume, own>>

ReadLink(c) ==
  /\ At(c, "readlink")
  /\ Goto(c, IF PointerMatches(c) THEN "install" ELSE "list")
  /\ UNCHANGED <<volume, own>>

List(c) ==
  /\ At(c, "list")
  /\ todo' = [todo EXCEPT ![c] = IF dir[want[c]] = None THEN {}
                                 ELSE {f \in Parts : dir[want[c]][f] # "none"}]
  /\ part' = [part EXCEPT ![c] = 1]
  /\ Goto(c, "unlink")
  /\ UNCHANGED <<volume, want, lost, cfg, ready, spared>>

(* Any order; whoever has the file open goes on writing it, unseen.        *)
Unlink(c) ==
  /\ At(c, "unlink")
  /\ \E f \in todo[c] :
       /\ todo' = [todo EXCEPT ![c] = @ \ {f}]
       /\ IF dir[want[c]] = None THEN UNCHANGED <<dir, lost>>
          ELSE /\ dir' = [dir EXCEPT ![want[c]][f] = "none"]
               /\ lost' = [d \in Containers |->
                             lost[d] \/ (At(d, "write") /\ want[d] = want[c] /\ part[d] = f)]
  /\ UNCHANGED <<pointer, tmp, pc, want, part, cfg, ready, spared>>

(* What was added since the listing keeps the directory.                   *)
RemoveDir(c) ==
  /\ At(c, "unlink") /\ todo[c] = {}
  /\ IF dir[want[c]] \in {None, Empty}
     THEN Goto(c, "mkdir") /\ dir' = [dir EXCEPT ![want[c]] = None]
     ELSE Fails(c) /\ UNCHANGED dir
  /\ UNCHANGED <<pointer, tmp, own>>

Mkdir(c) ==
  /\ At(c, "mkdir") /\ Goto(c, "open")
  /\ dir' = [dir EXCEPT ![want[c]] = IF @ = None THEN Empty ELSE @]
  /\ UNCHANGED <<pointer, tmp, own>>

(* "> file" truncates it before anything is written.                       *)
Open(c) ==
  /\ At(c, "open")
  /\ IF dir[want[c]] = None THEN Fails(c) /\ UNCHANGED <<dir, lost>>
     ELSE /\ Goto(c, "write")
          /\ dir' = [dir EXCEPT ![want[c]][part[c]] = "partial"]
          /\ lost' = [lost EXCEPT ![c] = FALSE]
  /\ UNCHANGED <<pointer, tmp, want, todo, part, cfg, ready, spared>>

(* mkdir again before every file, but not before the marker.               *)
NextPart(c) ==
  /\ part' = [part EXCEPT ![c] = IF @ = Marker THEN 1 ELSE @ + 1]
  /\ Goto(c, IF part[c] = Marker THEN "isLink" ELSE IF part[c] = Files THEN "open" ELSE "mkdir")

Write(c) ==
  /\ At(c, "write")
  /\ dir' = IF lost[c] \/ dir[want[c]] = None THEN dir
            ELSE [dir EXCEPT ![want[c]][part[c]] = "whole"]
  /\ lost' = [lost EXCEPT ![c] = FALSE]
  /\ NextPart(c)
  /\ UNCHANGED <<pointer, tmp, want, todo, cfg, ready, spared>>

-----------------------------------------------------------------------------
(* The pointer: whatever is no link goes, then a new link is renamed over. *)

IsLink(c) ==
  /\ At(c, "isLink")
  /\ Goto(c, IF pointer \in Versions THEN "clearTmp" ELSE "clearPointer")
  /\ UNCHANGED <<volume, own>>

ClearPointer(c) ==
  /\ At(c, "clearPointer") /\ Goto(c, "clearTmp")
  /\ pointer' = None
  /\ UNCHANGED <<dir, tmp, own>>

(* Mutant: a link left by a killed script stays.                           *)
KeepTmp(c) ==
  /\ At(c, "clearTmp") /\ Goto(c, "link")
  /\ UNCHANGED <<volume, own>>

ClearTmp(c) ==
  /\ At(c, "clearTmp") /\ Goto(c, "link")
  /\ tmp' = None
  /\ UNCHANGED <<dir, pointer, own>>

Link(c) ==
  /\ At(c, "link") /\ tmp = None
  /\ Goto(c, "swap") /\ tmp' = want[c]
  /\ UNCHANGED <<dir, pointer, own>>

(* With a link of another script in its place, ln follows it: the new link *)
(* goes into the directory, or there is one already, or no directory.      *)
LinkAstray(c) ==
  /\ At(c, "link") /\ tmp # None
  /\ IF dir[tmp] # None /\ dir[tmp][want[c]] = "none"
     THEN Goto(c, "swap") /\ dir' = [dir EXCEPT ![tmp][want[c]] = "whole"]
     ELSE Fails(c) /\ UNCHANGED dir
  /\ UNCHANGED <<pointer, tmp, own>>

(* The link need not be its own any more; no link replaces a directory.    *)
Swap(c) ==
  /\ At(c, "swap")
  /\ IF tmp = None \/ pointer = "dir" THEN Fails(c) /\ UNCHANGED <<pointer, tmp>>
     ELSE Goto(c, "install") /\ pointer' = tmp /\ tmp' = None
  /\ UNCHANGED <<dir, own>>

-----------------------------------------------------------------------------
(* mise install reads the config and follows the pointer.                  *)

Whole(v) == dir[v] # None /\ \A f \in 1 .. Files : dir[v][f] = "whole"
PluginWhole == pointer \in Versions /\ Whole(pointer)

Installable(T) ==
  /\ BackedBy(T, "npm") # {} => "node" \in T
  /\ BackedBy(T, "pipx") # {} => T \cap {"uv", "pipx"} # {}
  /\ NeedsPlugin(T) => PluginWhole

Install(c) ==
  /\ At(c, "install") /\ Goto(c, "running")
  /\ ready' = [ready EXCEPT ![c] = Tools[c] \subseteq cfg[c] /\ Installable(cfg[c])]
  /\ UNCHANGED <<volume, want, todo, part, lost, cfg, spared>>

(* A download fails.                                                       *)
InstallFails(c) ==
  /\ At(c, "install") /\ Fails(c)
  /\ spared' = [spared EXCEPT ![c] = FALSE]
  /\ UNCHANGED <<volume, want, todo, part, lost, cfg, ready>>

-----------------------------------------------------------------------------
(* The container is removed, and what the script knew with it.             *)
Remove(c) ==
  /\ Goto(c, "gone")
  /\ todo' = [todo EXCEPT ![c] = {}] /\ part' = [part EXCEPT ![c] = 1]
  /\ lost' = [lost EXCEPT ![c] = FALSE]
  /\ cfg' = [cfg EXCEPT ![c] = {}] /\ ready' = [ready EXCEPT ![c] = FALSE]
  /\ spared' = [spared EXCEPT ![c] = TRUE]
  /\ UNCHANGED <<volume, want>>
Exit(c) == At(c, "running") /\ Remove(c)

Kill(c) == Kills /\ pc[c] \in Script /\ Remove(c)

Step == \E c \in Containers :
  \/ Start(c) \/ Config(c) \/ ConfigFails(c) \/ AddRuntimes(c) \/ RuntimesFail(c)
  \/ Check(c) \/ ReadLink(c)
  \/ List(c) \/ Unlink(c) \/ RemoveDir(c) \/ Mkdir(c) \/ Open(c) \/ Write(c)
  \/ IsLink(c) \/ ClearPointer(c) \/ ClearTmp(c) \/ Link(c) \/ LinkAstray(c) \/ Swap(c)
  \/ Install(c) \/ InstallFails(c) \/ Exit(c) \/ Kill(c)

(* No lock keeps a script out of the plug-in's command while another one   *)
(* changes the volume.                                                     *)
Beside(c, d) == c # d /\ pc[c] \in Command /\ pc[d] \in Installing
Meet == \E c, d \in Containers : Beside(c, d)

(* The two ways in which that does harm: both have the same version, or    *)
(* one is killed between its ln and its mv, which leaves the only name all *)
(* versions have for a new link to another one past its rm of that name.   *)
SameVersion == \E c, d \in Containers : Beside(c, d) /\ want[c] = want[d]
LeavesLink == \E c, d \in Containers :
  /\ c # d /\ At(c, "swap") /\ pc'[c] = "gone"
  /\ pc[d] \in {"link", "swap"}

Next ==
  /\ Step
  /\ met' = (met \/ Meet')
  /\ collided' = (collided \/ SameVersion' \/ LeavesLink)

Spec == Init /\ [][Next]_vars

-----------------------------------------------------------------------------
(* Properties.                                                             *)

(* What plugins.go says of the pointer: mise, "which follows the symlink — *)
(* never sees a partially written plugin dir".                             *)
SeesWhole == pointer \in Versions => Whole(pointer)

(* When all scripts are through, mise finds a plug-in whole or none.       *)
SettledPlugin == (\A c \in Containers : pc[c] \notin Script) => SeesWhole

(* Where the code keeps its word: unless scripts have collided, whoever    *)
(* follows the pointer finds every file whole, of whatever versions the    *)
(* tpds are, at whatever steps containers are killed and while others      *)
(* install other versions.                                                 *)
PointerIsWhole == ~collided => SeesWhole

(* As long as no two have met there at all, each script that failed no     *)
(* write and no download of its own ends with its tools installable,       *)
(* whatever killed ones have left in the volume.                           *)
ScriptsGetTools ==
  ~met => \A c \in Containers : At(c, "running") /\ spared[c] => ready[c]

(* What a run explores when all it checks has this for a premise: history  *)
(* never becomes false again.                                              *)
NotCollided == ~collided

(* What a failed step of the script means to its end: the command runs     *)
(* only with the tools its profile declares.                               *)
CommandHasTools == \A c \in Containers : At(c, "running") => ready[c]
=============================================================================
