---------------------------- MODULE CatalogLoad ----------------------------
(***************************************************************************)
(* From files to a resolved profile: the catalog is loaded, built-ins      *)
(* first and then the user's two directories file by file, names that are  *)
(* taken are dealt with, and in what there is a profile is resolved        *)
(* (ProfileMerge).  A launch loads strictly: the first file with an error  *)
(* ends it.  Prune and completion load tolerantly: they leave it out.      *)
(*                                                                         *)
(* Source: internal/profile/catalog.go.                                    *)
(***************************************************************************)
EXTENDS ProfileMerge

CONSTANTS
  Loads,        \* sets of what may be there: [mode, core, profiles, fragments],
                \* the built-in entries and the user's two directories, by name
  Faulty,       \* a file that cannot be read or parsed, or whose name is not
                \* valid or reserved; a directory that cannot be read
  ProfileOnly   \* scalars no fragment may set: image, command

ASSUME LoadsAssumption ==
  \A loads \in Loads : \A l \in loads :
    /\ l.mode \in {"strict", "tolerant"} /\ l.core \in [DOMAIN l.core -> Files]
    /\ l.profiles \in [DOMAIN l.profiles -> Files \cup {Faulty}]
    /\ l.fragments \in [DOMAIN l.fragments -> Files \cup {Faulty}]
    /\ DOMAIN l.core \cup DOMAIN l.profiles \cup DOMAIN l.fragments \subseteq Names

VARIABLES
  load,  \* what is there
  todo   \* names of the directory that is walked

loading == <<load, todo>>
loadVars == <<vars, loading>>

Init ==
  /\ \E loads \in Loads : load \in loads
  /\ todo = {}
  /\ cat = Empty /\ phase = "builtins" /\ at = ResolveRef(cat, Root)
  /\ ret = Blank /\ stack = <<>> /\ chain = <<>>

Tolerant == load.mode = "tolerant"
Unmoved == UNCHANGED <<load, at, ret, stack, chain>>

(* The embedded files are those of the build; its tests load them.         *)
LoadBuiltins ==
  /\ phase = "builtins" /\ phase' = "profiles"
  /\ cat' = [e \in {"core"} \X DOMAIN load.core |-> load.core[e[2]]]
  /\ todo' = DOMAIN load.profiles
  /\ Unmoved

Add(n, file, fragment) ==
  /\ cat' = [e \in DOMAIN cat \cup {<<"user", n>>} |->
               IF e = <<"user", n>> THEN [file EXCEPT !.fragment = fragment] ELSE cat[e]]
  /\ todo' = todo \ {n} /\ UNCHANGED phase

LeaveOut(n) ==
  /\ IF Tolerant THEN todo' = todo \ {n} /\ UNCHANGED phase
     ELSE phase' = "unloaded" /\ UNCHANGED todo
  /\ UNCHANGED cat

(* Directories named fragments are skipped in here.  No user's fragment is *)
(* loaded yet, so a name cannot be taken by one.                           *)
LoadUserProfile ==
  /\ phase = "profiles"
  /\ \E n \in todo :
       LET file == load.profiles[n]
       IN IF file = Faulty THEN LeaveOut(n) ELSE Add(n, file, FALSE)
  /\ Unmoved

ProfilesLoaded ==
  /\ phase = "profiles" /\ todo = {}
  /\ phase' = "fragments" /\ todo' = DOMAIN load.fragments
  /\ UNCHANGED cat /\ Unmoved

NoFragment(file) == file = Faulty \/ file.scalars \cap ProfileOnly # {}

(* Mutant: a fragment takes the place of the profile of its name.          *)
LoadAnyFragment ==
  /\ phase = "fragments"
  /\ \E n \in todo :
       LET file == load.fragments[n]
       IN IF NoFragment(file)
            THEN LeaveOut(n) ELSE Add(n, file, TRUE)
  /\ Unmoved

LoadUserFragment ==
  /\ phase = "fragments"
  /\ \E n \in todo :
       LET file == load.fragments[n]
       IN IF NoFragment(file) \/ <<"user", n>> \in DOMAIN cat
            THEN LeaveOut(n) ELSE Add(n, file, TRUE)
  /\ Unmoved

(* Names that are a fragment's in one namespace and a profile's in another.*)
CrossTypeDisplayNameCollisions ==
  {n \in Names : \E e, f \in DOMAIN cat :
     e[2] = n /\ f[2] = n /\ cat[e].fragment /\ ~cat[f].fragment}

(* The tolerant load drops the fragments of such a name, whosever.         *)
FragmentsLoaded ==
  /\ phase = "fragments" /\ todo = {}
  /\ LET names == CrossTypeDisplayNameCollisions
         stay == {e \in DOMAIN cat : ~(cat[e].fragment /\ e[2] \in names)}
     IN /\ phase' = IF names # {} /\ ~Tolerant THEN "unloaded" ELSE "lookup"
        /\ cat' = IF Tolerant THEN [e \in stay |-> cat[e]] ELSE cat
  /\ UNCHANGED todo /\ Unmoved

Load == LoadBuiltins \/ LoadUserProfile \/ ProfilesLoaded \/ LoadUserFragment \/ FragmentsLoaded
Next == Load \/ (Resolve /\ UNCHANGED loading)
Spec == Init /\ [][Next]_loadVars
FairSpec == Spec /\ WF_loadVars(Next)

-----------------------------------------------------------------------------
(* Properties.                                                             *)

Sound(dir) == {n \in DOMAIN dir : dir[n] # Faulty}
UserProfiles == Sound(load.profiles)
UserFragments ==
  {n \in Sound(load.fragments) : load.fragments[n].scalars \cap ProfileOnly = {}}
CoreFragments == {n \in DOMAIN load.core : load.core[n].fragment}
ProfileNames == (DOMAIN load.core \ CoreFragments) \cup UserProfiles

(* Nothing is to be left out: no file with an error, no name twice.        *)
Clean ==
  /\ UserProfiles = DOMAIN load.profiles /\ UserFragments = DOMAIN load.fragments
  /\ ProfileNames \cap (CoreFragments \cup UserFragments) = {}

(* All profiles without an error, and all fragments without one whose name *)
(* is no profile's.                                                        *)
UserFile(n) ==
  IF n \in UserProfiles THEN [load.profiles[n] EXCEPT !.fragment = FALSE]
  ELSE [load.fragments[n] EXCEPT !.fragment = TRUE]
Expected ==
  [e \in ({"core"} \X (DOMAIN load.core \ (CoreFragments \cap ProfileNames)))
           \cup ({"user"} \X (UserProfiles \cup (UserFragments \ ProfileNames))) |->
     IF e[1] = "core" THEN load.core[e[2]] ELSE UserFile(e[2])]

(* A strict load is refused exactly when something would be left out, and  *)
(* one broken file hides nothing else from prune: what is loaded does not  *)
(* depend on the order of the files.                                       *)
LoadsWhatIsSound ==
  /\ phase = "unloaded" => ~Tolerant /\ ~Clean
  /\ phase = "lookup" => (Tolerant \/ Clean) /\ cat = Expected

(* Loading and resolution come to an end, whatever the files.              *)
Ends == <>(phase \in {"accepted", "failed", "unloaded"})
=============================================================================
