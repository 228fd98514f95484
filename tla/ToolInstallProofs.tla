------------------------- MODULE ToolInstallProofs -------------------------
(***************************************************************************)
(* Theorems about ToolInstall, for any containers, versions and files, any *)
(* kills and any tpds.  Nothing in the code keeps two scripts apart, so    *)
(* the premises are about what has happened: that no two have collided,    *)
(* or met, at the plug-in (collided and met in ToolInstall; that they do   *)
(* not hold by themselves is described in README.md, section 8).           *)
(* While none have collided, only one script at a time writes a version's  *)
(* directory, and whoever swaps the pointer finds there the link of one    *)
(* that has completed its version and waits to swap itself.                *)
(***************************************************************************)
EXTENDS ToolInstall, TLAPS

Apart == ~SameVersion

(* Where a script replaces its directory, and where it has replaced it.    *)
Replacing == {"list", "unlink", "mkdir", "open", "write"}
Pointing == {"isLink", "clearPointer", "clearTmp", "link", "swap"}

Trees == [Parts -> {"none", "partial", "whole"}]
Complete(v) == dir[v] # None /\ \A f \in 1 .. Marker : dir[v][f] = "whole"

PluginTypes ==
  /\ dir \in [Versions -> {None} \cup Trees]
  /\ pointer \in {None, "dir"} \cup Versions
  /\ tmp \in {None} \cup Versions
  /\ pc \in [Containers -> Script \cup {"running", "gone"}]
  /\ want \in [Containers -> Versions]
  /\ todo \in [Containers -> SUBSET Parts]
  /\ part \in [Containers -> 1 .. Marker]
  /\ lost \in [Containers -> BOOLEAN]

PointerInv ==
  pointer \in Versions =>
    Complete(pointer) /\ \A c \in Containers : want[c] = pointer => pc[c] \notin Replacing

LinkInv ==
  \A d \in Containers : pc[d] \in {"link", "swap"} /\ tmp # None
    => \E c \in Containers : want[c] = tmp /\ pc[c] = "swap"

(* What a script has written so far, and what it has done with it.         *)
WrittenInv == \A c \in Containers :
  /\ pc[c] \in {"mkdir", "open", "write"} =>
       /\ \A f \in 1 .. Marker : f < part[c] => dir[want[c]] # None /\ dir[want[c]][f] = "whole"
  /\ pc[c] = "unlink" => part[c] = 1
  /\ pc[c] \in {"open", "write"} => dir[want[c]] # None
  /\ pc[c] = "write" => ~lost[c]
  /\ pc[c] \in Pointing => Complete(want[c])
  /\ pc[c] \in {"clearTmp", "link", "swap"} => pointer # "dir"

PluginInv == PluginTypes /\ PointerInv /\ LinkInv /\ WrittenInv

USE DEF volume, own, history, vars, At, Goto, Fails, Marker

(* The parts a plug-in consists of are among those of its directory.       *)
LEMMA PartsFacts ==
  /\ Files \in Nat /\ Files >= 1 /\ Versions \cap Nat = {}
  /\ None \notin Versions /\ "dir" \notin Versions /\ None # "dir"
  /\ \A c \in Containers : Tpds[c] \subseteq Versions /\ Tpds[c] # {}
BY ToolsAssumption

LEMMA TreeFacts ==
  /\ Empty \in Trees /\ Fresh \in Trees /\ None \notin Trees
  /\ \A f \in 1 .. Files + 1 : Fresh[f] = "whole"
  /\ 1 .. Files + 1 \subseteq Parts /\ Versions \subseteq Parts
<1>1. \A f \in 1 .. Files + 1 : f \in Parts /\ f \notin Versions
  BY ToolsAssumption DEF Parts
<1> QED BY <1>1, ToolsAssumption DEF Parts, Empty, Fresh, Trees

USE PartsFacts

(* Whatever earlier containers left is whole.                              *)
LEMMA PluginInvInit == Init => PluginInv
<1> SUFFICES ASSUME Init PROVE PluginInv  OBVIOUS
<1>1. PluginTypes  BY TreeFacts DEF Init, PluginTypes
<1>2. PointerInv
  <2> SUFFICES ASSUME pointer \in Versions PROVE Complete(pointer)
    BY DEF Init, PointerInv, Replacing
  <2>1. dir[pointer] # None  BY DEF Init
  <2>2. dir[pointer] = Fresh  BY <2>1 DEF Init
  <2> QED  BY <2>1, <2>2, TreeFacts DEF Complete
<1>3. LinkInv  BY DEF Init, LinkInv
<1>4. WrittenInv  BY DEF Init, WrittenInv, Pointing
<1> QED  BY <1>1, <1>2, <1>3, <1>4 DEF PluginInv

(* A script that is not at its swap may leave the plug-in alone, or give   *)
(* up on it.                                                               *)
LEMMA Elsewhere ==
  ASSUME PluginInv, NEW c \in Containers, pc[c] # "swap", PluginTypes',
         NEW p \in {"config", "runtimes", "unnamed", "check", "readlink", "install", "running", "gone"},
         Goto(c, p), dir' = dir, pointer' = pointer, tmp' = tmp,
         \A d \in Containers \ {c} : want'[d] = want[d] /\ part'[d] = part[d] /\ lost'[d] = lost[d]
  PROVE  PluginInv'
<1>1. PointerInv'  BY DEF PluginInv, PluginTypes, PointerInv, Complete, Replacing
<1>2. LinkInv'  BY DEF PluginInv, PluginTypes, LinkInv
<1>3. WrittenInv'  BY DEF PluginInv, PluginTypes, WrittenInv, Complete, Pointing
<1> QED  BY <1>1, <1>2, <1>3 DEF PluginInv

(* The only link that a kill leaves to others at their links or swaps is   *)
(* ruled out.                                                              *)
LEMMA KillKeeps ==
  ASSUME PluginInv, NEW c \in Containers, Kill(c), ~LeavesLink PROVE PluginInv'
<1>1. /\ pc' = [pc EXCEPT ![c] = "gone"] /\ UNCHANGED <<dir, pointer, tmp, want>>
      /\ part' = [part EXCEPT ![c] = 1] /\ lost' = [lost EXCEPT ![c] = FALSE]
      /\ todo' = [todo EXCEPT ![c] = {}]
  BY DEF Kill, Remove
<1>2. PluginTypes'  BY <1>1 DEF PluginInv, PluginTypes
<1>3. CASE pc[c] # "swap"  BY <1>1, <1>2, <1>3, Elsewhere DEF PluginInv, PluginTypes
<1>4. CASE pc[c] = "swap"
  <2>1. \A d \in Containers : pc'[d] \notin {"link", "swap"}
    BY <1>1, <1>4 DEF LeavesLink, PluginInv, PluginTypes
  <2>2. PointerInv'  BY <1>1 DEF PluginInv, PluginTypes, PointerInv, Complete, Replacing
  <2>3. LinkInv'  BY <2>1 DEF LinkInv
  <2>4. WrittenInv'  BY <1>1 DEF PluginInv, PluginTypes, WrittenInv, Complete, Pointing
  <2> QED  BY <1>2, <2>2, <2>3, <2>4 DEF PluginInv
<1> QED  BY <1>3, <1>4

(* Nobody else is at the version a script replaces, and the pointer does   *)
(* not name it.                                                            *)
LEMMA OwnDirectory ==
  ASSUME Apart, PluginInv, NEW c \in Containers, pc[c] \in Replacing
  PROVE  /\ pointer # want[c]
         /\ \A d \in Containers \ {c} : want[d] = want[c] => pc[d] \notin Command
         /\ want[c] \in Versions
BY DEF Apart, SameVersion, Beside, Replacing, Installing, PluginInv, PluginTypes, PointerInv

(* What a script does to its own directory, while it stays in it.          *)
LEMMA InDirectory ==
  ASSUME Apart, PluginInv, NEW c \in Containers, pc[c] \in Replacing,
         NEW p \in Replacing, Goto(c, p), PluginTypes',
         \A v \in Versions \ {want[c]} : dir'[v] = dir[v],
         \A d \in Containers \ {c} : part'[d] = part[d] /\ lost'[d] = lost[d],
         pointer' = pointer, tmp' = tmp, want' = want,
         p \in {"mkdir", "open", "write"} =>
           \A f \in 1 .. Marker : f < part'[c] => dir'[want[c]] # None /\ dir'[want[c]][f] = "whole",
         p = "unlink" => part'[c] = 1,
         p \in {"open", "write"} => dir'[want[c]] # None,
         p = "write" => ~lost'[c]
  PROVE  PluginInv'
<1>1. PointerInv'
  BY OwnDirectory DEF PluginInv, PluginTypes, PointerInv, Complete, Replacing
<1>2. LinkInv'  BY DEF PluginInv, PluginTypes, LinkInv, Replacing
<1>3. WrittenInv'
  <2> SUFFICES ASSUME NEW d \in Containers PROVE WrittenInv!(d)'
    BY DEF WrittenInv
  <2>1. CASE d = c  BY <2>1 DEF PluginInv, PluginTypes, Pointing, Replacing
  <2>2. CASE d # c /\ want[d] # want[c]
    <3>1. pc'[d] = pc[d] /\ dir'[want[d]] = dir[want[d]] /\ part'[d] = part[d] /\ lost'[d] = lost[d]
      BY <2>2 DEF PluginInv, PluginTypes
    <3> QED  BY <3>1 DEF PluginInv, WrittenInv, Complete
  <2>3. CASE d # c /\ want[d] = want[c]
    <3>1. pc'[d] = pc[d] /\ pc[d] \notin Command  BY <2>3, OwnDirectory DEF PluginInv, PluginTypes
    <3> QED  BY <3>1 DEF Command, Installing, Pointing
  <2> QED  BY <2>1, <2>2, <2>3
<1> QED  BY <1>1, <1>2, <1>3 DEF PluginInv

-----------------------------------------------------------------------------
(* The steps of a script that end its work on the plug-in, or come before  *)
(* it.                                                                     *)
LEMMA AwayKeeps ==
  ASSUME PluginInv, NEW c \in Containers,
         \/ Start(c) \/ Config(c) \/ ConfigFails(c) \/ AddRuntimes(c) \/ RuntimesFail(c)
         \/ Install(c) \/ InstallFails(c) \/ Exit(c)
  PROVE  PluginInv'
<1>1. CASE Start(c)
  <2>1. PICK v \in Tpds[c] : want' = [want EXCEPT ![c] = v]  BY <1>1 DEF Start
  <2>2. pc[c] = "gone" /\ Goto(c, "config") /\ UNCHANGED <<dir, pointer, tmp, todo, part, lost>>
    BY <1>1 DEF Start
  <2>3. PluginTypes'  BY <2>1, <2>2 DEF PluginInv, PluginTypes, Script, Command, Installing
  <2>4. \A d \in Containers \ {c} : want'[d] = want[d]  BY <2>1 DEF PluginInv, PluginTypes
  <2> QED  BY <2>2, <2>3, <2>4, Elsewhere
<1>2. CASE Exit(c)
  <2>1. /\ pc[c] = "running" /\ Goto(c, "gone") /\ UNCHANGED <<dir, pointer, tmp, want>>
        /\ part' = [part EXCEPT ![c] = 1] /\ lost' = [lost EXCEPT ![c] = FALSE]
        /\ todo' = [todo EXCEPT ![c] = {}]
    BY <1>2 DEF Exit, Remove
  <2>2. PluginTypes'  BY <2>1 DEF PluginInv, PluginTypes
  <2> QED  BY <2>1, <2>2, Elsewhere DEF PluginInv, PluginTypes
<1>3. CASE \/ Config(c) \/ ConfigFails(c) \/ AddRuntimes(c) \/ RuntimesFail(c)
           \/ Install(c) \/ InstallFails(c)
  <2>1. /\ pc[c] # "swap" /\ UNCHANGED <<dir, pointer, tmp, want, todo, part, lost>>
        /\ \E p \in {"runtimes", "unnamed", "check", "install", "running"} : Goto(c, p)
    BY <1>3 DEF Config, ConfigFails, AddRuntimes, RuntimesFail, AfterRuntimes, Install, InstallFails
  <2>2. PluginTypes'  BY <2>1 DEF PluginInv, PluginTypes, Script, Command, Installing
  <2> QED  BY <2>1, <2>2, Elsewhere
<1> QED  BY <1>1, <1>2, <1>3

(* A script that goes to replace its version is not behind the pointer:    *)
(* what the pointer names is complete, so its marker was there, and the    *)
(* pointer names another one.                                              *)
LEMMA CheckKeeps ==
  ASSUME PluginInv, NEW c \in Containers, Check(c) \/ ReadLink(c) PROVE PluginInv'
<1>1. /\ pc[c] \in {"check", "readlink"} /\ UNCHANGED <<dir, pointer, tmp, want, todo, part, lost>>
      /\ \E p \in {"readlink", "install", "list"} : Goto(c, p)
  BY DEF Check, ReadLink
<1>2. PluginTypes'  BY <1>1 DEF PluginInv, PluginTypes, Script, Command, Installing
<1>3. CASE pc'[c] # "list"
  <2>1. PICK p \in {"readlink", "install"} : Goto(c, p)
    BY <1>1, <1>3 DEF PluginInv, PluginTypes
  <2> QED  BY <1>1, <1>2, <2>1, Elsewhere
<1>4. CASE pc'[c] = "list"
  <2>1. pointer # want[c]
    BY <1>4, TreeFacts DEF Check, ReadLink, MarkerMatches, PointerMatches, PluginInv, PluginTypes,
       PointerInv, Complete
  <2>2. pc' = [pc EXCEPT ![c] = "list"]  BY <1>1, <1>4 DEF PluginInv, PluginTypes
  <2>3. PointerInv'
    BY <1>1, <2>1, <2>2 DEF PluginInv, PluginTypes, PointerInv, Complete, Replacing
  <2>4. LinkInv'  BY <1>1, <2>2 DEF PluginInv, PluginTypes, LinkInv
  <2>5. WrittenInv'  BY <1>1, <2>2 DEF PluginInv, PluginTypes, WrittenInv, Complete, Pointing
  <2> QED  BY <1>2, <2>3, <2>4, <2>5 DEF PluginInv
<1> QED  BY <1>3, <1>4

LEMMA ListKeeps ==
  ASSUME Apart, PluginInv, NEW c \in Containers, List(c) PROVE PluginInv'
<1>1. PluginTypes'
  <2>1. todo' \in [Containers -> SUBSET Parts]  BY TreeFacts DEF List, PluginInv, PluginTypes
  <2>2. part' \in [Containers -> 1 .. Marker]  BY TreeFacts DEF List, PluginInv, PluginTypes
  <2> QED  BY <2>1, <2>2 DEF List, PluginInv, PluginTypes, Script, Command, Installing
<1>2. part'[c] = 1  BY DEF List, PluginInv, PluginTypes
<1> QED  BY <1>1, <1>2, InDirectory DEF List, Replacing, PluginInv, PluginTypes

(* No one else has its directory's files open.                             *)
LEMMA UnlinkKeeps ==
  ASSUME Apart, PluginInv, NEW c \in Containers, Unlink(c) PROVE PluginInv'
<1>0. pc[c] \in Replacing  BY DEF Unlink, Replacing
<1>1. PICK f \in todo[c] :
        /\ todo' = [todo EXCEPT ![c] = @ \ {f}]
        /\ IF dir[want[c]] = None THEN UNCHANGED <<dir, lost>>
           ELSE /\ dir' = [dir EXCEPT ![want[c]][f] = "none"]
                /\ lost' = [d \in Containers |->
                             lost[d] \/ (At(d, "write") /\ want[d] = want[c] /\ part[d] = f)]
  BY DEF Unlink
<1>2. f \in Parts /\ want[c] \in Versions  BY DEF PluginInv, PluginTypes
<1>3. lost' \in [Containers -> BOOLEAN]
  <2>1. CASE dir[want[c]] = None  BY <1>1, <2>1 DEF PluginInv, PluginTypes
  <2>2. CASE dir[want[c]] # None
    <3>1. \A d \in Containers : (lost[d] \/ (At(d, "write") /\ want[d] = want[c] /\ part[d] = f)) \in BOOLEAN
      BY Zenon
    <3> QED  BY <1>1, <2>2, <3>1
  <2> QED  BY <2>1, <2>2
<1>4. dir' \in [Versions -> {None} \cup Trees]
  <2>1. dir[want[c]] # None => dir[want[c]] \in Trees  BY <1>2 DEF PluginInv, PluginTypes
  <2>2. dir[want[c]] # None => [dir[want[c]] EXCEPT ![f] = "none"] \in Trees
    BY <1>2, <2>1 DEF Trees
  <2> QED  BY <1>1, <1>2, <2>2 DEF PluginInv, PluginTypes
<1>5. PluginTypes'
  BY <1>1, <1>3, <1>4 DEF Unlink, PluginInv, PluginTypes
<1>6. \A d \in Containers \ {c} : lost'[d] = lost[d]
  <2> TAKE d \in Containers \ {c}
  <2>1. ~(At(d, "write") /\ want[d] = want[c])
    BY <1>0, OwnDirectory DEF Command, Installing
  <2>2. CASE dir[want[c]] = None  BY <1>1, <2>2
  <2>3. CASE dir[want[c]] # None
    <3>1. lost'[d] = (lost[d] \/ (At(d, "write") /\ want[d] = want[c] /\ part[d] = f))
      BY <1>1, <2>3
    <3>2. lost[d] \in BOOLEAN  BY DEF PluginInv, PluginTypes
    <3> QED  BY <2>1, <3>1, <3>2
  <2> QED  BY <2>2, <2>3
<1>7. \A v \in Versions \ {want[c]} : dir'[v] = dir[v]
  BY <1>1 DEF PluginInv, PluginTypes
<1>8. Goto(c, "unlink") /\ pc[c] = "unlink" /\ part' = part /\ part[c] = 1
  BY DEF Unlink, PluginInv, PluginTypes, WrittenInv
<1> HIDE DEF Goto, At
<1> QED  BY <1>5, <1>6, <1>7, <1>8, InDirectory DEF Unlink, Replacing

LEMMA RemoveDirKeeps ==
  ASSUME Apart, PluginInv, NEW c \in Containers, RemoveDir(c) PROVE PluginInv'
<1>1. CASE dir[want[c]] \in {None, Empty}
  <2>1. Goto(c, "mkdir") /\ dir' = [dir EXCEPT ![want[c]] = None]
    BY <1>1 DEF RemoveDir
  <2>2. PluginTypes'  BY <2>1 DEF RemoveDir, PluginInv, PluginTypes, Script, Command, Installing
  <2>3. part'[c] = 1  BY DEF RemoveDir, PluginInv, WrittenInv
  <2>4. ~\E f \in 1 .. Marker : f < part'[c]  BY <2>3
  <2> QED  BY <2>1, <2>2, <2>3, <2>4, InDirectory DEF RemoveDir, Replacing, PluginInv, PluginTypes
<1>2. CASE dir[want[c]] \notin {None, Empty}
  <2>1. pc[c] = "unlink" /\ Goto(c, "running") /\ UNCHANGED <<dir, pointer, tmp, own>>
    BY <1>2 DEF RemoveDir
  <2>2. PluginTypes'  BY <2>1 DEF PluginInv, PluginTypes
  <2> QED  BY <2>1, <2>2, Elsewhere
<1> QED  BY <1>1, <1>2

LEMMA MkdirKeeps ==
  ASSUME Apart, PluginInv, NEW c \in Containers, Mkdir(c) PROVE PluginInv'
<1>1. want[c] \in Versions  BY DEF PluginInv, PluginTypes
<1>2. dir' = [dir EXCEPT ![want[c]] = IF @ = None THEN Empty ELSE @] /\ Goto(c, "open")
  BY DEF Mkdir
<1>3. PluginTypes'
  <2>1. dir' \in [Versions -> {None} \cup Trees]
    BY <1>1, <1>2, TreeFacts DEF PluginInv, PluginTypes
  <2> QED  BY <1>2, <2>1 DEF Mkdir, PluginInv, PluginTypes, Script, Command, Installing
<1>4. None # Empty  BY TreeFacts
<1>5. dir'[want[c]] # None  BY <1>1, <1>2, <1>4 DEF PluginInv, PluginTypes
<1>6. \A f \in 1 .. Marker : f < part'[c] => dir'[want[c]][f] = "whole"
  BY <1>1, <1>2 DEF Mkdir, PluginInv, PluginTypes, WrittenInv
<1> QED  BY <1>2, <1>3, <1>5, <1>6, InDirectory DEF Mkdir, Replacing, PluginInv, PluginTypes

LEMMA OpenKeeps ==
  ASSUME Apart, PluginInv, NEW c \in Containers, Open(c) PROVE PluginInv'
<1>1. want[c] \in Versions /\ dir[want[c]] \in Trees /\ part[c] \in 1 .. Marker /\ part[c] \in Parts
  BY TreeFacts DEF Open, PluginInv, PluginTypes, WrittenInv
<1>2. /\ Goto(c, "write") /\ dir' = [dir EXCEPT ![want[c]][part[c]] = "partial"]
      /\ lost' = [lost EXCEPT ![c] = FALSE]
  BY <1>1, TreeFacts DEF Open
<1>3. [dir[want[c]] EXCEPT ![part[c]] = "partial"] \in Trees  BY <1>1 DEF Trees
<1>4. PluginTypes'
  <2>1. dir' \in [Versions -> {None} \cup Trees]
    BY <1>1, <1>2, <1>3 DEF PluginInv, PluginTypes
  <2> QED  BY <1>2, <2>1 DEF Open, PluginInv, PluginTypes, Script, Command, Installing
<1>5. dir'[want[c]] = [dir[want[c]] EXCEPT ![part[c]] = "partial"] /\ dir'[want[c]] # None
  BY <1>1, <1>2, <1>3, TreeFacts DEF PluginInv, PluginTypes
<1>6. \A f \in 1 .. Marker : f < part'[c] => dir'[want[c]][f] = "whole"
  BY <1>1, <1>5, TreeFacts DEF Open, PluginInv, PluginTypes, WrittenInv, Trees
<1>7. pc[c] \in Replacing /\ pointer' = pointer /\ tmp' = tmp /\ want' = want  BY DEF Open, Replacing
<1>8. ~lost'[c] /\ \A d \in Containers \ {c} : part'[d] = part[d] /\ lost'[d] = lost[d]
  BY <1>2 DEF Open, PluginInv, PluginTypes
<1>9. \A v \in Versions \ {want[c]} : dir'[v] = dir[v]  BY <1>2 DEF PluginInv, PluginTypes
<1>10. "write" \in Replacing  BY DEF Replacing
<1> HIDE DEF Goto
<1> QED  BY <1>2, <1>4, <1>5, <1>6, <1>7, <1>8, <1>9, <1>10, InDirectory

(* After the marker everything is whole, and the pointer's turn comes.     *)
LEMMA WriteKeeps ==
  ASSUME Apart, PluginInv, NEW c \in Containers, Write(c) PROVE PluginInv'
<1>1. /\ want[c] \in Versions /\ dir[want[c]] \in Trees /\ dir[want[c]] # None
      /\ part[c] \in 1 .. Marker /\ part[c] \in Parts /\ ~lost[c]
  BY TreeFacts DEF Write, PluginInv, PluginTypes, WrittenInv
<1>2. dir' = [dir EXCEPT ![want[c]][part[c]] = "whole"] /\ lost' = [lost EXCEPT ![c] = FALSE]
  BY <1>1 DEF Write
<1>3. [dir[want[c]] EXCEPT ![part[c]] = "whole"] \in Trees  BY <1>1 DEF Trees
<1>4. dir' \in [Versions -> {None} \cup Trees]
  BY <1>1, <1>2, <1>3 DEF PluginInv, PluginTypes
<1>5. dir'[want[c]] = [dir[want[c]] EXCEPT ![part[c]] = "whole"] /\ dir'[want[c]] # None
  BY <1>1, <1>2, <1>3, TreeFacts DEF PluginInv, PluginTypes
<1>6. \A f \in 1 .. Marker : f <= part[c] => dir'[want[c]][f] = "whole"
  <2>1. \A f \in 1 .. Marker : f < part[c] => dir[want[c]][f] = "whole"
    BY DEF Write, PluginInv, WrittenInv
  <2>2. \A f \in Parts : dir'[want[c]][f] = IF f = part[c] THEN "whole" ELSE dir[want[c]][f]
    BY <1>1, <1>5 DEF Trees
  <2> QED  BY <1>1, <2>1, <2>2, TreeFacts
<1>7. part' \in [Containers -> 1 .. Marker]
  BY <1>1, TreeFacts DEF Write, NextPart, PluginInv, PluginTypes
<1>8. pc' \in [Containers -> Script \cup {"running", "gone"}]
  BY DEF Write, NextPart, PluginInv, PluginTypes, Script, Command, Installing
<1>9. PluginTypes'
  BY <1>4, <1>7, <1>8 DEF Write, PluginInv, PluginTypes
<1>10. want' = want /\ \A v \in Versions \ {want[c]} : dir'[v] = dir[v]
  BY <1>2 DEF Write, PluginInv, PluginTypes
<1>11. CASE part[c] # Marker
  <2>1. part'[c] = part[c] + 1 /\ \A d \in Containers \ {c} : part'[d] = part[d]
    BY <1>1, <1>11 DEF Write, NextPart, PluginInv, PluginTypes
  <2>2. \A f \in 1 .. Marker : f < part'[c] => dir'[want[c]] # None /\ dir'[want[c]][f] = "whole"
    BY <1>1, <1>5, <1>6, <2>1, TreeFacts
  <2>3. CASE part[c] = Files
    <3>1. Goto(c, "open") /\ pc[c] \in Replacing /\ "open" \in Replacing
      BY <1>11, <2>3 DEF Write, NextPart, Replacing
    <3>2. \A d \in Containers \ {c} : part'[d] = part[d] /\ lost'[d] = lost[d]
      BY <1>2, <2>1 DEF PluginInv, PluginTypes
    <3>3. UNCHANGED <<pointer, tmp>>  BY DEF Write
    <3> HIDE DEF Goto
    <3> QED  BY <1>5, <1>9, <1>10, <2>2, <3>1, <3>2, <3>3, InDirectory
  <2>4. CASE part[c] # Files
    <3>1. Goto(c, "mkdir") /\ pc[c] \in Replacing /\ "mkdir" \in Replacing
      BY <1>11, <2>4 DEF Write, NextPart, Replacing
    <3>2. \A d \in Containers \ {c} : part'[d] = part[d] /\ lost'[d] = lost[d]
      BY <1>2, <2>1 DEF PluginInv, PluginTypes
    <3>3. UNCHANGED <<pointer, tmp>>  BY DEF Write
    <3> HIDE DEF Goto
    <3> QED  BY <1>5, <1>9, <1>10, <2>2, <3>1, <3>2, <3>3, InDirectory
  <2> QED  BY <2>3, <2>4
<1>12. CASE part[c] = Marker
  <2>0. \A f \in 1 .. Marker : dir'[want[c]][f] = "whole"  BY <1>6, <1>12
  <2>1. Complete(want[c])'  BY <1>5, <1>10, <2>0 DEF Complete
  <2>2. pc' = [pc EXCEPT ![c] = "isLink"]  BY <1>12 DEF Write, NextPart
  <2>3. pc[c] \in Replacing  BY DEF Write, Replacing
  <2>4. pointer # want[c] /\ \A d \in Containers \ {c} : want[d] = want[c] => pc[d] \notin Command
    BY <2>3, OwnDirectory
  <2>5. PointerInv'
    BY <1>10, <2>2, <2>4 DEF Write, PluginInv, PluginTypes, PointerInv, Complete
  <2>6. LinkInv'  BY <2>2 DEF Write, PluginInv, PluginTypes, LinkInv
  <2>7. WrittenInv'
    <3> SUFFICES ASSUME NEW d \in Containers PROVE WrittenInv!(d)'  BY DEF WrittenInv
    <3>1. CASE d = c  BY <2>1, <2>2, <3>1 DEF Write, PluginInv, PluginTypes, Pointing
    <3>2. CASE d # c /\ want[d] # want[c]
      <4>1. pc'[d] = pc[d] /\ dir'[want[d]] = dir[want[d]] /\ part'[d] = part[d] /\ lost'[d] = lost[d]
        BY <1>10, <1>12, <2>2, <3>2 DEF Write, NextPart, PluginInv, PluginTypes
      <4> QED  BY <4>1 DEF Write, PluginInv, WrittenInv, Complete
    <3>3. CASE d # c /\ want[d] = want[c]
      <4>1. pc'[d] = pc[d] /\ pc[d] \notin Command  BY <2>2, <2>4, <3>3 DEF PluginInv, PluginTypes
      <4> QED  BY <4>1 DEF Command, Installing, Pointing
    <3> QED  BY <3>1, <3>2, <3>3
  <2> QED  BY <1>9, <2>5, <2>6, <2>7 DEF PluginInv
<1> QED  BY <1>11, <1>12

-----------------------------------------------------------------------------
(* The pointer.                                                            *)
LEMMA IsLinkKeeps ==
  ASSUME Apart, PluginInv, NEW c \in Containers, IsLink(c) PROVE PluginInv'
<1>1. PluginTypes'  BY DEF IsLink, PluginInv, PluginTypes, Script, Command, Installing
<1>2. PointerInv'  BY DEF IsLink, PluginInv, PluginTypes, PointerInv, Complete, Replacing
<1>3. LinkInv'  BY DEF IsLink, PluginInv, PluginTypes, LinkInv
<1>4. WrittenInv'
  BY TreeFacts DEF IsLink, PluginInv, PluginTypes, WrittenInv, Complete, Pointing
<1> QED  BY <1>1, <1>2, <1>3, <1>4 DEF PluginInv

LEMMA ClearPointerKeeps ==
  ASSUME Apart, PluginInv, NEW c \in Containers, ClearPointer(c) PROVE PluginInv'
<1>1. PluginTypes'  BY DEF ClearPointer, PluginInv, PluginTypes, Script, Command, Installing
<1>2. PointerInv'  BY TreeFacts DEF ClearPointer, PointerInv
<1>3. LinkInv'  BY DEF ClearPointer, PluginInv, PluginTypes, LinkInv
<1>4. WrittenInv'
  BY DEF ClearPointer, PluginInv, PluginTypes, WrittenInv, Complete, Pointing
<1> QED  BY <1>1, <1>2, <1>3, <1>4 DEF PluginInv

LEMMA ClearTmpKeeps ==
  ASSUME Apart, PluginInv, NEW c \in Containers, ClearTmp(c) PROVE PluginInv'
<1>1. PluginTypes'  BY DEF ClearTmp, PluginInv, PluginTypes, Script, Command, Installing
<1>2. PointerInv'  BY DEF ClearTmp, PluginInv, PluginTypes, PointerInv, Complete, Replacing
<1>3. LinkInv'  BY DEF ClearTmp, LinkInv
<1>4. WrittenInv'
  BY DEF ClearTmp, PluginInv, PluginTypes, WrittenInv, Complete, Pointing
<1> QED  BY <1>1, <1>2, <1>3, <1>4 DEF PluginInv

(* Its own link, on the way to the swap.                                   *)
LEMMA LinkKeeps ==
  ASSUME Apart, PluginInv, NEW c \in Containers, Link(c) PROVE PluginInv'
<1>1. PluginTypes'  BY DEF Link, PluginInv, PluginTypes, Script, Command, Installing
<1>2. PointerInv'  BY DEF Link, PluginInv, PluginTypes, PointerInv, Complete, Replacing
<1>3. LinkInv'
  <2>1. want'[c] = tmp' /\ pc'[c] = "swap"  BY DEF Link, PluginInv, PluginTypes
  <2> QED  BY <2>1 DEF LinkInv
<1>4. WrittenInv'  BY DEF Link, PluginInv, PluginTypes, WrittenInv, Complete, Pointing
<1> QED  BY <1>1, <1>2, <1>3, <1>4 DEF PluginInv

(* A link that goes astray damages nothing of the directory it ends up in. *)
LEMMA LinkAstrayKeeps ==
  ASSUME Apart, PluginInv, NEW c \in Containers, LinkAstray(c) PROVE PluginInv'
<1>1. tmp \in Versions  BY DEF LinkAstray, PluginInv, PluginTypes
<1>2. CASE dir[tmp] # None /\ Goto(c, "swap") /\ dir' = [dir EXCEPT ![tmp][want[c]] = "whole"]
  <2>0. want[c] \in Parts /\ want[c] \notin 1 .. Marker
    BY TreeFacts DEF PluginInv, PluginTypes
  <2>1. dir[tmp] \in Trees /\ [dir[tmp] EXCEPT ![want[c]] = "whole"] \in Trees
    BY <1>1, <1>2, <2>0, TreeFacts DEF PluginInv, PluginTypes, Trees
  <2>2. /\ \A v \in Versions : (dir[v] # None) <=> (dir'[v] # None)
        /\ \A v \in Versions, f \in 1 .. Marker : dir'[v] # None => dir'[v][f] = dir[v][f]
        /\ dir' \in [Versions -> {None} \cup Trees]
    <3>1. dir \in [Versions -> {None} \cup Trees]  BY DEF PluginInv, PluginTypes
    <3>2. dir'[tmp] = [dir[tmp] EXCEPT ![want[c]] = "whole"]
          /\ \A v \in Versions \ {tmp} : dir'[v] = dir[v]
      BY <1>1, <1>2, <3>1
    <3>3. \A f \in 1 .. Marker : dir'[tmp][f] = dir[tmp][f]
      BY <2>0, <2>1, <3>2, TreeFacts DEF Trees
    <3>4. dir' \in [Versions -> {None} \cup Trees]  BY <1>1, <1>2, <2>1, <3>1
    <3>5. dir[tmp] # None /\ dir'[tmp] # None  BY <1>2, <2>1, <3>2, TreeFacts
    <3> QED  BY <1>1, <3>2, <3>3, <3>4, <3>5
  <2>3. \A v \in Versions : Complete(v) => Complete(v)'  BY <2>2, TreeFacts DEF Complete
  <2>4. PluginTypes'  BY <1>2, <2>2 DEF LinkAstray, PluginInv, PluginTypes, Script, Command, Installing
  <2>5. PointerInv'
    BY <1>2, <2>3 DEF LinkAstray, PluginInv, PluginTypes, PointerInv, Replacing
  <2>6. LinkInv'
    <3>1. PICK d \in Containers : want[d] = tmp /\ pc[d] = "swap"
      BY <1>1, TreeFacts DEF LinkAstray, PluginInv, LinkInv
    <3>2. pc'[d] = "swap" /\ tmp' = tmp /\ want' = want  BY <1>2, <3>1 DEF LinkAstray, PluginInv, PluginTypes
    <3> QED  BY <3>1, <3>2 DEF LinkInv
  <2>7. WrittenInv'
    <3> SUFFICES ASSUME NEW d \in Containers PROVE WrittenInv!(d)'  BY DEF WrittenInv
    <3>1. want[d] \in Versions  BY DEF PluginInv, PluginTypes
    <3>2. UNCHANGED <<part, lost, pointer, want>> /\ (d # c => pc'[d] = pc[d])
      BY <1>2 DEF LinkAstray, PluginInv, PluginTypes
    <3>3. pc[c] = "link" /\ pc'[c] = "swap"  BY <1>2 DEF LinkAstray, PluginInv, PluginTypes
    <3>4. CASE d = c  BY <2>3, <3>1, <3>2, <3>3, <3>4 DEF PluginInv, WrittenInv, Pointing
    <3>5. CASE d # c  BY <2>2, <2>3, <3>1, <3>2, <3>5 DEF PluginInv, WrittenInv
    <3> QED  BY <3>4, <3>5
  <2> QED  BY <2>4, <2>5, <2>6, <2>7 DEF PluginInv
<1>3. CASE Fails(c) /\ dir' = dir
  <2>1. pc[c] = "link" /\ UNCHANGED <<dir, pointer, tmp, own>>  BY <1>3 DEF LinkAstray
  <2>2. PluginTypes'  BY <1>3, <2>1 DEF PluginInv, PluginTypes
  <2> QED  BY <1>3, <2>1, <2>2, Elsewhere
<1> QED  BY <1>2, <1>3 DEF LinkAstray

(* Whichever link is there, its owner's directory is complete, and its     *)
(* owner is past replacing it.                                             *)
LEMMA SwapKeeps ==
  ASSUME Apart, PluginInv, NEW c \in Containers, Swap(c) PROVE PluginInv'
<1>1. pointer # "dir"  BY DEF Swap, PluginInv, WrittenInv
<1>2. CASE tmp = None
  <2>1. pc' = [pc EXCEPT ![c] = "running"] /\ UNCHANGED <<dir, pointer, tmp, own>>
    BY <1>2 DEF Swap
  <2>2. PluginTypes'  BY <2>1 DEF PluginInv, PluginTypes
  <2>3. PointerInv'  BY <2>1 DEF PluginInv, PluginTypes, PointerInv, Complete, Replacing
  <2>4. LinkInv'  BY <1>2, <2>1 DEF LinkInv
  <2>5. WrittenInv'  BY <2>1 DEF PluginInv, PluginTypes, WrittenInv, Complete, Pointing
  <2> QED  BY <2>2, <2>3, <2>4, <2>5 DEF PluginInv
<1>3. CASE tmp # None
  <2>1. /\ pc' = [pc EXCEPT ![c] = "install"] /\ pointer' = tmp /\ tmp' = None
        /\ UNCHANGED <<dir, own>>
    BY <1>1, <1>3 DEF Swap
  <2>2. PICK d \in Containers : want[d] = tmp /\ pc[d] = "swap"
    BY <1>3 DEF Swap, PluginInv, LinkInv
  <2>3. Complete(tmp) /\ \A e \in Containers \ {d} : want[e] = tmp => pc[e] \notin Command
    BY <2>2 DEF Apart, SameVersion, Beside, Installing, PluginInv, WrittenInv, Pointing
  <2>4. PluginTypes'  BY <2>1 DEF PluginInv, PluginTypes, Script, Command, Installing
  <2>5. PointerInv'
    BY <2>1, <2>2, <2>3 DEF PluginInv, PluginTypes, PointerInv, Complete, Replacing, Command, Installing
  <2>6. LinkInv'  BY <2>1 DEF LinkInv
  <2>7. WrittenInv'
    <3>1. pointer' # "dir"  BY <1>3, <2>1 DEF PluginInv, PluginTypes
    <3> QED  BY <2>1, <3>1 DEF PluginInv, PluginTypes, WrittenInv, Complete, Pointing
  <2> QED  BY <2>4, <2>5, <2>6, <2>7 DEF PluginInv
<1> QED  BY <1>2, <1>3

-----------------------------------------------------------------------------
(* Every step of every script keeps the invariant.                         *)
LEMMA PluginInvStep ==
  ASSUME Apart, PluginInv, ~LeavesLink, Step PROVE PluginInv'
<1>1. ASSUME NEW c \in Containers,
             \/ Start(c) \/ Config(c) \/ ConfigFails(c) \/ AddRuntimes(c) \/ RuntimesFail(c)
             \/ Install(c) \/ InstallFails(c) \/ Exit(c)
      PROVE  PluginInv'
  BY <1>1, AwayKeeps
<1>2. ASSUME NEW c \in Containers,
             \/ Check(c) \/ ReadLink(c) \/ List(c) \/ Unlink(c) \/ RemoveDir(c) \/ Mkdir(c) \/ Open(c) \/ Write(c)
      PROVE  PluginInv'
  BY <1>2, CheckKeeps, ListKeeps, UnlinkKeeps, RemoveDirKeeps, MkdirKeeps, OpenKeeps, WriteKeeps
<1>3. ASSUME NEW c \in Containers,
             \/ IsLink(c) \/ ClearPointer(c) \/ ClearTmp(c) \/ Link(c) \/ LinkAstray(c) \/ Swap(c)
             \/ Kill(c)
      PROVE  PluginInv'
  BY <1>3, IsLinkKeeps, ClearPointerKeeps, ClearTmpKeeps, LinkKeeps, LinkAstrayKeeps, SwapKeeps,
     KillKeeps
<1> QED  BY <1>1, <1>2, <1>3 DEF Step

LEMMA Stutters ==
  PluginInv /\ UNCHANGED vars => PluginInv'
BY DEF PluginInv, PluginTypes, PointerInv, LinkInv, WrittenInv, Complete

ApartInv == ~collided => PluginInv /\ Apart

(* The inductive invariant of the plug-in installation (plugins.go,        *)
(* PluginInstallCommand): until two scripts collide, the pointer leads to  *)
(* a complete version nobody replaces, and a link in waiting has an owner  *)
(* at its swap.                                                            *)
THEOREM PluginInvariant == Spec => [](~collided => PluginInv)
<1>1. Init => ApartInv
  <2> SUFFICES ASSUME Init PROVE Apart  BY PluginInvInit DEF ApartInv
  <2> QED  BY DEF Init, Apart, SameVersion, Beside, Command, Installing
<1>2. ApartInv /\ [Next]_vars => ApartInv'
  <2> SUFFICES ASSUME ApartInv, [Next]_vars, ~collided' PROVE (PluginInv /\ Apart)'
    BY DEF ApartInv
  <2>1. CASE Next
    <3>1. ~collided /\ ~SameVersion' /\ ~LeavesLink /\ Step  BY <2>1 DEF Next
    <3> QED  BY <3>1, PluginInvStep DEF ApartInv, Apart
  <2>2. CASE UNCHANGED vars
    <3>1. PluginInv /\ Apart  BY <2>2 DEF ApartInv
    <3>2. Apart'  BY <2>2, <3>1 DEF Apart, SameVersion, Beside
    <3> QED  BY <2>2, <3>1, <3>2, Stutters
  <2> QED  BY <2>1, <2>2
<1>3. ApartInv => (~collided => PluginInv)  BY DEF ApartInv
<1> QED  BY <1>1, <1>2, <1>3, PTL DEF Spec

(* Until two scripts collide, whoever follows the pointer finds every file *)
(* of a plug-in whole, for any number of containers, versions and files,   *)
(* any kills and any tpds, at every step.                                  *)
THEOREM PointerStaysWhole == Spec => []PointerIsWhole
<1>1. (~collided => PluginInv) => PointerIsWhole
  BY TreeFacts DEF PluginInv, PointerInv, Complete, PointerIsWhole, SeesWhole, Whole
<1> QED  BY <1>1, PluginInvariant, PTL

-----------------------------------------------------------------------------
(* Scripts that have not met.                                              *)

ToolTypes ==
  /\ cfg \in [Containers -> SUBSET Names] /\ ready \in [Containers -> BOOLEAN]
  /\ spared \in [Containers -> BOOLEAN]

(* What rm -rf has left, whose link waits, and in the end the pointer.     *)
VolumeSide(c) ==
  /\ pc[c] = "unlink" => dir[want[c]] = None \/ \A f \in Parts \ todo[c] : dir[want[c]][f] = "none"
  /\ pc[c] = "clearPointer" => pointer \notin Versions
  /\ pc[c] = "link" => tmp = None
  /\ pc[c] = "swap" => tmp = want[c]
  /\ pc[c] = "install" /\ NeedsPlugin(Tools[c]) => pointer \in Versions

(* While nothing has failed it: what it has of its config.                 *)
ConfigSide(c) ==
  spared[c] =>
    /\ pc[c] # "unnamed"
    /\ pc[c] = "runtimes" => cfg[c] = Tools[c]
    /\ pc[c] \in Command \cup {"install"} => cfg[c] = Tools[c] \cup Runtimes(Tools[c])
    /\ pc[c] = "running" => ready[c]

UnmetInv ==
  ~met => /\ ~Meet /\ ~collided
          /\ \A c \in Containers : VolumeSide(c) /\ ConfigSide(c)

LEMMA RuntimesAreNames == \A T : Runtimes(T) \subseteq Runtime \cap Names
BY ToolsAssumption DEF Runtimes, Runtime

LEMMA ToolTypesStep == ASSUME ToolTypes, [Next]_vars PROVE ToolTypes'
<1>1. ASSUME NEW c \in Containers, Config(c) \/ AddRuntimes(c) PROVE ToolTypes'
  <2>1. Tools[c] \in SUBSET Names /\ Runtimes(Tools[c]) \subseteq Names
    BY ToolsAssumption, RuntimesAreNames
  <2>2. cfg' \in [Containers -> SUBSET Names]
    BY <1>1, <2>1 DEF Config, AddRuntimes, ToolTypes
  <2> QED BY <1>1, <2>2 DEF Config, AddRuntimes, ToolTypes
<1>2. ASSUME NEW c \in Containers, ConfigFails(c) \/ RuntimesFail(c) \/ InstallFails(c)
      PROVE  ToolTypes'
  BY <1>2 DEF ConfigFails, RuntimesFail, InstallFails, ToolTypes
<1>3. ASSUME NEW c \in Containers, Install(c) PROVE ToolTypes'
  <2>1. ready' \in [Containers -> BOOLEAN]  BY <1>3 DEF Install, ToolTypes
  <2> QED BY <1>3, <2>1 DEF Install, ToolTypes
<1>4. ASSUME NEW c \in Containers, Exit(c) \/ Kill(c) PROVE ToolTypes'
  BY <1>4 DEF Exit, Kill, Remove, ToolTypes
<1>5. CASE UNCHANGED <<cfg, ready, spared>>
  BY <1>5 DEF ToolTypes
<1>6. ASSUME NEW c \in Containers,
             \/ Start(c) \/ Check(c) \/ ReadLink(c)
             \/ List(c) \/ Unlink(c) \/ RemoveDir(c) \/ Mkdir(c) \/ Open(c) \/ Write(c)
             \/ IsLink(c) \/ ClearPointer(c) \/ ClearTmp(c) \/ Link(c) \/ LinkAstray(c) \/ Swap(c)
      PROVE  UNCHANGED <<cfg, ready, spared>>
  BY <1>6 DEF Start, Check, ReadLink, List, Unlink, RemoveDir, Mkdir, Open, Write, IsLink,
     ClearPointer, ClearTmp, Link, LinkAstray, Swap
<1> QED BY <1>1, <1>2, <1>3, <1>4, <1>5, <1>6 DEF Next, Step

(* With what the snippet adds, mise finds the runtime of every backend, if *)
(* it finds the plug-in.                                                   *)
LEMMA RuntimesSuffice ==
  ASSUME NEW T \in SUBSET Names, NeedsPlugin(T) => PluginWhole
  PROVE  Installable(T \cup Runtimes(T))
<1> DEFINE A == T \cup Runtimes(T)
<1>1. \A r \in Runtimes(T) : r \in Runtime /\ Backend[r] = "none"
  BY ToolsAssumption, RuntimesAreNames
<1>2. A \ Runtime = T \ Runtime
  BY <1>1
<1>3. \A b : BackedBy(A, b) = BackedBy(T, b)
  BY <1>2 DEF BackedBy, Unprefixed
<1>4. BackedBy(T, "npm") # {} => "node" \in A
  BY DEF Runtimes, NeedNode
<1>5. BackedBy(T, "pipx") # {} => A \cap {"uv", "pipx"} # {}
  BY DEF Runtimes, NeedUV
<1>6. NeedsPlugin(A) => NeedsPlugin(T)
  <2>1. ASSUME NEW t \in A, Backend[t] = "appimage" PROVE t \in T
    BY <1>1, <2>1
  <2> QED BY <2>1 DEF NeedsPlugin
<1> HIDE DEF A
<1>7. Installable(A)
  BY <1>3, <1>4, <1>5, <1>6 DEF Installable
<1> QED BY <1>7 DEF A

(* No step of the plug-in's command fails: nobody else adds a file between *)
(* the listing and the rmdir, or a link between clearTmp and the swap.     *)
LEMMA PluginGoesOn ==
  ASSUME PluginInv, NEW c \in Containers, VolumeSide(c),
         \/ Check(c) \/ ReadLink(c)
         \/ List(c) \/ Unlink(c) \/ RemoveDir(c) \/ Mkdir(c) \/ Open(c) \/ Write(c)
         \/ IsLink(c) \/ ClearPointer(c) \/ ClearTmp(c) \/ Link(c) \/ LinkAstray(c) \/ Swap(c)
  PROVE  VolumeSide(c)' /\ pc'[c] \in Command \cup {"install"}
<1> USE DEF PluginInv, PluginTypes, VolumeSide, Command, Installing
<1>1. CASE Check(c)
  <2>1. pc'[c] \in {"readlink", "list"}  BY <1>1 DEF Check
  <2> QED BY <2>1
<1>2. CASE ReadLink(c)
  <2>1. pc'[c] = "list" \/ (pc'[c] = "install" /\ pointer' \in Versions)
    BY <1>2 DEF ReadLink, PointerMatches
  <2> QED BY <2>1
<1>3. CASE List(c)
  <2>1. pc'[c] = "unlink" /\ dir' = dir /\ want' = want  BY <1>3 DEF List
  <2>2. dir[want[c]] = None \/ \A f \in Parts \ todo'[c] : dir[want[c]][f] = "none"
    BY <1>3 DEF List
  <2> QED BY <2>1, <2>2
<1>4. CASE Unlink(c)
  <2>1. pc' = pc /\ pc[c] = "unlink" /\ want' = want  BY <1>4 DEF Unlink
  <2>2. PICK f \in todo[c] :
          /\ todo' = [todo EXCEPT ![c] = @ \ {f}]
          /\ IF dir[want[c]] = None THEN dir' = dir
             ELSE dir' = [dir EXCEPT ![want[c]][f] = "none"]
    BY <1>4 DEF Unlink
  <2>3. dir[want[c]] = None => dir'[want[c]] = None  BY <2>2
  <2>4. ASSUME dir[want[c]] # None, NEW g \in Parts \ todo'[c] PROVE dir'[want[c]][g] = "none"
    <3>1. dir[want[c]] \in Trees /\ dir'[want[c]] = [dir[want[c]] EXCEPT ![f] = "none"]
      BY <2>2, <2>4
    <3>2. g = f \/ g \in Parts \ todo[c]  BY <2>2
    <3>3. g # f => dir[want[c]][g] = "none"  BY <2>1, <2>4, <3>2
    <3> QED BY <3>1, <3>3 DEF Trees
  <2> QED BY <2>1, <2>3, <2>4
<1>5. CASE RemoveDir(c)
  <2>1. pc[c] = "unlink" /\ todo[c] = {}  BY <1>5 DEF RemoveDir
  <2>2. dir[want[c]] = None \/ \A f \in Parts : dir[want[c]][f] = "none"  BY <2>1
  <2>3. dir[want[c]] \in {None, Empty}  BY <2>2 DEF Trees, Empty
  <2>4. pc'[c] = "mkdir"  BY <1>5, <2>3 DEF RemoveDir
  <2> QED BY <2>4
<1>6. CASE Mkdir(c)
  <2>1. pc'[c] = "open"  BY <1>6 DEF Mkdir
  <2> QED BY <2>1
<1>7. CASE Open(c)
  <2>1. dir[want[c]] # None  BY <1>7 DEF Open, WrittenInv
  <2>2. pc'[c] = "write"  BY <1>7, <2>1 DEF Open
  <2> QED BY <2>2
<1>8. CASE Write(c)
  <2>1. pc'[c] \in {"isLink", "open", "mkdir"}  BY <1>8 DEF Write, NextPart
  <2> QED BY <2>1
<1>9. CASE IsLink(c)
  <2>1. pc'[c] = "clearTmp" \/ (pc'[c] = "clearPointer" /\ pointer' \notin Versions)
    BY <1>9 DEF IsLink
  <2> QED BY <2>1
<1>10. CASE ClearPointer(c)
  <2>1. pc'[c] = "clearTmp"  BY <1>10 DEF ClearPointer
  <2> QED BY <2>1
<1>11. CASE ClearTmp(c)
  <2>1. pc'[c] = "link" /\ tmp' = None  BY <1>11 DEF ClearTmp
  <2> QED BY <2>1
<1>12. CASE Link(c)
  <2>1. pc'[c] = "swap" /\ tmp' = want'[c]  BY <1>12 DEF Link
  <2> QED BY <2>1
<1>13. CASE LinkAstray(c)  BY <1>13 DEF LinkAstray
<1>14. CASE Swap(c)
  <2>1. tmp = want[c] /\ tmp # None /\ pointer # "dir"  BY <1>14 DEF Swap, WrittenInv
  <2>2. pc'[c] = "install" /\ pointer' \in Versions  BY <1>14, <2>1 DEF Swap
  <2> QED BY <2>2
<1> QED BY <1>1, <1>2, <1>3, <1>4, <1>5, <1>6, <1>7, <1>8, <1>9, <1>10, <1>11, <1>12, <1>13, <1>14

(* The config of a script: what failed one of its writes, or its download, *)
(* is remembered, and what it has written it keeps.                        *)
LEMMA OwnConfig ==
  ASSUME PluginInv, ToolTypes, NEW c \in Containers, VolumeSide(c), ConfigSide(c), Step!(c)
  PROVE  ConfigSide(c)'
<1> SUFFICES ASSUME spared'[c] PROVE ConfigSide(c)'  BY DEF ConfigSide
<1> USE DEF PluginInv, PluginTypes, ToolTypes
<1>1. CASE Start(c)  BY <1>1 DEF Start, ConfigSide, Command, Installing
<1>2. CASE Config(c)  BY <1>2 DEF Config, ConfigSide, Command, Installing
<1>3. CASE ConfigFails(c) \/ RuntimesFail(c) \/ InstallFails(c)
  <2>1. spared'[c] = FALSE  BY <1>3 DEF ConfigFails, RuntimesFail, InstallFails
  <2> QED BY <2>1
<1>4. CASE AddRuntimes(c)
  <2>1. cfg[c] = Tools[c] /\ pc[c] = "runtimes"  BY <1>4 DEF AddRuntimes, ConfigSide
  <2>2. cfg'[c] = Tools[c] \cup Runtimes(Tools[c])  BY <1>4, <2>1 DEF AddRuntimes
  <2>3. pc'[c] \in {"check", "install"}  BY <1>4 DEF AddRuntimes, AfterRuntimes
  <2> QED BY <2>2, <2>3 DEF ConfigSide
<1>5. CASE Install(c)
  <2>1. pc[c] = "install" /\ spared[c] /\ cfg' = cfg /\ pc'[c] = "running"  BY <1>5 DEF Install
  <2>2. cfg[c] = Tools[c] \cup Runtimes(Tools[c]) /\ (NeedsPlugin(Tools[c]) => pointer \in Versions)
    BY <2>1 DEF ConfigSide, VolumeSide
  <2>3. NeedsPlugin(Tools[c]) => PluginWhole
    BY <2>2, TreeFacts DEF PointerInv, Complete, PluginWhole, Whole
  <2>4. Tools[c] \in SUBSET Names  BY ToolsAssumption
  <2>5. Installable(cfg[c])  BY <2>2, <2>3, <2>4, RuntimesSuffice
  <2>6. ready'[c] = (Tools[c] \subseteq cfg[c] /\ Installable(cfg[c]))  BY <1>5 DEF Install
  <2>7. Tools[c] \subseteq cfg[c]  BY <2>2
  <2>8. ready'[c]  BY <2>5, <2>6, <2>7
  <2> QED BY <2>1, <2>8 DEF ConfigSide, Command, Installing
<1>6. CASE Exit(c) \/ Kill(c)
  <2>1. pc'[c] = "gone"  BY <1>6 DEF Exit, Kill, Remove
  <2> QED BY <2>1 DEF ConfigSide, Command, Installing
<1>7. CASE \/ Check(c) \/ ReadLink(c)
           \/ List(c) \/ Unlink(c) \/ RemoveDir(c) \/ Mkdir(c) \/ Open(c) \/ Write(c)
           \/ IsLink(c) \/ ClearPointer(c) \/ ClearTmp(c) \/ Link(c) \/ LinkAstray(c) \/ Swap(c)
  <2>1. pc[c] \in Command /\ UNCHANGED <<cfg, spared>>
    BY <1>7 DEF Check, ReadLink, List, Unlink, RemoveDir, Mkdir, Open, Write, IsLink, ClearPointer,
       ClearTmp, Link, LinkAstray, Swap, Command, Installing
  <2>2. cfg'[c] = Tools[c] \cup Runtimes(Tools[c])  BY <2>1 DEF ConfigSide
  <2>3. pc'[c] \in Command \cup {"install"}  BY <1>7, PluginGoesOn
  <2> QED BY <2>2, <2>3 DEF ConfigSide, Command, Installing
<1> QED BY <1>1, <1>2, <1>3, <1>4, <1>5, <1>6, <1>7

(* The other steps of a script leave the volume as it is; one that goes to *)
(* mise install at once has no AppImages.                                  *)
LEMMA OwnVolume ==
  ASSUME PluginInv, ToolTypes, NEW c \in Containers, VolumeSide(c), Step!(c)
  PROVE  VolumeSide(c)'
<1>1. CASE \/ Start(c) \/ Config(c) \/ ConfigFails(c) \/ AddRuntimes(c) \/ RuntimesFail(c)
           \/ Install(c) \/ InstallFails(c) \/ Exit(c) \/ Kill(c)
  <2>1. pc'[c] \in {"config", "runtimes", "unnamed", "check", "running", "gone"}
        \/ (pc'[c] = "install" /\ ~NeedsPlugin(Tools[c]))
    BY <1>1 DEF Start, Config, ConfigFails, AddRuntimes, RuntimesFail, AfterRuntimes, Install,
       InstallFails, Exit, Kill, Remove, PluginInv, PluginTypes
  <2> QED BY <2>1 DEF VolumeSide
<1>2. CASE ~(\/ Start(c) \/ Config(c) \/ ConfigFails(c) \/ AddRuntimes(c) \/ RuntimesFail(c)
             \/ Install(c) \/ InstallFails(c) \/ Exit(c) \/ Kill(c))
  BY <1>2, PluginGoesOn
<1> QED BY <1>1, <1>2

(* A step of a script outside the plug-in's command does not change the    *)
(* volume.  In it, no other one is installing; and the pointer is only     *)
(* taken away where it names no version.                                   *)
LEMMA OthersVolume ==
  ASSUME PluginInv, ~Meet, NEW c \in Containers, NEW d \in Containers \ {c},
         VolumeSide(c), VolumeSide(d), Step!(d)
  PROVE  VolumeSide(c)'
<1>1. pc'[c] = pc[c] /\ want'[c] = want[c] /\ todo'[c] = todo[c]
  BY DEF Start, Config, ConfigFails, AddRuntimes, RuntimesFail, Check, ReadLink, List, Unlink, RemoveDir,
     Mkdir, Open, Write, NextPart, IsLink, ClearPointer, ClearTmp, Link, LinkAstray, Swap,
     Install, InstallFails, Exit, Kill, Remove, PluginInv, PluginTypes
<1>2. CASE UNCHANGED <<dir, pointer, tmp>>
  BY <1>1, <1>2 DEF VolumeSide
<1>3. CASE pc[d] \in Command /\ (pointer \in Versions => pointer' \in Versions)
  <2>1. pc[c] \notin Installing  BY <1>3 DEF Meet, Beside
  <2> QED BY <1>1, <1>3, <2>1 DEF VolumeSide, Installing
<1>4. UNCHANGED <<dir, pointer, tmp>> \/ (pc[d] \in Command /\ (pointer \in Versions => pointer' \in Versions))
  <2>1. CASE \/ Start(d) \/ Config(d) \/ ConfigFails(d) \/ AddRuntimes(d) \/ RuntimesFail(d)
             \/ Check(d) \/ ReadLink(d) \/ List(d) \/ IsLink(d)
             \/ Install(d) \/ InstallFails(d) \/ Exit(d) \/ Kill(d)
    BY <2>1 DEF Start, Config, ConfigFails, AddRuntimes, RuntimesFail, Check, ReadLink, List, IsLink,
       Install, InstallFails, Exit, Kill, Remove
  <2>2. CASE \/ Unlink(d) \/ RemoveDir(d) \/ Mkdir(d) \/ Open(d) \/ Write(d)
             \/ ClearTmp(d) \/ Link(d) \/ LinkAstray(d)
    BY <2>2 DEF Unlink, RemoveDir, Mkdir, Open, Write, ClearTmp, Link, LinkAstray, Command, Installing
  <2>3. CASE ClearPointer(d)
    BY <2>3 DEF ClearPointer, VolumeSide, Command, Installing
  <2>4. CASE Swap(d)
    BY <2>4 DEF Swap, PluginInv, PluginTypes, Command, Installing
  <2> QED BY <2>1, <2>2, <2>3, <2>4
<1> QED BY <1>2, <1>3, <1>4

LEMMA OthersConfig ==
  ASSUME PluginInv, ToolTypes, NEW c \in Containers, NEW d \in Containers \ {c}, ConfigSide(c), Step!(d)
  PROVE  ConfigSide(c)'
<1>1. pc'[c] = pc[c] /\ cfg'[c] = cfg[c] /\ ready'[c] = ready[c] /\ spared'[c] = spared[c]
  BY DEF Start, Config, ConfigFails, AddRuntimes, RuntimesFail, Check, ReadLink, List, Unlink, RemoveDir,
     Mkdir, Open, Write, NextPart, IsLink, ClearPointer, ClearTmp, Link, LinkAstray, Swap,
     Install, InstallFails, Exit, Kill, Remove, PluginInv, PluginTypes, ToolTypes
<1> QED BY <1>1 DEF ConfigSide

LEMMA UnmetStep ==
  ASSUME ~collided => PluginInv, ToolTypes, UnmetInv, [Next]_vars PROVE UnmetInv'
<1> SUFFICES ASSUME ~met'
             PROVE  /\ ~Meet' /\ ~collided'
                    /\ \A c \in Containers : VolumeSide(c)' /\ ConfigSide(c)'
  BY DEF UnmetInv
<1>1. CASE UNCHANGED vars
  BY <1>1 DEF UnmetInv, Meet, Beside, VolumeSide, ConfigSide
<1>2. CASE Next
  <2>1. Step /\ ~met /\ ~Meet'  BY <1>2 DEF Next
  <2>2. /\ ~Meet /\ ~collided /\ PluginInv
        /\ \A c \in Containers : VolumeSide(c) /\ ConfigSide(c)
    BY <2>1 DEF UnmetInv
  <2>3. ~LeavesLink  BY <2>2 DEF LeavesLink, Meet, Beside, Command, Installing
  <2>4. ~SameVersion'  BY <2>1 DEF SameVersion, Meet
  <2>5. ~collided'  BY <1>2, <2>2, <2>3, <2>4 DEF Next
  <2>6. PICK d \in Containers : Step!(d)  BY <2>1 DEF Step
  <2>7. ASSUME NEW c \in Containers PROVE VolumeSide(c)' /\ ConfigSide(c)'
    <3>1. CASE c = d  BY <2>2, <2>6, <3>1, OwnVolume, OwnConfig
    <3>2. CASE c # d
      <4>1. VolumeSide(c) /\ VolumeSide(d) /\ ConfigSide(c) /\ d \in Containers \ {c}  BY <2>2, <3>2
      <4> QED BY <2>2, <2>6, <4>1, OthersVolume, OthersConfig
    <3> QED BY <3>1, <3>2
  <2> QED BY <2>1, <2>5, <2>7
<1> QED BY <1>1, <1>2

(* As long as no two scripts have met at the plug-in, each script that no  *)
(* write of its own and no download failed ends with its tools             *)
(* installable, whatever killed ones have left, for any number of          *)
(* containers, versions, files and tools.                                  *)
THEOREM ScriptsAlwaysGetTools == Spec => []ScriptsGetTools
<1>1. Init => ToolTypes /\ UnmetInv
  BY DEF Init, ToolTypes, UnmetInv, Meet, Beside, VolumeSide, ConfigSide, Command, Installing
<1>2. /\ (~collided => PluginInv) /\ (~collided => PluginInv)'
      /\ ToolTypes /\ UnmetInv /\ [Next]_vars
      => (ToolTypes /\ UnmetInv)'
  BY ToolTypesStep, UnmetStep
<1>3. UnmetInv => ScriptsGetTools
  BY DEF UnmetInv, ConfigSide, ScriptsGetTools
<1> QED  BY <1>1, <1>2, <1>3, PluginInvariant, PTL DEF Spec
=============================================================================
