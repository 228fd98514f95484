---------------------------- MODULE ApprovalGate ----------------------------
(***************************************************************************)
(* The approval gate: what a profile that is not the user's own grants the *)
(* container has to be approved, and the answer is kept in a state file    *)
(* until what is granted changes.                                          *)
(*                                                                         *)
(* Several tpd processes launch the same profile, over and over, while its *)
(* definition changes under them.  A transaction (load, filter, ask, load  *)
(* again, merge, save, filter again) runs under a non-blocking flock, a    *)
(* dry run without it.  A step is one access to the state file, or one key *)
(* pressed in the dialog.                                                  *)
(*                                                                         *)
(* Source: internal/approval and the gate in pkg/tpd/launch.go.            *)
(***************************************************************************)
CONSTANTS
  Launches,   \* the tpd processes
  Grants,     \* records [field, key, value, rest, service, benign]: value is
              \* what the fingerprint renders; rest what it does not (of a
              \* service the image, packages, repos, files, command, caches
              \* and labels); service is the one whose socket a mount
              \* mounts, or NoService
  Profiles,   \* the definitions the profile goes through: records
              \* [grants, trusted], the latter written by the user
  Modes,      \* flags and terminals of the launches; a subset of AllModes
  NoService, NoGrant, NoOne

AllModes == {"ask",             \* a terminal and no flag
             "noTerminal", "yes", "no", "dry", "dryYes", "dryNo"}

Fields == {g.field : g \in Grants}
Slot(g) == <<g.field, g.key>>
Slots(G) == {Slot(g) : g \in G}

(* What the fingerprint renders of a grant (renderServiceDefinition): a    *)
(* grant with the same slot may differ in the rest.                        *)
Render(g) == <<g.field, g.key, g.value>>
Rendered(G) == {Render(g) : g \in G}

(* The maps of a profile have one value per key.                           *)
ASSUME ProfilesAssumption ==
  \A p \in Profiles :
    /\ p.grants \in SUBSET Grants /\ p.trusted \subseteq p.grants
    /\ \A g, h \in p.grants : Slot(g) = Slot(h) => g = h
ASSUME ModesAssumption == Modes \subseteq AllModes
ASSUME NoGrantAssumption == NoGrant \notin Rendered(Grants)
ASSUME NoOneAssumption == NoOne \notin Launches

VARIABLES
  file,       \* the state file: [hash, fields, approved]
  lock,       \* the launch that holds the flock of the state file
  pc,         \* pc[l]: what launch l does next
  mode,       \* mode[l]: its flags and terminal
  res,        \* res[l]: the profile it has resolved
  asks,       \* asks[l]: the items it still needs an answer for
  yes,        \* yes[l]: those of them that are checked
  seen,       \* seen[l]: the state it loaded last, the overlay of a dry run
  cfg,        \* cfg[l]: the grants it goes on with
  answered    \* history: the last answer that was saved, [hash, yes], the
              \* latter as rendered

launchVars == <<pc, mode, res, asks, yes, seen, cfg>>
vars == <<file, lock, launchVars, answered>>

Dry == {"dry", "dryYes", "dryNo"}
Pcs == {"idle", "begun", "filter", "dialog", "load", "save", "again", "passed", "failed"}

(* The state of a file that is not there: its hash is nobody's.            *)
NoHash == {NoGrant}
Empty == [hash |-> NoHash, fields |-> {}, approved |-> {}]
Hashes == SUBSET (Rendered(Grants) \cup {NoGrant})
States == [hash : Hashes, fields : SUBSET Fields, approved : SUBSET Slots(Grants)]

TypeOK ==
  /\ file \in States
  /\ lock \in Launches \cup {NoOne}
  /\ pc \in [Launches -> Pcs]
  /\ mode \in [Launches -> Modes]
  /\ res \in [Launches -> Profiles]
  /\ asks \in [Launches -> SUBSET Grants]
  /\ yes \in [Launches -> SUBSET Grants]
  /\ seen \in [Launches -> States]
  /\ cfg \in [Launches -> SUBSET Grants]
  /\ answered \in [hash : Hashes, yes : SUBSET Rendered(Grants)]

-----------------------------------------------------------------------------
(* Pure parts.                                                             *)

(* What is not the user's own.                                             *)
Untrusted(p) == p.grants \ p.trusted

(* ComputeApprovalHash: what is granted, whoever contributes it, as far as *)
(* it is rendered.                                                         *)
Hash(p) == Rendered(Untrusted(p))

(* reconcileState: of a matching state, keys the profile has no more go.   *)
(* The scalar network has no keys.                                         *)
Reconcile(st, p) ==
  IF st.hash # Hash(p) THEN st
  ELSE [st EXCEPT !.approved = {s \in @ : s \in Slots(p.grants) \/ s[1] = "network"}]

(* Mutant: what a field was answered for an older fingerprint still counts. *)
UndecidedFields(st, p, g) == g.field \notin st.fields

(* decide: what has to be asked, and what is kept meanwhile or for good.   *)
Undecided(st, p, g) == st.hash # Hash(p) \/ g.field \notin st.fields
Asked(st, p) == {g \in Untrusted(p) : Undecided(st, p, g)}
Kept(st, p)  == {g \in p.grants : \/ g \in p.trusted
                                  \/ Undecided(st, p, g)
                                  \/ Slot(g) \in st.approved}

(* cascadeDependentMounts.                                                 *)
Cascade(G) == {g \in G : g.service = NoService \/ <<"services", g.service>> \in Slots(G)}

(* newApprovalModel: the rows that start checked.                          *)
StartChecked(st, items) == {g \in items : Slot(g) \in st.approved \/ g.benign}

(* Mutant: choices are added to what the fields had.                       *)
MergeAdds(st, p, items, ok) ==
  [hash     |-> Hash(p),
   fields   |-> st.fields \cup {g.field : g \in items},
   approved |-> st.approved \cup Slots(ok)]

(* mergeChoicesIntoState: a decided field is replaced, others stay.        *)
Merge(st, p, items, ok) ==
  LET decided == {g.field : g \in items}
  IN [hash     |-> Hash(p),
      fields   |-> st.fields \cup decided,
      approved |-> {s \in st.approved : s[1] \notin decided} \cup Slots(ok)]

-----------------------------------------------------------------------------
At(l, p)   == pc[l] = p
Goto(l, p) == pc' = [pc EXCEPT ![l] = p]

(* The gate returns: the flock and its locals go.                          *)
Leave(l, p) ==
  /\ Goto(l, p)
  /\ lock' = IF lock = l THEN NoOne ELSE lock
  /\ asks' = [asks EXCEPT ![l] = {}]
  /\ yes' = [yes EXCEPT ![l] = {}]
  /\ seen' = [seen EXCEPT ![l] = Empty]

(* A tpd starts and resolves the profile, before it takes the lock: the    *)
(* definition the profile has at this moment.                              *)
Begin(l) ==
  /\ pc[l] \in {"idle", "passed", "failed"}
  /\ Goto(l, "begun")
  /\ \E m \in Modes, p \in Profiles : /\ mode' = [mode EXCEPT ![l] = m]
                                       /\ res' = [res EXCEPT ![l] = p]
  /\ cfg' = [cfg EXCEPT ![l] = {}]
  /\ UNCHANGED <<file, lock, asks, yes, seen, answered>>

(* Mutant: the flock is not exclusive.                                     *)
TakeSharedLock(l) ==
  /\ At(l, "begun")
  /\ lock' = IF mode[l] \in Dry THEN lock ELSE l
  /\ Goto(l, "filter")
  /\ UNCHANGED <<file, mode, res, asks, yes, seen, cfg, answered>>

(* Mutant: the flock blocks.                                               *)
WaitForLock(l) ==
  /\ At(l, "begun")
  /\ \/ mode[l] \in Dry /\ UNCHANGED lock
     \/ mode[l] \notin Dry /\ lock = NoOne /\ lock' = l
  /\ Goto(l, "filter")
  /\ UNCHANGED <<file, mode, res, asks, yes, seen, cfg, answered>>

(* WithLock: a launch that finds the lock taken fails at once; a dry run   *)
(* takes none.                                                             *)
TakeLock(l) ==
  /\ At(l, "begun")
  /\ \/ mode[l] \in Dry /\ Goto(l, "filter") /\ UNCHANGED lock
     \/ mode[l] \notin Dry /\ lock = NoOne /\ Goto(l, "filter") /\ lock' = l
     \/ mode[l] \notin Dry /\ lock # NoOne /\ Goto(l, "failed") /\ UNCHANGED lock
  /\ UNCHANGED <<file, mode, res, asks, yes, seen, cfg, answered>>

(* Filter's write-back, if anything changed; the store of a dry run drops  *)
(* it.                                                                     *)
WriteBack(l, st) == file' = IF mode[l] \in Dry THEN file ELSE Reconcile(st, res[l])

Pass(l, st) ==
  /\ cfg' = [cfg EXCEPT ![l] = Cascade(Kept(Reconcile(st, res[l]), res[l]))]
  /\ Leave(l, "passed")

(* The first Filter.  With nothing to ask the gate is passed; otherwise    *)
(* the flags answer, or the dialog opens, or the launch fails.             *)
Filter(l) ==
  /\ At(l, "filter")
  /\ WriteBack(l, file)
  /\ LET st    == Reconcile(file, res[l])
         items == Asked(st, res[l])
         Answer(ok, p) == /\ asks' = [asks EXCEPT ![l] = items]
                          /\ yes' = [yes EXCEPT ![l] = ok]
                          /\ Goto(l, p)
                          /\ UNCHANGED <<lock, seen, cfg>>
     IN \/ items = {} /\ Pass(l, file)
        \/ items # {} /\ mode[l] \in {"yes", "dryYes"} /\ Answer(items, "load")
        \/ items # {} /\ mode[l] \in {"no", "dryNo"} /\ Answer({}, "load")
        \/ items # {} /\ mode[l] = "ask" /\ Answer(StartChecked(st, items), "dialog")
        \/ items # {} /\ mode[l] \in {"noTerminal", "dry"} /\ Leave(l, "failed") /\ UNCHANGED cfg
  /\ UNCHANGED <<mode, res, answered>>

(* The dialog: space flips the row under the cursor; a checks all, or none *)
(* if all are; n checks none, or all if none are; enter submits.           *)
PressKey(l) ==
  /\ At(l, "dialog")
  /\ \/ \E g \in asks[l] :
          yes' = [yes EXCEPT ![l] = IF g \in @ THEN @ \ {g} ELSE @ \cup {g}]
     \/ yes' = [yes EXCEPT ![l] = IF @ = asks[l] THEN {} ELSE asks[l]]
     \/ yes' = [yes EXCEPT ![l] = IF @ = {} THEN asks[l] ELSE {}]
  /\ UNCHANGED <<file, lock, pc, mode, res, asks, seen, cfg, answered>>

Enter(l) ==
  /\ At(l, "dialog")
  /\ Goto(l, "load")
  /\ UNCHANGED <<file, lock, mode, res, asks, yes, seen, cfg, answered>>

LoadPrior(l) ==
  /\ At(l, "load")
  /\ seen' = [seen EXCEPT ![l] = file]
  /\ Goto(l, "save")
  /\ UNCHANGED <<file, lock, mode, res, asks, yes, cfg, answered>>

(* Merge and Save, which renames a complete file into place; a dry run     *)
(* keeps the merged state to itself (EphemeralStore).                      *)
SaveChoices(l) ==
  /\ At(l, "save")
  /\ LET merged == Merge(seen[l], res[l], asks[l], yes[l])
     IN \/ /\ mode[l] \in Dry
           /\ seen' = [seen EXCEPT ![l] = merged]
           /\ UNCHANGED <<file, answered>>
        \/ /\ mode[l] \notin Dry
           /\ file' = merged
           /\ answered' = [hash |-> Hash(res[l]), yes |-> Rendered(yes[l])]
           /\ UNCHANGED seen
  /\ Goto(l, "again")
  /\ UNCHANGED <<lock, mode, res, asks, yes, cfg>>

(* The second Filter: what it would ask is not looked at.                  *)
FilterAgain(l) ==
  /\ At(l, "again")
  /\ LET st == IF mode[l] \in Dry THEN seen[l] ELSE file
     IN Pass(l, st) /\ WriteBack(l, st)
  /\ UNCHANGED <<mode, res, answered>>

(* Loading or saving fails, the dialog is cancelled, or the process dies:  *)
(* the flock goes with it, and the state file is as it was.                *)
GiveUp(l) ==
  /\ pc[l] \in {"begun", "filter", "dialog", "load", "save", "again"}
  /\ Leave(l, "failed")
  /\ UNCHANGED <<file, mode, res, cfg, answered>>

-----------------------------------------------------------------------------
Init ==
  /\ file = Empty
  /\ lock = NoOne
  /\ pc = [l \in Launches |-> "idle"]
  /\ mode \in [Launches -> Modes]
  /\ res \in [Launches -> Profiles]
  /\ asks = [l \in Launches |-> {}]
  /\ yes = [l \in Launches |-> {}]
  /\ seen = [l \in Launches |-> Empty]
  /\ cfg = [l \in Launches |-> {}]
  /\ answered = [hash |-> NoHash, yes |-> {}]

(* What a process does by itself; the rest is up to users and failures.    *)
Step(l) == TakeLock(l) \/ Filter(l) \/ LoadPrior(l) \/ SaveChoices(l) \/ FilterAgain(l)

Next ==
  \E l \in Launches : Step(l) \/ Begin(l) \/ PressKey(l) \/ Enter(l) \/ GiveUp(l)

Spec == Init /\ [][Next]_vars

FairSpec == Spec /\ \A l \in Launches : WF_vars(Step(l))

-----------------------------------------------------------------------------
(* Properties.                                                             *)

(* The state file says of the fingerprint it is for exactly what the last  *)
(* saved answer said: merging field by field leaves no grant undecided     *)
(* and revives no decision taken for an older fingerprint, and reconciling *)
(* with another definition of the same fingerprint loses none.             *)
FileSaysTheAnswer ==
  file.hash # NoHash =>
    /\ answered.hash = file.hash
    /\ \A r \in file.hash : /\ r[1] \in file.fields
                            /\ <<r[1], r[2]>> \in file.approved <=> r \in answered.yes

(* What a launch goes on with is what the user wrote, and of the rest what *)
(* was approved: by its own answer if it asked, else by the last saved one *)
(* if that was for grants that render the same (their rest may have changed *)
(* since).  Without the mounts of a denied service.                        *)
Consent ==
  [][\A l \in Launches : pc[l] # "passed" /\ pc'[l] = "passed" =>
       LET ok == IF asks[l] # {} THEN yes[l]
                 ELSE {g \in Untrusted(res[l]) : /\ answered.hash = Hash(res[l])
                                                 /\ Render(g) \in answered.yes}
           G  == res[l].trusted \cup ok
       IN cfg'[l] = {g \in G : g.service = NoService
                                 \/ \E h \in G : h.field = "services" /\ h.key = g.service}]_vars

(* While the fingerprint on file stays, so does the answer: nobody is      *)
(* asked twice about the same grants, and neither a flag nor a launch next *)
(* to this one turns a denial into an approval or back.                    *)
DecidedOnce == [][answered' # answered => answered'.hash # answered.hash]_vars

(* The state file is written only by the holder of its lock, never by a    *)
(* dry run.                                                                *)
WritesUnderLock ==
  [][file' # file => \E l \in Launches : lock = l /\ pc[l] \in {"filter", "save", "again"}
                                                  /\ mode[l] \notin Dry]_vars

(* A launch that needs nobody's answer gets through the gate or fails,     *)
(* although another one may be sitting in its dialog for good.             *)
GateReturns ==
  \A l \in Launches : (At(l, "begun") /\ mode[l] # "ask") ~> (pc[l] \in {"passed", "failed"})

(* What a comment says, which the code does not do: approval.go:17, of     *)
(* items approved before, "The UI pre-selects such items and leaves newly  *)
(* introduced ones unselected".  So enter alone approves nothing that was  *)
(* not approved before.                                                    *)
OnlyPriorPreselected ==
  [][\A l \in Launches : pc[l] # "dialog" /\ pc'[l] = "dialog"
                           => Slots(yes'[l]) \subseteq file.approved]_vars
=============================================================================
