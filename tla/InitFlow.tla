------------------------------ MODULE InitFlow ------------------------------
(***************************************************************************)
(* `tpd init`: the screens in their order, the bases they add up to, the   *)
(* decision over a file that exists, the merge and the atomic write; next  *)
(* to it somebody who edits the file, and a crash at any step.             *)
(*                                                                         *)
(* Source: Run and what it calls in internal/scaffold/scaffold.go, and     *)
(* internal/scaffold/merge.go.  The approval dialog of a launch is the     *)
(* fourth list screen; it has no flow of its own here.                     *)
(***************************************************************************)
EXTENDS ListScreens

CONSTANTS
  New,        \* the picker's entry for a profile that shadows nothing
  Key,        \* for each other entry, its canonical name
  Profiles,   \* canonical names of profiles (the others are fragments)
  Shadows,    \* for each built-in profile's entry, its canonical name
  CoreMise,   \* the base of everything else
  Commanded,  \* canonical names that provide a command
  Commands,   \* command lines: [named, interactive, extends, force, merge, dry]
  Absent,     \* no file
  Blank,      \* a file that is empty, or not a mapping
  Broken,     \* a file that is not YAML
  Earlier,    \* what the file may be: one of these, or a profile
  MaxEdits    \* bound: how often somebody else writes the file

NoKey == "no key"
NoContent == [extends |-> <<>>, command |-> NoKey]

ASSUME FlowAssumption ==
  /\ New \in Entries /\ MaxEdits \in Nat /\ Absent \in Earlier
  /\ \A i \in Entries \ ({New} \cup Folders \cup SeqSet(Rows["approve"])) : i \in DOMAIN Key
  /\ \A x \in Commands \cup (Earlier \ {Absent, Blank, Broken}) : x.extends \in Seq(SeqSet(x.extends))

VARIABLES
  step,      \* of Run
  tty,       \* stdin and stdout are terminals
  opts,      \* the command line
  name,      \* the entry shadowed, or New
  bases,     \* the extends list so far
  content,   \* what is going to be written
  consent,   \* "none", "absent", "replace", "merge": what becomes of the file
  target,    \* the profile's file
  temp,      \* the temporary file: "none", "partial", "whole"
  edits,     \* writes of somebody else
  raced      \* one of them since the file was last looked at

flow == <<step, tty, opts, name, bases, content, consent, target, temp, edits, raced>>
vars == <<flow, screen>>

FlowInit ==
  /\ \/ /\ step = "start" /\ opts \in Commands /\ Fresh("pick", "closed")
        /\ tty \in {t \in BOOLEAN : t => opts.interactive}
     \/ step = "launch" /\ tty = TRUE /\ opts = (CHOOSE c \in Commands : TRUE) /\ Fresh("approve", "open")
  /\ name = New /\ bases = <<>> /\ content = NoContent /\ consent = "none"
  /\ target = Absent /\ temp = "none" /\ edits = 0 /\ raced = FALSE

At(s) == step = s
Goto(s) == step' = s
Ends == {"created", "shown", "skipped", "failed", "dead"}
OnScreen == {"launch", "pick", "name", "fragments"}

(* s, and after it what it lacks of t and pick has, in t's order.          *)
Added(s, t, pick) ==
  LET Upto[n \in 0..Len(t)] ==
        IF n = 0 THEN s
        ELSE IF t[n] \in pick \ SeqSet(Upto[n - 1]) THEN Append(Upto[n - 1], t[n]) ELSE Upto[n - 1]
  IN  Upto[Len(t)]
Dedup(s) == Added(<<>>, s, SeqSet(s))

(* The picked entries come out sorted; the rows are.                       *)
Sorted(s) == Added(<<>>, Rows["nav"], s)
Keys(s) == [n \in DOMAIN s |-> Key[s[n]]]

(* Without a profile among them, the bases get one: the built-in that the  *)
(* name shadows, or mise.                                                  *)
WithBase(s) ==
  IF \E n \in DOMAIN s : s[n] \in Profiles THEN s
  ELSE <<IF name \in DOMAIN Shadows THEN Shadows[name] ELSE CoreMise>> \o s

(* A name may shadow a built-in profile.                                   *)
Names == {New} \cup DOMAIN Shadows

Known(s) == \A n \in DOMAIN s : s[n] \in {Key[i] : i \in DOMAIN Key}

(* The command line is interactive on terminals; Run can be without, as    *)
(* its tests are.  With --extends nothing is asked.                        *)
Interactive == opts.interactive /\ opts.extends = <<>>
Wizard == ~opts.named \/ Interactive

-----------------------------------------------------------------------------
(* The screens, or the text prompts of a terminal that is none.  A screen  *)
(* that is left is forgotten.                                              *)
Prompt(k) == Open(k, IF tty THEN "open" ELSE "closed")
Leave == Open("pick", "closed")

Start ==
  /\ At("start")
  /\ IF (opts.force /\ opts.merge) \/ ~(opts.named \/ opts.interactive)
       THEN Goto("failed") /\ UNCHANGED bases
     ELSE IF opts.named THEN Goto("bases") /\ bases' = opts.extends
     ELSE Goto("pick") /\ UNCHANGED bases
  /\ name' \in IF step' = "bases" THEN Names ELSE {name}
  /\ IF step' = "pick" THEN Prompt("pick") ELSE UNCHANGED screen
  /\ UNCHANGED <<tty, opts, content, consent, target, temp, edits, raced>>

ScreenFails ==
  /\ step \in OnScreen \ {"launch"} /\ end \in {"cancelled", "panicked"}
  /\ Goto("failed") /\ Leave
  /\ UNCHANGED <<tty, opts, name, bases, content, consent, target, temp, edits, raced>>
Picked ==
  /\ At("pick") /\ end = "chosen"
  /\ \E i \in answer :
       /\ name' = i
       /\ IF i = New THEN Goto("name") /\ Open("name", "open")
          ELSE Goto("bases") /\ Leave
  /\ UNCHANGED <<tty, opts, bases, content, consent, target, temp, edits, raced>>

(* No name, or one that is not valid, is an error after the screen.        *)
Named ==
  /\ At("name") /\ end = "chosen"
  /\ \E i \in answer : bases' = <<Key[i]>>
  /\ step' \in {"bases", "failed"} /\ Leave
  /\ UNCHANGED <<tty, opts, name, content, consent, target, temp, edits, raced>>

(* What can be typed at the prompts: a name, or one for a new profile with *)
(* bases for it, which must be known.                                      *)
TextAnswered ==
  /\ At("pick") /\ ~tty
  /\ name' \in Names
  /\ bases' \in {c.extends : c \in Commands} \cup {<<CoreMise>>}
  /\ step' \in IF Known(bases') THEN {"bases", "failed"} ELSE {"failed"}
  /\ UNCHANGED <<tty, opts, content, consent, target, temp, edits, raced, screen>>

Bases ==
  /\ At("bases")
  /\ bases' = WithBase(bases)
  /\ IF Interactive THEN Goto("fragments") /\ Prompt("nav")
     ELSE Goto("generate") /\ UNCHANGED screen
  /\ UNCHANGED <<tty, opts, name, content, consent, target, temp, edits, raced>>

(* The name is a fragment's, or is not valid.                              *)
NameRefused ==
  /\ At("bases") /\ opts.named /\ Goto("failed")
  /\ UNCHANGED <<tty, opts, name, bases, content, consent, target, temp, edits, raced, screen>>

FragmentsPicked ==
  /\ At("fragments") /\ end = "chosen"
  /\ bases' = bases \o Keys(Sorted(answer)) /\ Goto("generate") /\ Leave
  /\ UNCHANGED <<tty, opts, name, content, consent, target, temp, edits, raced>>

(* The prompt's names are not trimmed: one that is unknown is an error.    *)
FragmentsTyped ==
  /\ At("fragments") /\ ~tty
  /\ \E s \in SUBSET (SeqSet(Rows["nav"]) \ Folders) : bases' = bases \o Keys(Sorted(s))
  /\ step' \in {"generate", "failed"} /\ Leave
  /\ UNCHANGED <<tty, opts, name, content, consent, target, temp, edits, raced>>

(* The contents: a command only where no base provides one.                *)
Generated(s) ==
  [extends |-> Dedup(s),
   command |-> IF \E n \in DOMAIN s : s[n] \in Commanded THEN NoKey ELSE "bash"]
Generate ==
  /\ At("generate") /\ Known(bases)
  /\ content' = Generated(bases)
  /\ Goto(IF opts.dry /\ ~opts.merge THEN "validate" ELSE "look")
  /\ UNCHANGED <<tty, opts, name, bases, consent, target, temp, edits, raced, screen>>
UnknownBase ==
  /\ At("generate") /\ ~Known(bases) /\ Goto("failed")
  /\ UNCHANGED <<tty, opts, name, bases, content, consent, target, temp, edits, raced, screen>>

-----------------------------------------------------------------------------
(* The file.                                                               *)

(* Until then the file is whatever others have made it.                    *)
Look ==
  /\ At("look") /\ target' \in Earlier /\ raced' = FALSE
  /\ IF target' = Absent THEN consent' = "absent" /\ Goto("validate")
     ELSE IF opts.merge THEN consent' = "merge" /\ Goto("read")
     ELSE IF opts.force THEN consent' = "replace" /\ Goto("validate")
     ELSE UNCHANGED consent /\ Goto(IF Wizard THEN "ask" ELSE "failed")
  /\ UNCHANGED <<tty, opts, name, bases, content, temp, edits, screen>>

(* It cannot be looked at, or not be read.                                 *)
LookFails ==
  /\ step \in {"look", "read"} /\ Goto("failed")
  /\ UNCHANGED <<tty, opts, name, bases, content, consent, target, temp, edits, raced, screen>>

(* Enter alone, and whatever else is typed, aborts.                        *)
Answer ==
  /\ At("ask")
  /\ \/ consent' = "replace" /\ Goto("validate")
     \/ consent' = "merge" /\ Goto("read")
     \/ UNCHANGED consent /\ step' \in {"skipped"} \cup (IF tty THEN {"failed"} ELSE {})
  /\ UNCHANGED <<tty, opts, name, bases, content, target, temp, edits, raced, screen>>

(* Mutant: an extends list that is there is taken for a value like others. *)
ReplaceExtends(old, new) == IF new = <<>> THEN old ELSE new

UnionExtends(old, new) == Added(old, new, SeqSet(new))
Merged(old, new) ==
  [extends |-> UnionExtends(old.extends, Dedup(new.extends)),
   command |-> IF old.command = NoKey THEN new.command ELSE old.command]
Merge ==
  /\ At("read") /\ target \notin {Absent, Broken}
  /\ content' = IF target = Blank THEN content ELSE Merged(target, content)
  /\ Goto("validate") /\ raced' = FALSE
  /\ UNCHANGED <<tty, opts, name, bases, consent, target, temp, edits, screen>>
MergeFails ==
  /\ At("read") /\ target \in {Absent, Broken} /\ Goto("failed")
  /\ UNCHANGED <<tty, opts, name, bases, content, consent, target, temp, edits, raced, screen>>

(* The result is resolved; what it declares may be refused.                *)
Validate ==
  /\ At("validate")
  /\ \/ Goto(IF opts.dry THEN "shown" ELSE "create")
     \/ Goto("failed")
  /\ UNCHANGED <<tty, opts, name, bases, content, consent, target, temp, edits, raced, screen>>

CreateTemp ==
  /\ At("create")
  /\ \/ Goto("write") /\ temp' = "partial"
     \/ Goto("failed") /\ UNCHANGED temp
  /\ UNCHANGED <<tty, opts, name, bases, content, consent, target, edits, raced, screen>>

(* Mutant: the profile's own file is written.                              *)
WriteInPlace ==
  /\ At("write") /\ Goto("rename") /\ temp' = "whole" /\ target' = NoContent
  /\ UNCHANGED <<tty, opts, name, bases, content, consent, edits, raced, screen>>

(* Write, chmod, sync and close.                                           *)
WriteTemp ==
  /\ At("write")
  /\ \/ Goto("rename") /\ temp' = "whole"
     \/ Goto("remove") /\ UNCHANGED temp
  /\ UNCHANGED <<tty, opts, name, bases, content, consent, target, edits, raced, screen>>
Rename ==
  /\ At("rename")
  /\ \/ Goto("created") /\ target' = content /\ temp' = "none"
     \/ Goto("remove") /\ UNCHANGED <<target, temp>>
  /\ UNCHANGED <<tty, opts, name, bases, content, consent, edits, raced, screen>>

RemoveTemp ==
  /\ At("remove") /\ Goto("failed") /\ temp' = "none"
  /\ UNCHANGED <<tty, opts, name, bases, content, consent, target, edits, raced, screen>>

-----------------------------------------------------------------------------
(* Somebody else writes or removes the file; tpd dies.                     *)
Edit ==
  /\ edits < MaxEdits /\ step \in {"ask", "read", "validate", "create", "write", "rename"}
  /\ target' \in Earlier \ {target} /\ edits' = edits + 1 /\ raced' = TRUE
  /\ UNCHANGED <<step, tty, opts, name, bases, content, consent, temp, screen>>
Die ==
  /\ step \in {"create", "write", "rename", "remove"} /\ Goto("dead")
  /\ UNCHANGED <<tty, opts, name, bases, content, consent, target, temp, edits, raced, screen>>

OnScreenNext == ScreenNext /\ UNCHANGED flow
Ended == (step \in Ends \/ (At("launch") /\ end # "open")) /\ UNCHANGED vars

RunNext ==
  \/ Start \/ ScreenFails \/ Picked \/ Named \/ TextAnswered \/ Bases \/ NameRefused
  \/ FragmentsPicked \/ FragmentsTyped \/ Generate \/ UnknownBase
  \/ Look \/ LookFails \/ Answer \/ Merge \/ MergeFails \/ Validate
  \/ CreateTemp \/ WriteTemp \/ Rename \/ RemoveTemp
Next == OnScreenNext \/ RunNext \/ Edit \/ Die \/ Ended

Spec == FlowInit /\ [][Next]_vars

-----------------------------------------------------------------------------
(* Properties.                                                             *)

FlowTypeOK ==
  /\ TypeOK /\ tty \in BOOLEAN
  /\ step \in Ends \cup OnScreen \cup {"start", "bases", "generate", "look", "ask", "read",
                "validate", "create", "write", "rename", "remove"}
  /\ consent \in {"none", "absent", "replace", "merge"}
  /\ temp \in {"none", "partial", "whole"} /\ edits \in 0..MaxEdits /\ raced \in BOOLEAN

(* What was in the file stays: unless the user said overwrite, the new     *)
(* file begins with the old one's extends and keeps its command, through   *)
(* every order of screens, flags, failures and merges.  The exception is a *)
(* write of somebody else after the file was last looked at.               *)
Extends(new, old) ==
  old \in {Absent, Blank}
  \/ /\ old # Broken
     /\ old.command \in {new.command, NoKey}
     /\ Len(old.extends) <= Len(new.extends)
     /\ \A n \in DOMAIN old.extends : new.extends[n] = old.extends[n]
NothingLost ==
  [][At("rename") /\ Goto("created") /\ ~raced /\ consent # "replace"
       => Extends(target', target)]_vars

(* A reader of the profile, or one after a crash, finds what somebody      *)
(* wrote as a whole: the earlier file or the generated one.                *)
WholeFile == target = content \/ target \in Earlier

(* No temporary file is left by an init that was not killed.               *)
TempsRemoved == step \in Ends \ {"dead"} => temp = "none"
=============================================================================
