------------------------------- MODULE Dialog -------------------------------
(***************************************************************************)
(* What a list screen owes its caller, whatever it does with filters,      *)
(* folders, focus, popups and window sizes: it ends once, by a choice that *)
(* is exactly what was marked (or highlighted, where one thing is chosen)  *)
(* or by being cancelled, and a mark changes on what is highlighted only.  *)
(* Source: the contracts of DefaultPrompt (internal/approval/prompt.go),   *)
(* runPicker, runNewProfile and runFolderNav (internal/scaffold).          *)
(***************************************************************************)
CONSTANTS
  Entries,  \* for each screen, what can be marked
  None

VARIABLES
  kind,     \* the screen
  current,  \* the highlighted entry, or None
  marked,   \* the marked entries
  end,      \* "closed", "open", "chosen", "cancelled" or "panicked"
  answer    \* what the caller gets

vars == <<kind, current, marked, end, answer>>

(* A screen begins, with whatever it finds marked, or is forgotten.        *)
Open ==
  /\ kind' \in DOMAIN Entries
  /\ end' \in {"open", "closed"} /\ answer' = {} /\ marked' \subseteq Entries[kind']

Init == end \in {"open", "closed"} /\ answer = {} /\ marked \subseteq Entries[kind]

Look == end = "open" /\ UNCHANGED <<kind, marked, end, answer>>

Mark ==
  /\ end = "open" /\ current # None /\ kind \in {"approve", "nav"}
  /\ marked' = IF current \in marked THEN marked \ {current} ELSE marked \cup {current}
  /\ UNCHANGED <<kind, end, answer>>

(* Only the approval dialog has keys for all of its rows.                  *)
MarkAll ==
  /\ end = "open" /\ kind = "approve"
  /\ marked' \in {{}, Entries[kind]}
  /\ UNCHANGED <<kind, end, answer>>

Choose ==
  /\ end = "open" /\ end' = "chosen"
  /\ answer' = IF kind \in {"approve", "nav"} THEN marked ELSE {current}
  /\ kind \in {"approve", "nav"} \/ current # None
  /\ UNCHANGED <<kind, marked>>

Cancel ==
  /\ end = "open" /\ end' = "cancelled"
  /\ UNCHANGED <<kind, marked, answer>>

(* The approval dialog does not break off under its user.                  *)
Panic ==
  /\ end = "open" /\ end' = "panicked" /\ kind # "approve"
  /\ UNCHANGED <<kind, marked, answer>>

Next == Look \/ Mark \/ MarkAll \/ Choose \/ Cancel \/ Panic \/ (end # "open" /\ Open)

Spec == Init /\ [][Next]_vars
=============================================================================
