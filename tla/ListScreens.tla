---------------------------- MODULE ListScreens ----------------------------
(***************************************************************************)
(* The four list screens of tpd: the approval dialog of a launch           *)
(* ("approve") and, in `tpd init`, the profile picker ("pick"), the new    *)
(* profile's name and base ("name") and the folders of fragments ("nav").  *)
(*                                                                         *)
(* Source: internal/approval/prompt.go, and picker.go, foldernav.go and    *)
(* browser.go of internal/scaffold.  Each is a bubbletea model around a    *)
(* bubbles list.  Messages come one at a time, but the list filters in a   *)
(* command whose answer is a message of its own, and after each message    *)
(* the screen is drawn, which may panic.                                   *)
(***************************************************************************)
EXTENDS Integers, Sequences, FiniteSets

CONSTANTS
  None,     \* no entry
  Rows,     \* for each screen, all its rows in their order
  Inside,   \* for each nested fragment, its folder
  Benign,   \* rows the approval dialog starts with checked: benign items,
            \* and those approved before
  Found,    \* for each filter text, the rows that match; "" matches all
  Widths,   \* classes of window widths
  Lines,    \* for each of them, how many lines an entry's contents wrap to
  Rooms,    \* rows a window may leave to the list
  Window,   \* rows of contents a popup shows (detailWindow, 10)
  Spare,    \* for each screen and width, the rows of a popup's box beyond
            \* its contents, less those the screen draws around its list
  MaxRows,  \* rows of the approval list (maxListRows, 20)
  MaxAnswers  \* bound on the filterings under way

SeqSet(s) == {s[n] : n \in DOMAIN s}
Entries == UNION {SeqSet(Rows[k]) : k \in DOMAIN Rows}
Folders == {Inside[i] : i \in DOMAIN Inside}
Least(a, b) == IF a < b THEN a ELSE b
Most(a, b) == IF a > b THEN a ELSE b

ASSUME ScreensAssumption ==
  /\ DOMAIN Rows = {"approve", "pick", "name", "nav"}
  /\ \A k \in DOMAIN Rows : Rows[k] \in Seq(Entries)
  /\ None \notin Entries
  /\ "" \in DOMAIN Found /\ Found[""] = Entries
  /\ \A q \in DOMAIN Found : Found[q] \subseteq Entries
  /\ Benign \subseteq SeqSet(Rows["approve"])
  /\ Lines \in [Widths -> [Entries -> Nat]]
  /\ Spare \in [DOMAIN Rows -> [Widths -> Int]]
  /\ Rooms \subseteq Nat \ {0} /\ Window \in Nat \ {0} /\ MaxRows \in Nat \ {0}
  /\ MaxAnswers \in Nat

VARIABLES
  kind,      \* the screen that is open
  marks,     \* checked rows, picked fragments
  listed,    \* the marks the list's own copies of the rows carry
  expanded,  \* folders
  filter,    \* the list's filter: "off", "typing", "applied"
  query,     \* its text
  found,     \* the copies it lets through: their rows, the marks they carry
             \* and whether they come from the newest filtering
  answers,   \* filterings under way, each as the copies it will find
  index,     \* the list's cursor
  atList,    \* the list has the focus, not the name or the Done button
  popup,     \* the details popup is open
  scroll,    \* its offset
  width, room,      \* the window
  natural, height,  \* rows of the list without a popup, and now
  end,       \* "closed", "open", "chosen", "cancelled", "panicked"
  answer     \* what the caller gets

choice == <<marks, listed, expanded>>
filtering == <<filter, query, found, answers>>
window == <<width, room>>
frame == <<natural, height>>
outcome == <<end, answer>>
screen == <<kind, choice, filtering, index, atList, popup, scroll, window, frame, outcome>>

Approving == kind = "approve"
Picking == kind \in {"pick", "name"}
Free == end = "open" /\ ~popup

-----------------------------------------------------------------------------
(* What is on the screen: the rows that are shown, by their number.        *)

Listed == {i \in SeqSet(Rows[kind]) :
             i \in DOMAIN Inside /\ kind = "nav" => Inside[i] \in expanded}
Visible ==
  LET through == IF filter = "off" THEN Listed ELSE found.rows
  IN  {n \in DOMAIN Rows[kind] : Rows[kind][n] \in through}
Count == Cardinality(Visible)

(* The row with as many visible ones above it as the cursor says.          *)
Highlighted ==
  LET visible == Visible
      AtCursor(n) == Cardinality({m \in visible : m < n}) = index
  IN  IF \E n \in visible : AtCursor(n)
        THEN Rows[kind][CHOOSE n \in visible : AtCursor(n)] ELSE None

(* The popup of a screen without a highlighted row, or of one that has no  *)
(* contents, is empty.                                                     *)
Content == IF Highlighted = None THEN 0 ELSE Lines[width][Highlighted]
MaxScroll == IF Content > Window THEN Content - Window ELSE 0

(* The first line shown: the approval dialog takes it back to where the    *)
(* contents fill the window, the others only when the contents overflow.   *)
NavStart ==
  IF Content > Window /\ scroll + Window > Content THEN Content - Window ELSE scroll
PopupStart ==
  IF Approving
    THEN IF scroll + Window > Content THEN MaxScroll ELSE scroll
    ELSE NavStart
DrawPanics == popup /\ Content > 0 /\ PopupStart > Content

(* The first of the rows drawn when not all can be (window): as far up as  *)
(* the cursor allows.                                                      *)
FirstRow(rows, n) == Least(Most(n + 1, rows) - rows, Count - rows)

(* Rows of the list: what each screen draws around it (in the approval     *)
(* dialog also its description, which wraps) is taken off the window (room) *)
(* and off the popup's box.                                                *)
Natural ==
  Most(1, Least(room, CASE Approving -> Least(Count, MaxRows)
                        [] Picking -> Count + 1
                        [] kind = "nav" ->
                             Cardinality(Listed) + 1))
BoxRows == Most(1, Least(Content, Window) + Spare[kind][width])
Grown == Most(natural, BoxRows)
Fit == IF popup THEN Grown ELSE natural
Refit == natural' = Natural' /\ height' = Fit'

(* Only the approval dialog sizes its list after every message it passes   *)
(* on to it.                                                               *)
AfterList == IF Approving THEN Refit ELSE UNCHANGED frame
Draw == end' = IF DrawPanics' THEN "panicked" ELSE "open"

-----------------------------------------------------------------------------
(* The bubbles list.                                                       *)

Match(q) == Found[q] \cap Listed
Copies(rows, marked, newest) ==
  [rows |-> rows, marks |-> marked \cap rows, newest |-> newest]

(* A filtering copies the rows as they are when it begins; those that are  *)
(* under way go on.                                                        *)
Superseded == {[a EXCEPT !.newest = FALSE] : a \in answers}
Filter ==
  /\ Cardinality(Superseded) < MaxAnswers
  /\ answers' = Superseded \cup {Copies(Match(query)', listed', TRUE)}

(* SetItems: under a filter nothing is visible until it has answered.      *)
SetItems ==
  IF filter = "off" THEN UNCHANGED filtering
  ELSE /\ UNCHANGED <<filter, query>>
       /\ found' = Copies({}, {}, FALSE) /\ Filter

ListHasKeys == Free /\ (Approving \/ kind = "pick" \/ atList)

(* Any browsing key also takes the cursor back to the visible rows.        *)
Move ==
  /\ ListHasKeys /\ filter # "typing"
  /\ index' \in {0} \cup 0..(Count - 1)
  /\ UNCHANGED <<kind, choice, filtering, atList, popup, scroll, window, outcome>>
  /\ AfterList
StartFilter ==
  /\ ListHasKeys /\ filter # "typing"
  /\ filter' = "typing" /\ index' = 0
  /\ found' = IF query = "" THEN Copies(Listed, listed, TRUE) ELSE found
  /\ UNCHANGED <<kind, choice, query, answers, atList, popup, scroll, window, outcome>>
  /\ AfterList
Type ==
  /\ ListHasKeys /\ filter = "typing"
  /\ UNCHANGED <<kind, choice, filter, found, index, atList, popup, scroll, window, outcome>>
  /\ query' \in DOMAIN Found \ {query} /\ Filter
  /\ AfterList
Reset ==
  filter' = "off" /\ query' = "" /\ found' = Copies({}, {}, FALSE) /\ answers' = Superseded
ClearFilter ==
  /\ ListHasKeys /\ filter # "off" /\ ~Approving
  /\ Reset
  /\ UNCHANGED <<kind, choice, index, atList, popup, scroll, window, frame, outcome>>
AcceptFilter ==
  /\ ListHasKeys /\ filter = "typing" /\ query # ""
  /\ IF Count = 0 THEN Reset ELSE filter' = "applied" /\ UNCHANGED <<query, found, answers>>
  /\ UNCHANGED <<kind, choice, index, atList, popup, scroll, window, outcome>>
  /\ AfterList

(* Answers come in any order, and under an open popup too.  A screen whose *)
(* list has no focus gives them to nobody.  With the approval dialog's new *)
(* height the list pages anew.                                             *)
Answered ==
  /\ end = "open"
  /\ \E a \in answers :
       /\ answers' = answers \ {a}
       /\ found' = IF filter # "off" /\ (Approving \/ kind = "pick" \/ atList) THEN a ELSE found
  /\ UNCHANGED <<kind, choice, filter, query, atList, popup, scroll, window, answer>>
  /\ IF Approving /\ filter # "off"
       THEN index' \in {index} \cup 0..(Count' - 1) ELSE UNCHANGED index
  /\ AfterList /\ Draw

-----------------------------------------------------------------------------
(* Keys the screens take themselves.                                       *)

(* The program quits: it draws nothing more and gets no more messages.     *)
Quit == found' = Copies({}, {}, FALSE) /\ answers' = {} /\ UNCHANGED <<filter, query>>

(* Ctrl+C at any time; esc and q where they do not close or clear anything *)
(* (in the approval dialog also while a filter is typed, in the name also  *)
(* as a letter of it).                                                     *)
Cancel ==
  /\ end = "open" /\ end' = "cancelled" /\ Quit
  /\ UNCHANGED <<kind, choice, index, atList, popup, scroll, window, frame, answer>>

OpenPopup ==
  /\ Free
  /\ \/ Approving
     \/ Picking /\ (kind = "pick" \/ atList) /\ filter # "typing" /\ Content > 0
     \/ kind = "nav" /\ atList /\ filter # "typing" /\ Highlighted \notin Folders \cup {None}
  /\ popup' = TRUE /\ scroll' = 0 /\ height' = Grown
  /\ UNCHANGED <<kind, choice, filtering, index, atList, window, natural, outcome>>
ClosePopup ==
  /\ end = "open" /\ popup
  /\ popup' = FALSE /\ scroll' = 0 /\ height' = natural
  /\ UNCHANGED <<kind, choice, filtering, index, atList, window, natural, outcome>>
Scroll ==
  /\ end = "open" /\ popup
  /\ \/ scroll > 0 /\ scroll' = scroll - 1
     \/ scroll < MaxScroll /\ scroll' = scroll + 1
  /\ UNCHANGED <<kind, choice, filtering, index, atList, popup, window, frame, answer>>
  /\ Draw

(* a: all, or none if all are checked; n: none, or all if none is checked. *)
MarkAll ==
  /\ Free /\ Approving
  /\ \E all \in {{}, SeqSet(Rows[kind])} :
       marks' = IF marks = all THEN SeqSet(Rows[kind]) \ all ELSE all
  /\ UNCHANGED <<kind, expanded, index, atList, popup, scroll, window, frame, outcome>>
  /\ listed' = marks' /\ SetItems

CanToggle ==
  /\ Free /\ Highlighted # None
  /\ \/ Approving
     \/ kind = "nav" /\ atList /\ filter # "typing"
Flip(i) == marks' = IF i \in marks THEN marks \ {i} ELSE marks \cup {i}

(* Mutant: the row is looked up by the cursor among all rows.              *)
ToggleByIndex ==
  /\ CanToggle /\ Highlighted \notin Folders
  /\ Flip(Rows[kind][index + 1])
  /\ listed' = IF Approving THEN marks' ELSE listed
  /\ UNCHANGED <<kind, expanded, index, atList, popup, scroll, window, frame, outcome>>
  /\ IF Approving THEN SetItems ELSE UNCHANGED filtering

Toggle ==
  /\ CanToggle /\ Highlighted \notin Folders
  /\ Flip(Highlighted)
  /\ listed' = IF Approving THEN marks' ELSE listed
  /\ UNCHANGED <<kind, expanded, index, atList, popup, scroll, window, frame, outcome>>
  /\ IF Approving THEN SetItems ELSE UNCHANGED filtering

Fold ==
  /\ CanToggle /\ Highlighted \in Folders
  /\ expanded' = IF Highlighted \in expanded THEN expanded \ {Highlighted}
                 ELSE expanded \cup {Highlighted}
  /\ UNCHANGED <<kind, marks, listed, index, atList, popup, scroll, window, outcome>>
  /\ SetItems /\ Refit

(* Tab; and enter in the name.                                             *)
SwitchFocus ==
  /\ Free /\ kind \in {"name", "nav"} /\ filter = "off"
  /\ atList' = ~atList
  /\ UNCHANGED <<kind, choice, filtering, index, popup, scroll, window, frame, outcome>>

(* Enter: the approval dialog answers for every row, shown or not.         *)
Choose ==
  /\ Free
  /\ \/ Approving /\ answer' = marks
     \/ kind = "nav" /\ ~atList /\ answer' = marks
     \/ /\ Picking /\ (kind = "pick" \/ atList) /\ filter # "typing"
        /\ Highlighted # None /\ answer' = {Highlighted}
  /\ end' = "chosen" /\ Quit
  /\ UNCHANGED <<kind, choice, index, atList, popup, scroll, window, frame>>

(* Mutant: the popup's rows are not asked for again.                       *)
ResizeShrinks ==
  /\ end = "open"
  /\ width' \in Widths /\ room' \in Rooms
  /\ UNCHANGED <<kind, choice, filtering, index, atList, popup, scroll, answer>>
  /\ natural' = Natural' /\ height' = natural' /\ Draw

Resize ==
  /\ end = "open"
  /\ width' \in Widths /\ room' \in Rooms
  /\ UNCHANGED <<kind, choice, filtering, index, atList, popup, scroll, answer>>
  /\ Refit /\ Draw

-----------------------------------------------------------------------------
(* A screen opens (e is "open") or there is none ("closed").  The name has  *)
(* the focus of its screen.                                                *)
Fresh(k, e) ==
  /\ kind = k /\ marks = (IF k = "approve" THEN Benign ELSE {}) /\ listed = marks
  /\ expanded = {} /\ filter = "off" /\ query = "" /\ answers = {}
  /\ found = Copies({}, {}, FALSE)
  /\ index = 0 /\ atList = (k # "name") /\ popup = FALSE /\ scroll = 0
  /\ width \in Widths /\ room \in Rooms /\ natural = Natural /\ height = natural
  /\ end = e /\ answer = {}
Open(k, e) ==
  /\ kind' = k /\ marks' = (IF k = "approve" THEN Benign ELSE {}) /\ listed' = marks'
  /\ expanded' = {} /\ filter' = "off" /\ query' = "" /\ answers' = {}
  /\ found' = Copies({}, {}, FALSE)
  /\ index' = 0 /\ atList' = (k # "name") /\ popup' = FALSE /\ scroll' = 0
  /\ UNCHANGED window /\ natural' = Natural' /\ height' = natural'
  /\ end' = e /\ answer' = {}

ScreenNext ==
  \/ Move \/ StartFilter \/ Type \/ ClearFilter \/ AcceptFilter \/ Answered
  \/ Cancel \/ OpenPopup \/ ClosePopup \/ Scroll \/ MarkAll \/ Toggle \/ Fold
  \/ SwitchFocus \/ Choose \/ Resize

-----------------------------------------------------------------------------
(* Properties.                                                             *)

TypeOK ==
  /\ kind \in DOMAIN Rows /\ marks \subseteq Entries /\ listed \subseteq Entries
  /\ expanded \subseteq Folders
  /\ filter \in {"off", "typing", "applied"} /\ query \in DOMAIN Found
  /\ answers \cup {found} \subseteq [rows : SUBSET Entries, marks : SUBSET Entries, newest : BOOLEAN]
  /\ index \in Nat /\ atList \in BOOLEAN /\ popup \in BOOLEAN /\ scroll \in Nat
  /\ width \in Widths /\ room \in Rooms /\ natural \in Nat /\ height \in Nat
  /\ end \in {"closed", "open", "chosen", "cancelled", "panicked"} /\ answer \subseteq Entries

(* Each screen keeps the contract of a dialog: one end, the answer that    *)
(* was marked, marks only on what is highlighted (through filters, folders *)
(* and answers that come late), and an approval dialog that never panics.  *)
D == INSTANCE Dialog WITH
       Entries <- [k \in DOMAIN Rows |-> SeqSet(Rows[k])],
       current <- Highlighted, marked <- marks
KeepsContract == D!Spec

(* The approval dialog's rows "re-render" with the authoritative marks     *)
(* (syncList, prompt.go): when no filtering is under way, the boxes that   *)
(* are drawn carry what enter submits.                                     *)
Boxes == IF filter = "off" THEN listed ELSE found.marks
Drawn == {Rows[kind][n] : n \in Visible}
BoxesAgree == Approving => Boxes \cap Drawn = marks \cap Drawn
BoxesAreTrue == end = "open" /\ answers = {} => BoxesAgree

(* What is drawn is true wherever the newest filtering has the last word:  *)
(* it has answered, and no older one has answered after it.  Then the rows *)
(* drawn are those that match, with the marks enter submits; a key or a    *)
(* fold that changed rows or marks without a new filtering would break it. *)
LastWord == filter = "off" \/ (found.newest /\ \A a \in answers : ~a.newest)
DrawnIsSubmitted ==
  LastWord =>
    /\ Drawn = (IF filter = "off" THEN Listed ELSE Match(query))
    /\ BoxesAgree

HighlightIsDrawn ==
  Approving /\ Highlighted # None /\ Count > Most(1, height)
    => LET rows == Most(1, height)
           start == FirstRow(rows, index)
       IN  start <= index /\ index < start + rows
PopupFits ==
  end = "open" /\ (Approving \/ filter = "off") =>
    height = IF popup THEN Most(natural, BoxRows) ELSE natural

(* After any sequence of moves, filters, answers and window sizes the row  *)
(* the next key acts on is among those drawn, and a popup has the rows its *)
(* box needs and gives them back when it closes (on the other screens, as  *)
(* long as their filter has answered before the popup opens).              *)
ScreenFits == HighlightIsDrawn /\ PopupFits
=============================================================================
