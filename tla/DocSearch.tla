----------------------------- MODULE DocSearch -----------------------------
(***************************************************************************)
(* The search panel of the reference manual under docs/html: SearchBox and *)
(* SearchResults of search/search.js, which Doxygen puts beside the pages  *)
(* it generates, as menu.js and index.html wire them up.  A field whose    *)
(* changes start a search after half a second without a key, a window to   *)
(* filter by section that closes a third of a second after the pointer     *)
(* left it, and a frame that shows a page of results one can walk through. *)
(*                                                                         *)
(* Everything is an event handler that runs to its end; what interleaves   *)
(* are the user's events, the timers, the loading of a page into the frame *)
(* and the message that asks it to take the focus.  A key changes the      *)
(* field when it goes down and is handled when it comes up.                *)
(*                                                                         *)
(* Abstracted: geometry, styles other than what is shown, spelling.  A     *)
(* text is a member of Texts; of it matter what is left of it without      *)
(* blanks, or without those it begins with, whether a section has a page   *)
(* for its first letter, and which rows of that page begin with it.        *)
(***************************************************************************)
EXTENDS Integers, FiniteSetsExt

CONSTANTS
  Words,         (* what users type                                        *)
  Label,         (* searchLabel, in the field while it is inactive         *)
  Squeezed,      (* a text without its blanks                              *)
  Trimmed,       (* a text without the blanks it begins with               *)
  Sections,      (* how many there are: indexSectionNames                  *)
  Indexed,       (* pairs of a section and a text with a page              *)
  Hits,          (* the rows that begin with a text                        *)
  Children,      (* of each row; a row with one result has none            *)
  MaxOrphans     (* bounds the timers nobody can stop any more             *)

Texts == Words \cup {"", Label}
Rows == DOMAIN Children

ASSUME BoundsAssumption == Sections \in Nat \ {0} /\ MaxOrphans \in Nat

ASSUME TextsAssumption ==
  /\ Squeezed \in [Texts -> Texts] /\ Trimmed \in [Texts -> Texts]
  /\ \A t \in Texts : Squeezed[Squeezed[t]] = Squeezed[t] /\ Squeezed[Trimmed[t]] = Squeezed[t]
  /\ Label # "" /\ Trimmed[Label] = Label /\ Squeezed[Label] = Label

(* A page lists its rows in order, so those with a common beginning follow *)
(* one another.                                                            *)
ASSUME RowsAssumption ==
  /\ Children \in [Rows -> Nat] /\ Rows \subseteq Nat
  /\ \A t \in Texts : Hits[t] \subseteq Rows
       /\ \A i, j \in Hits[t] : i .. j \subseteq Hits[t]

VARIABLES
  box,          (* the field's value, whether the box looks active, ...    *)
  typed,        (* the field changed, and no key came up in it since       *)
  focus,        (* <<"field">>, <<"select">>, an item, a child, <<"none">> *)
  filter,       (* searchIndex                                             *)
  keyTimeout,   (* keyTimeout names a timer that runs                      *)
  orphans,      (* running timers that keyTimeout does not name            *)
  hideTimeout,  (* the timer that closes the selection window runs         *)
  pointer,      (* "over" or "away" from the selection window and its icon *)
  selecting,    (* the selection window is shown                           *)
  results,      (* the results window is shown                             *)
  close,        (* so is the button that closes it                         *)
  page,         (* the location last given to the frame                    *)
  loading,      (* the frame still shows the one before                    *)
  rows,         (* the visible rows of the document it shows               *)
  expanded,     (* those whose children are visible                        *)
  message,      (* "take_focus" is on its way to the frame                 *)
  putOff        (* which searches were put off: for the "text", whose key  *)
                (* or timer Shift took over, or for the "section", chosen  *)
                (* while the field was empty or not in use                 *)

frameVars == <<loading, rows, expanded, message>>
vars == <<box, typed, focus, filter, keyTimeout, orphans, hideTimeout, pointer,
          selecting, results, close, page, frameVars, putOff>>

-----------------------------------------------------------------------------
NoPage == [section |-> 0, word |-> "", hit |-> FALSE]
InFrame(f) == f[1] \in {"item", "child"}

Init ==
  /\ box = [value |-> Label, active |-> FALSE, searchActive |-> FALSE, last |-> ""]
  /\ typed = FALSE
  /\ focus = <<"none">>
  /\ filter = 0
  /\ keyTimeout = FALSE
  /\ orphans = 0
  /\ hideTimeout = FALSE
  /\ pointer = "away"
  /\ selecting = FALSE
  /\ results = FALSE
  /\ close = FALSE
  /\ page = NoPage
  /\ loading = FALSE
  /\ rows = {}
  /\ expanded = {}
  /\ message = FALSE
  /\ putOff = {}

-----------------------------------------------------------------------------
(* SearchBox.Activate, on box b while the results window is shown or not.  *)
Activate(b, isActive, shown) ==
  IF isActive \/ shown
  THEN [b EXCEPT !.active = TRUE,
                 !.value = IF b.value = Label THEN "" ELSE b.value,
                 !.searchActive = b.searchActive \/ b.value = Label]
  ELSE [value |-> Label, active |-> FALSE, searchActive |-> FALSE, last |-> ""]

(* onfocus and onblur of the field, as the focus goes from one to another. *)
Focused(b, from, to, shown) ==
  IF from = to THEN b
  ELSE IF from = <<"field">> THEN Activate(b, FALSE, shown)
  ELSE IF to = <<"field">> THEN Activate(b, TRUE, shown)
  ELSE b

MoveFocus(to) ==
  /\ focus' = to
  /\ box' = Focused(box, focus, to, results)
  /\ typed' = (typed /\ box'.active)

(* Past the last section the lookup of a page throws.                      *)
Throws(s) == s >= Sections

SlipRemembersFirst(b, s) ==
  /\ keyTimeout' = FALSE
  /\ LET word == Trimmed[b.value]
     IN  /\ box' = [b EXCEPT !.last = word]
         /\ IF Throws(s)
            THEN UNCHANGED <<page, loading, results, close, putOff>>
            ELSE /\ page' = [section |-> s, word |-> word, hit |-> <<s, word>> \in Indexed]
                 /\ loading' = TRUE
                 /\ results' = TRUE
                 /\ close' = TRUE
                 /\ putOff' = {}

(* SearchBox.Search with section s: give the frame the page for what the   *)
(* field holds, and show it.  Past the last section the lookup throws, and *)
(* only the first assignment has been made.                                *)
Search(b, s) ==
  /\ keyTimeout' = FALSE
  /\ IF Throws(s)
     THEN box' = b /\ UNCHANGED <<page, loading, results, close, putOff>>
     ELSE LET word == Trimmed[b.value]
          IN  /\ page' = [section |-> s, word |-> word, hit |-> <<s, word>> \in Indexed]
              /\ loading' = TRUE
              /\ results' = TRUE
              /\ close' = TRUE
              /\ box' = [b EXCEPT !.last = word]
              /\ putOff' = {}

(* Searching directly forgets the name of a timer that still runs.         *)
Orphaned(n) ==
  /\ n <= MaxOrphans
  /\ orphans' = n

-----------------------------------------------------------------------------
(* The field *)

FocusField ==
  /\ focus # <<"field">>
  /\ MoveFocus(<<"field">>)
  /\ UNCHANGED <<filter, keyTimeout, orphans, hideTimeout, pointer, selecting,
                 results, close, page, frameVars, putOff>>

LeaveField ==
  /\ focus = <<"field">>
  /\ MoveFocus(<<"none">>)
  /\ UNCHANGED <<filter, keyTimeout, orphans, hideTimeout, pointer, selecting,
                 results, close, page, frameVars, putOff>>

KeyDown(v) ==
  /\ focus = <<"field">>
  /\ box.value # v
  /\ box' = [box EXCEPT !.value = v]
  /\ typed' = TRUE
  /\ UNCHANGED <<focus, filter, keyTimeout, orphans, hideTimeout, pointer,
                 selecting, results, close, page, frameVars, putOff>>

SlipKeepsTheButton ==
  LET v == Squeezed[box.value]
  IN  /\ keyTimeout' = (v # box.last /\ v # "")
      /\ putOff' = putOff \ {"text"}
      /\ IF v # box.last /\ v = ""
         THEN results' = FALSE /\ close' = close /\ box' = [box EXCEPT !.last = ""]
         ELSE UNCHANGED <<results, close, box>>

(* The tail of OnSearchFieldChange: the running timer was stopped; another *)
(* starts if the text changed, and no text closes the results.             *)
ChangeSearch ==
  LET v == Squeezed[box.value]
  IN  /\ keyTimeout' = (v # box.last /\ v # "")
      /\ putOff' = putOff \ {"text"}
      /\ IF v # box.last /\ v = ""
         THEN results' = FALSE /\ close' = FALSE /\ box' = [box EXCEPT !.last = ""]
         ELSE UNCHANGED <<results, close, box>>

(* Down and Enter also ask the frame to take the focus.                    *)
KeyUp ==
  /\ focus = <<"field">>
  /\ ChangeSearch
  /\ message' \in {message, TRUE}
  /\ typed' = FALSE
  /\ UNCHANGED <<focus, filter, orphans, hideTimeout, pointer, selecting, page,
                 loading, rows, expanded>>

(* Shift and Down or Enter open the selection window and go to its first   *)
(* item; the timer has been stopped by then.                               *)
KeyUpShift ==
  /\ focus = <<"field">>
  /\ keyTimeout' = FALSE
  /\ selecting' = TRUE
  /\ hideTimeout' = FALSE
  /\ focus' = <<"select">>
  /\ box' = Focused(box, focus, <<"select">>, results)
  /\ typed' = FALSE
  /\ putOff' = IF keyTimeout \/ typed THEN putOff \cup {"text"} ELSE putOff
  /\ UNCHANGED <<filter, orphans, pointer, results, close, page, frameVars>>

KeyUpEscape ==
  /\ focus = <<"field">>
  /\ keyTimeout' = FALSE
  /\ focus' = <<"none">>
  /\ results' = FALSE
  /\ close' = FALSE
  /\ box' = Activate([Activate(box, FALSE, results) EXCEPT !.last = ""], FALSE, FALSE)
  /\ typed' = FALSE
  /\ UNCHANGED <<filter, orphans, hideTimeout, pointer, selecting, page, frameVars, putOff>>

KeyTimer ==
  /\ keyTimeout
  /\ Search(box, filter)
  /\ UNCHANGED <<typed, focus, filter, orphans, hideTimeout, pointer, selecting,
                 rows, expanded, message>>

(* A timer that was forgotten goes off: if there is a later one, that is   *)
(* forgotten in its turn.                                                  *)
OrphanTimer ==
  /\ orphans > 0
  /\ Search(box, filter)
  /\ orphans' = IF keyTimeout THEN orphans ELSE orphans - 1
  /\ UNCHANGED <<typed, focus, filter, hideTimeout, pointer, selecting, rows,
                 expanded, message>>

-----------------------------------------------------------------------------
(* The selection window *)

(* OnSearchSelectShow, OnSearchSelectHide, CloseSelectionWindow            *)
PointerOver ==
  /\ pointer = "away"
  /\ pointer' = "over"
  /\ selecting' = TRUE
  /\ hideTimeout' = FALSE
  /\ UNCHANGED <<box, typed, focus, filter, keyTimeout, orphans, results, close,
                 page, frameVars, putOff>>

PointerOut ==
  /\ pointer = "over"
  /\ pointer' = "away"
  /\ hideTimeout' = TRUE
  /\ UNCHANGED <<box, typed, focus, filter, keyTimeout, orphans, selecting,
                 results, close, page, frameVars, putOff>>

(* What is hidden loses the focus.                                         *)
HideTimer ==
  /\ hideTimeout
  /\ hideTimeout' = FALSE
  /\ selecting' = FALSE
  /\ focus' = IF focus = <<"select">> THEN <<"none">> ELSE focus
  /\ UNCHANGED <<box, typed, filter, keyTimeout, orphans, pointer, results,
                 close, page, frameVars, putOff>>

SlipOnlyMarks(b, i) ==
  /\ filter' = i
  /\ box' = b
  /\ UNCHANGED <<keyTimeout, orphans, page, loading, results, close, putOff>>

(* OnSelectItem: search again for what the field holds.                    *)
OnSelectItem(b, i) ==
  /\ filter' = i
  /\ IF Squeezed[b.value] # "" /\ b.searchActive
     THEN Search(b, i) /\ Orphaned(IF keyTimeout THEN orphans + 1 ELSE orphans)
     ELSE /\ box' = b
          /\ putOff' = IF results THEN putOff \cup {"section"} ELSE putOff
          /\ UNCHANGED <<keyTimeout, orphans, page, loading, results, close>>

ClickSelectItem(i) ==
  /\ selecting
  /\ focus' = <<"select">>
  /\ OnSelectItem(Focused(box, focus, <<"select">>, results), i)
  /\ typed' = (typed /\ box'.active)
  /\ UNCHANGED <<hideTimeout, pointer, selecting, rows, expanded, message>>

(* OnSearchSelectKey: Down may go one past the last section.               *)
SelectKeyMoves ==
  /\ focus = <<"select">>
  /\ \/ filter < Sections /\ OnSelectItem(box, filter + 1)
     \/ filter > 0 /\ OnSelectItem(box, filter - 1)
  /\ UNCHANGED <<typed, focus, hideTimeout, pointer, selecting, rows, expanded, message>>

(* Enter or Escape: if the search throws, the window stays.                *)
SelectKeyEnds ==
  /\ focus = <<"select">>
  /\ LET searches == Squeezed[box.value] # "" /\ box.searchActive
         thrown == searches /\ Throws(filter)
         shown == results \/ (searches /\ ~thrown)
     IN  /\ OnSelectItem(IF thrown THEN box
                         ELSE Focused(box, focus, <<"field">>, shown), filter)
         /\ focus' = IF thrown THEN focus ELSE <<"field">>
         /\ selecting' = thrown
  /\ UNCHANGED <<typed, hideTimeout, pointer, rows, expanded, message>>

-----------------------------------------------------------------------------
(* The results *)

(* CloseResultsWindow, by its button or from the frame, which then gives   *)
(* the focus back to the field.                                            *)
Close(to) ==
  /\ results' = FALSE
  /\ close' = FALSE
  /\ focus' = to
  /\ box' = LET b == Activate(Focused(box, focus, <<"none">>, results), FALSE, FALSE)
            IN  Focused(b, <<"none">>, to, FALSE)
  /\ typed' = FALSE
  /\ UNCHANGED <<filter, keyTimeout, orphans, hideTimeout, pointer, selecting,
                 page, frameVars, putOff>>

ClickClose == close /\ Close(<<"none">>)

(* createResults and SearchResults.Search of the new document              *)
PageLoads ==
  /\ loading
  /\ loading' = FALSE
  /\ rows' = IF page.hit THEN Hits[page.word] ELSE {}
  /\ expanded' = {}
  /\ focus' = IF InFrame(focus) THEN <<"none">> ELSE focus
  /\ UNCHANGED <<box, typed, filter, keyTimeout, orphans, hideTimeout, pointer,
                 selecting, results, close, page, message, putOff>>

(* NavNext and NavPrev: the nearest visible row from index on, if any      *)
NavNext(index) == {i \in rows : i >= index /\ \A j \in rows : j >= index => i <= j}
NavPrev(index) == {i \in rows : i <= index /\ \A j \in rows : j <= index => j <= i}

FirstOr(items, otherwise) == IF items = {} THEN otherwise ELSE <<"item", Min(items)>>

(* The message may be late or find nothing to focus.                       *)
TakeFocus ==
  /\ message
  /\ message' = FALSE
  /\ IF results
     THEN \E to \in {focus, FirstOr(NavNext(0), focus)} : MoveFocus(to)
     ELSE UNCHANGED <<focus, box, typed>>
  /\ UNCHANGED <<filter, keyTimeout, orphans, hideTimeout, pointer, selecting,
                 results, close, page, loading, rows, expanded, putOff>>

SlipStopsAtTheRow(f) ==
  IF f[1] = "child"
  THEN IF f[3] > 0 THEN <<"child", f[2], f[3] - 1>> ELSE <<"item", f[2]>>
  ELSE FirstOr(NavPrev(f[2] - 1), <<"field">>)

(* Up: from a child to the one before or its row, from a row to the last   *)
(* visible child of the row before, or to that, or to the field.  The      *)
(* children are looked up under the next lower index, visible or not.      *)
Up(f) ==
  IF f[1] = "child"
  THEN IF f[3] > 0 THEN <<"child", f[2], f[3] - 1>> ELSE <<"item", f[2]>>
  ELSE LET index == f[2] - 1
       IN  IF NavPrev(index) \cap expanded # {} /\ Children[index] > 0
           THEN <<"child", index, Children[index] - 1>>
           ELSE FirstOr(NavPrev(index), <<"field">>)

(* Down: to the first visible child, the next child, or the next row; at   *)
(* the end the focus stays.                                                *)
Down(f) ==
  IF f[1] = "item" /\ f[2] \in expanded THEN <<"child", f[2], 0>>
  ELSE IF f[1] = "child" /\ f[3] + 1 < Children[f[2]] THEN <<"child", f[2], f[3] + 1>>
  ELSE FirstOr(NavNext(f[2] + 1), f)

Walk ==
  /\ InFrame(focus)
  /\ \E to \in {Up(focus), Down(focus)} : MoveFocus(to)
  /\ UNCHANGED <<filter, keyTimeout, orphans, hideTimeout, pointer, selecting,
                 results, close, page, frameVars, putOff>>

(* Right and Left on a row show and hide its children, a click on it does  *)
(* either.                                                                 *)
Toggle(i) ==
  /\ results
  /\ i \in rows
  /\ Children[i] > 0
  /\ expanded' = IF i \in expanded THEN expanded \ {i} ELSE expanded \cup {i}
  /\ MoveFocus(<<"item", i>>)
  /\ UNCHANGED <<filter, keyTimeout, orphans, hideTimeout, pointer, selecting,
                 results, close, page, loading, rows, message, putOff>>

EscapeFrame == InFrame(focus) /\ Close(<<"field">>)

-----------------------------------------------------------------------------
Next ==
  \/ FocusField \/ LeaveField
  \/ \E v \in Texts : KeyDown(v)
  \/ KeyUp \/ KeyUpShift \/ KeyUpEscape \/ KeyTimer \/ OrphanTimer
  \/ PointerOver \/ PointerOut \/ HideTimer
  \/ \E i \in 0 .. Sections - 1 : ClickSelectItem(i)
  \/ SelectKeyMoves \/ SelectKeyEnds
  \/ ClickClose \/ PageLoads \/ TakeFocus \/ Walk \/ EscapeFrame
  \/ \E i \in Rows : Toggle(i)

Spec == Init /\ [][Next]_vars

-----------------------------------------------------------------------------
(* Properties *)

(* The window, its button, the look of the box and the focus, which a      *)
(* dozen handlers and four timers change, agree: the button is there with  *)
(* the window, the selection window is never closed by its timer under the *)
(* pointer, choosing a section searches exactly from a box that looks      *)
(* active, and an inactive one is reset.  Results shown beside that are    *)
(* then those for the label: a timer that was not stopped when the panel   *)
(* was removed (only a key stops it) has searched for what the field then  *)
(* held.                                                                   *)
PanelConsistent ==
  /\ close = results
  /\ hideTimeout => pointer = "away"
  /\ InFrame(focus) => results
  /\ focus = <<"select">> => selecting
  /\ box.active <=> box.searchActive
  /\ ~box.active =>
       /\ box.value = Label /\ focus # <<"field">>
       /\ results => page.word = Label

(* The results shown are those for the chosen section and, once the last   *)
(* change of the field has been handled and no timer is to follow, for the *)
(* text it holds.  A section past the last throws and leaves what was      *)
(* there; otherwise there are three exceptions:                            *)
(*   - the change handler compares the text without any blanks with the    *)
(*     one searched for, which has lost only those it begins with: results *)
(*     for "io" stay when the field now holds "i o", for which the search  *)
(*     would find others;                                                  *)
(*   - a search was put off, by Shift for the text, or for the section     *)
(*     because it was chosen while the field was empty or not in use;      *)
(*   - the field was cleared of the label it held: the results are those   *)
(*     for the label, or older ones, if a search for it threw meanwhile.   *)
NoStaleResults ==
  results /\ ~Throws(filter) =>
    /\ page.section = filter \/ "section" \in putOff
    /\ ~keyTimeout /\ ~typed =>
         \/ page.word \in {Trimmed[box.value], Squeezed[box.value]}
         \/ "text" \in putOff
         \/ box.value = "" /\ (page.word = Label \/ "section" \in putOff)

(* What the change handler compares the next text with is what the frame   *)
(* was last told to show, also after a search that threw half-way, after   *)
(* any of the timers, and after the panel was emptied and came back.       *)
RemembersWhatIsShown == results => box.last = page.word /\ ~Throws(page.section)

Stops == {<<"item", i>> : i \in rows}
           \cup UNION {{<<"child", i, c>> : c \in 0 .. Children[i] - 1} : i \in expanded}

(* Walking the results: Down leads from each visible entry to the next and *)
(* Up leads back, through rows that a search has hidden and children that  *)
(* were opened, and the focus never rests on what is not shown.            *)
UpUndoesDown ==
  /\ InFrame(focus) => focus \in Stops
  /\ expanded \subseteq rows
  /\ \A f \in Stops :
       /\ Down(f) \in Stops
       /\ Down(f) # f => Up(Down(f)) = f
       /\ Up(f) = <<"field">> \/ (Up(f) \in Stops /\ Down(Up(f)) = f)
=============================================================================
