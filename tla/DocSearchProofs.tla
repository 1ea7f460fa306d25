-------------------------- MODULE DocSearchProofs --------------------------
(***************************************************************************)
(* The search panel, for all texts, sections and pages of results and any  *)
(* number of forgotten timers: its windows, timers and focus agree, what   *)
(* it shows is what it was asked for, and walking the results is safe.     *)
(***************************************************************************)
EXTENDS DocSearch, TLAPS

Boxes == [value : Texts, active : BOOLEAN, searchActive : BOOLEAN, last : Texts]
Outside == {<<"field">>, <<"select">>, <<"none">>}

Types ==
  /\ box \in Boxes
  /\ typed \in BOOLEAN /\ keyTimeout \in BOOLEAN /\ results \in BOOLEAN
  /\ filter \in 0 .. Sections /\ orphans \in Nat
  /\ page \in [section : Nat, word : Texts, hit : BOOLEAN]
  /\ putOff \subseteq {"text", "section"}

(* The frame shows consecutive rows, and the focus is on what it shows or  *)
(* outside.                                                                *)
Convex(R) == R \subseteq Rows /\ \A i, j \in R : i .. j \subseteq R

Frame ==
  /\ Convex(rows)
  /\ \A i \in expanded : i \in rows /\ Children[i] > 0
  /\ focus \in Outside \cup Stops

(* The box remembers the word shown, and a timer that is to follow a key   *)
(* has something to search for.  While the chosen section throws the text  *)
(* may be another one, as it will be searched for with the next choice     *)
(* unless it is blank: it is a blank text that must not wait for that.     *)
Settled == ~keyTimeout /\ ~typed

TextShown ==
  \/ page.word \in {Trimmed[box.value], Squeezed[box.value]}
  \/ "text" \in putOff
  \/ box.value = "" /\ (page.word = Label \/ "section" \in putOff)

Waits == Throws(filter) /\ (Squeezed[box.value] # "" \/ box.value = "")

Shown ==
  /\ keyTimeout /\ ~typed /\ box.value # "" => Squeezed[box.value] # ""
  /\ results =>
       /\ box.last = page.word /\ ~Throws(page.section)
       /\ ~Throws(filter) => page.section = filter \/ "section" \in putOff
       /\ Settled /\ ~Waits => TextShown

DocInv == Types /\ Frame /\ PanelConsistent /\ Shown

-----------------------------------------------------------------------------
(* Walking the rows.  The rows shown follow one another, so that the row   *)
(* looked for is the very next or there is none.                           *)

LEMMA RowTypes ==
  ASSUME Convex(rows)
  PROVE  /\ rows \subseteq Nat
         /\ \A i \in rows : i \in Nat /\ Children[i] \in Nat
         /\ \A i, j \in rows : i .. j \subseteq rows
<1>1. rows \subseteq Rows /\ Rows \subseteq Nat /\ \A i \in Rows : Children[i] \in Nat
  BY RowsAssumption DEF Convex
<1> QED
  BY <1>1 DEF Convex

LEMMA RowAfter ==
  ASSUME Convex(rows), NEW i \in rows
  PROVE  NavNext(i + 1) = IF i + 1 \in rows THEN {i + 1} ELSE {}
<1>1. rows \subseteq Nat /\ \A j \in rows : i .. j \subseteq rows
  BY RowTypes
<1>2. ASSUME NEW j \in rows, j >= i + 1
      PROVE  i + 1 \in rows
  BY <1>1, <1>2
<1>3. \A k \in rows : i + 1 \in rows =>
        ((k >= i + 1 /\ \A j \in rows : j >= i + 1 => k <= j) <=> k = i + 1)
  BY <1>1
<1> QED
  BY <1>2, <1>3 DEF NavNext

LEMMA RowBefore ==
  ASSUME Convex(rows), NEW i \in rows
  PROVE  NavPrev(i - 1) = IF i - 1 \in rows THEN {i - 1} ELSE {}
<1>1. rows \subseteq Nat /\ \A j \in rows : j .. i \subseteq rows
  BY RowTypes
<1>2. ASSUME NEW j \in rows, j <= i - 1
      PROVE  i - 1 \in rows
  BY <1>1, <1>2
<1>3. \A k \in rows : i - 1 \in rows =>
        ((k <= i - 1 /\ \A j \in rows : j <= i - 1 => j <= k) <=> k = i - 1)
  BY <1>1
<1> QED
  BY <1>2, <1>3 DEF NavPrev

LEMMA FirstOfOne ==
  ASSUME NEW i \in Int, NEW otherwise
  PROVE  FirstOr({i}, otherwise) = <<"item", i>>
<1>1. Min({i}) = i
  BY DEF Min
<1> QED
  BY <1>1 DEF FirstOr

(* What Down and Up do from each kind of entry.                            *)
LEMMA DownFrom ==
  ASSUME Convex(rows), NEW i \in rows
  PROVE  /\ i \in expanded => Down(<<"item", i>>) = <<"child", i, 0>>
         /\ i \notin expanded =>
              Down(<<"item", i>>) = IF i + 1 \in rows THEN <<"item", i + 1>> ELSE <<"item", i>>
         /\ \A c \in Nat : c + 1 < Children[i] => Down(<<"child", i, c>>) = <<"child", i, c + 1>>
         /\ \A c \in Nat : ~(c + 1 < Children[i]) =>
              Down(<<"child", i, c>>) = IF i + 1 \in rows THEN <<"item", i + 1>>
                                        ELSE <<"child", i, c>>
<1>1. i \in Int /\ i + 1 \in Int
  BY RowTypes
<1>2. ASSUME NEW f
      PROVE  FirstOr(NavNext(i + 1), f) = IF i + 1 \in rows THEN <<"item", i + 1>> ELSE f
  <2>1. CASE i + 1 \in rows
    BY <1>1, <2>1, RowAfter, FirstOfOne
  <2>2. CASE i + 1 \notin rows
    BY <2>2, RowAfter DEF FirstOr
  <2> QED
    BY <2>1, <2>2
<1>3. i \in expanded => Down(<<"item", i>>) = <<"child", i, 0>>
  BY DEF Down
<1>4. i \notin expanded => Down(<<"item", i>>) = FirstOr(NavNext(i + 1), <<"item", i>>)
  BY DEF Down
<1>5. \A c \in Nat : c + 1 < Children[i] => Down(<<"child", i, c>>) = <<"child", i, c + 1>>
  BY DEF Down
<1>6. \A c \in Nat : ~(c + 1 < Children[i]) =>
        Down(<<"child", i, c>>) = FirstOr(NavNext(i + 1), <<"child", i, c>>)
  BY DEF Down
<1> QED
  BY <1>2, <1>3, <1>4, <1>5, <1>6

LEMMA UpFrom ==
  ASSUME Convex(rows), NEW i \in rows, \A j \in expanded : j \in rows /\ Children[j] > 0
  PROVE  /\ i - 1 \in expanded => Up(<<"item", i>>) = <<"child", i - 1, Children[i - 1] - 1>>
         /\ i - 1 \notin expanded =>
              Up(<<"item", i>>) = IF i - 1 \in rows THEN <<"item", i - 1>> ELSE <<"field">>
         /\ \A c \in Nat : c > 0 => Up(<<"child", i, c>>) = <<"child", i, c - 1>>
         /\ Up(<<"child", i, 0>>) = <<"item", i>>
<1>1. i \in Int /\ i - 1 \in Int
  BY RowTypes
<1>2. i - 1 \in rows => FirstOr(NavPrev(i - 1), <<"field">>) = <<"item", i - 1>>
  BY <1>1, RowBefore, FirstOfOne
<1>3. i - 1 \notin rows => FirstOr(NavPrev(i - 1), <<"field">>) = <<"field">>
  BY RowBefore DEF FirstOr
<1>4. NavPrev(i - 1) \cap expanded # {} /\ Children[i - 1] > 0 <=> i - 1 \in expanded
  BY RowBefore
<1>5. i - 1 \in expanded => Up(<<"item", i>>) = <<"child", i - 1, Children[i - 1] - 1>>
  BY <1>4 DEF Up
<1>6. i - 1 \notin expanded => Up(<<"item", i>>) = FirstOr(NavPrev(i - 1), <<"field">>)
  BY <1>4 DEF Up
<1>7. \A c \in Nat : c > 0 => Up(<<"child", i, c>>) = <<"child", i, c - 1>>
  BY DEF Up
<1>8. Up(<<"child", i, 0>>) = <<"item", i>>
  BY DEF Up
<1> QED
  BY <1>2, <1>3, <1>5, <1>6, <1>7, <1>8

LEMMA StopShapes ==
  ASSUME NEW f \in Stops
  PROVE  \/ \E i \in rows : f = <<"item", i>>
         \/ \E i \in expanded : \E c \in 0 .. Children[i] - 1 : f = <<"child", i, c>>
BY DEF Stops

LEMMA StopsHave ==
  /\ \A i \in rows : <<"item", i>> \in Stops
  /\ \A i \in expanded : \A c \in 0 .. Children[i] - 1 : <<"child", i, c>> \in Stops
BY DEF Stops

LEMMA Walks ==
  ASSUME Convex(rows), \A i \in expanded : i \in rows /\ Children[i] > 0, NEW f \in Stops
  PROVE  /\ Down(f) \in Stops
         /\ Down(f) # f => Up(Down(f)) = f
         /\ Up(f) = <<"field">> \/ (Up(f) \in Stops /\ Down(Up(f)) = f)
<1>1. \A i \in rows : i \in Nat /\ Children[i] \in Nat
  BY RowTypes
<1>2. CASE \E i \in rows : f = <<"item", i>>
  <2>1. PICK i \in rows : f = <<"item", i>>
    BY <1>2
  <2>2. i \in Nat /\ i + 1 - 1 = i /\ i - 1 + 1 = i
    BY <1>1
  <2>3. Down(f) \in Stops /\ (Down(f) # f => Up(Down(f)) = f)
    <3>1. CASE i \in expanded
      <4>1. Down(f) = <<"child", i, 0>>
        BY <2>1, <3>1, DownFrom
      <4>2. Up(<<"child", i, 0>>) = f
        BY <2>1, UpFrom
      <4>3. 0 \in 0 .. Children[i] - 1
        BY <1>1, <3>1
      <4> QED
        BY <3>1, <4>1, <4>2, <4>3, StopsHave
    <3>2. CASE i \notin expanded /\ i + 1 \in rows
      <4>1. Down(f) = <<"item", i + 1>>
        BY <2>1, <3>2, DownFrom
      <4>2. PICK n \in rows : n = i + 1 /\ n - 1 = i
        BY <2>2, <3>2
      <4>3. Up(<<"item", n>>) = f
        BY <2>1, <3>2, <4>2, UpFrom
      <4> QED
        BY <3>2, <4>1, <4>2, <4>3, StopsHave
    <3>3. CASE i \notin expanded /\ i + 1 \notin rows
      BY <2>1, <3>3, DownFrom
    <3> QED
      BY <3>1, <3>2, <3>3
  <2>4. Up(f) = <<"field">> \/ (Up(f) \in Stops /\ Down(Up(f)) = f)
    <3>1. CASE i - 1 \in expanded
      <4> DEFINE c == Children[i - 1] - 1
      <4>1. Up(f) = <<"child", i - 1, c>> /\ i - 1 \in rows
        BY <2>1, <3>1, UpFrom
      <4>2. c \in Nat /\ c \in 0 .. Children[i - 1] - 1 /\ ~(c + 1 < Children[i - 1])
        BY <1>1, <3>1
      <4>3. Down(<<"child", i - 1, c>>) = f
        BY <2>1, <2>2, <4>1, <4>2, DownFrom
      <4> QED
        BY <3>1, <4>1, <4>2, <4>3, StopsHave
    <3>2. CASE i - 1 \notin expanded /\ i - 1 \in rows
      <4>1. Up(f) = <<"item", i - 1>>
        BY <2>1, <3>2, UpFrom
      <4>2. Down(<<"item", i - 1>>) = f
        BY <2>1, <2>2, <3>2, DownFrom
      <4> QED
        BY <3>2, <4>1, <4>2, StopsHave
    <3>3. CASE i - 1 \notin expanded /\ i - 1 \notin rows
      BY <2>1, <3>3, UpFrom
    <3> QED
      BY <3>1, <3>2, <3>3
  <2> QED
    BY <2>3, <2>4
<1>3. CASE \E i \in expanded : \E c \in 0 .. Children[i] - 1 : f = <<"child", i, c>>
  <2>0. PICK i \in expanded : \E c \in 0 .. Children[i] - 1 : f = <<"child", i, c>>
    BY <1>3
  <2>1. PICK c \in 0 .. Children[i] - 1 : f = <<"child", i, c>>
    BY <2>0
  <2>2. i \in rows /\ i \in Nat /\ i + 1 - 1 = i /\ Children[i] \in Nat
    BY <1>1
  <2>3. c \in Nat /\ c + 1 \in Nat /\ c + 1 - 1 = c /\ c < Children[i]
    BY <2>2
  <2>4. Down(f) \in Stops /\ (Down(f) # f => Up(Down(f)) = f)
    <3>1. CASE c + 1 < Children[i]
      <4>1. PICK d \in 0 .. Children[i] - 1 : d = c + 1 /\ d - 1 = c /\ d > 0 /\ d \in Nat
        BY <2>2, <2>3, <3>1
      <4>2. Down(f) = <<"child", i, d>>
        BY <2>1, <2>2, <2>3, <3>1, <4>1, DownFrom
      <4>3. Up(<<"child", i, d>>) = f
        BY <2>1, <2>2, <4>1, UpFrom
      <4> QED
        BY <4>2, <4>3, StopsHave
    <3>2. CASE ~(c + 1 < Children[i]) /\ i + 1 \in rows
      <4>1. Down(f) = <<"item", i + 1>>
        BY <2>1, <2>2, <2>3, <3>2, DownFrom
      <4>2. c = Children[i] - 1
        BY <2>2, <2>3, <3>2
      <4>3. PICK n \in rows : n = i + 1 /\ n - 1 = i
        BY <2>2, <3>2
      <4>4. Up(<<"item", n>>) = f
        BY <2>1, <4>2, <4>3, UpFrom
      <4> QED
        BY <3>2, <4>1, <4>3, <4>4, StopsHave
    <3>3. CASE ~(c + 1 < Children[i]) /\ i + 1 \notin rows
      BY <2>1, <2>2, <2>3, <3>3, DownFrom
    <3> QED
      BY <3>1, <3>2, <3>3
  <2>5. Up(f) \in Stops /\ Down(Up(f)) = f
    <3>1. CASE c > 0
      <4>1. Up(f) = <<"child", i, c - 1>>
        BY <2>1, <2>2, <2>3, <3>1, UpFrom
      <4>2. c - 1 \in Nat /\ c - 1 + 1 = c /\ c - 1 \in 0 .. Children[i] - 1
        BY <2>2, <2>3, <3>1
      <4>3. Down(<<"child", i, c - 1>>) = f
        BY <2>1, <2>2, <2>3, <4>2, DownFrom
      <4> QED
        BY <4>1, <4>2, <4>3, StopsHave
    <3>2. CASE c = 0
      <4>1. Up(f) = <<"item", i>>
        BY <2>1, <2>2, <2>3, <3>2, UpFrom
      <4>2. Down(<<"item", i>>) = f
        BY <2>1, <2>2, <3>2, DownFrom
      <4> QED
        BY <2>2, <4>1, <4>2, StopsHave
    <3> QED
      BY <2>3, <3>1, <3>2
  <2> QED
    BY <2>4, <2>5
<1> QED
  BY <1>2, <1>3, StopShapes

LEMMA FrameWalks == Frame /\ (InFrame(focus) => focus \in Stops) => UpUndoesDown
BY Walks DEF Frame, UpUndoesDown

-----------------------------------------------------------------------------
(* The box.  What gives or takes the focus leaves an inactive box reset,   *)
(* and never changes a text but by clearing it.                            *)

AtRest(b) ==
  /\ b.active <=> b.searchActive
  /\ ~b.active => b.value = Label

Kept(b, to, shown, r) ==
  /\ r \in Boxes /\ AtRest(r)
  /\ ~r.active => to # <<"field">>
  /\ shown => r.last = b.last /\ (b.active => r.active)
  /\ r.active /\ r.value # "" => b.active /\ r.value = b.value
  /\ r.value \in {b.value, "", Label}
  /\ shown /\ r.active /\ r.value = "" => b.value \in {"", Label}

LEMMA ResetKeeps ==
  ASSUME NEW b \in Boxes, NEW to, to # <<"field">>
  PROVE  Kept(b, to, FALSE, [value |-> Label, active |-> FALSE, searchActive |-> FALSE, last |-> ""])
BY DEF Kept, Boxes, AtRest, Texts

LEMMA ActivateKeeps ==
  ASSUME NEW b \in Boxes, NEW to, NEW isActive \in BOOLEAN, NEW shown \in BOOLEAN,
         AtRest(b), isActive \/ (shown /\ b.active)
  PROVE  Kept(b, to, shown, Activate(b, isActive, shown))
<1>1. Label \in Texts /\ "" \in Texts
  BY DEF Texts
<1> QED
  BY <1>1 DEF Activate, Kept, Boxes, AtRest

LEMMA FocusedKeeps ==
  ASSUME NEW b \in Boxes, NEW from, NEW to, NEW shown \in BOOLEAN,
         AtRest(b), ~b.active => from # <<"field">>
  PROVE  Kept(b, to, shown, Focused(b, from, to, shown))
<1>1. CASE from = to
  BY <1>1 DEF Focused, Kept
<1>2. CASE from # to /\ from = <<"field">> /\ shown
  <2>1. Kept(b, to, shown, Activate(b, FALSE, shown))
    BY <1>2, ActivateKeeps
  <2> QED
    BY <1>2, <2>1 DEF Focused
<1>3. CASE from # to /\ from = <<"field">> /\ ~shown
  BY <1>3, ResetKeeps DEF Focused, Activate
<1>4. CASE from # to /\ from # <<"field">> /\ to = <<"field">>
  <2>1. Kept(b, to, shown, Activate(b, TRUE, shown))
    BY ActivateKeeps
  <2> QED
    BY <1>4, <2>1 DEF Focused
<1>5. CASE from # to /\ from # <<"field">> /\ to # <<"field">>
  BY <1>5 DEF Focused, Kept
<1> QED
  BY <1>1, <1>2, <1>3, <1>4, <1>5

LEMMA NoneInFrame == \A f \in Outside : ~InFrame(f)
BY DEF Outside, InFrame

LEMMA DocInit == Init => DocInv
<1> SUFFICES ASSUME Init
             PROVE  DocInv
  OBVIOUS
<1>1. Types
  <2>1. box \in Boxes /\ page \in [section : Nat, word : Texts, hit : BOOLEAN]
    BY DEF Init, Boxes, Texts, NoPage
  <2>2. 0 \in 0 .. Sections
    BY BoundsAssumption
  <2> QED
    BY <2>1, <2>2 DEF Init, Types
<1>2. Frame
  BY DEF Init, Frame, Convex, Outside
<1>3. PanelConsistent
  BY DEF Init, PanelConsistent, InFrame
<1>4. Shown
  BY DEF Init, Shown
<1> QED
  BY <1>1, <1>2, <1>3, <1>4 DEF DocInv

(* A text that was settled stays right when the focus moves: the box keeps *)
(* it, clears it of the label, or is reset.                                *)
LEMMA TextKept ==
  ASSUME DocInv, PanelConsistent', results, NEW to, Kept(box, to, TRUE, box'),
         box'.active => Settled, putOff \subseteq putOff', ~Waits',
         UNCHANGED <<filter, page, results>>
  PROVE  TextShown'
<1> USE DEF DocInv
<1>1. Trimmed[Label] = Label /\ Squeezed[Label] = Label /\ Label # ""
  BY TextsAssumption
<1>2. CASE ~box'.active
  BY <1>1, <1>2 DEF PanelConsistent, TextShown
<1>3. CASE box'.active /\ box'.value # ""
  <2>1. box.value = box'.value
    BY <1>3 DEF Kept
  <2>2. ~Waits
    BY <2>1 DEF Waits, Throws
  <2>3. TextShown
    BY <1>3, <2>2 DEF Shown
  <2> QED
    BY <2>1, <2>3 DEF TextShown
<1>4. CASE box'.active /\ box'.value = ""
  <2>1. box.value \in {"", Label}
    BY <1>4 DEF Kept
  <2>2. ~Waits
    BY <1>4 DEF Waits, Throws
  <2>3. TextShown
    BY <1>4, <2>2 DEF Shown
  <2> QED
    BY <1>1, <1>4, <2>1, <2>3 DEF TextShown
<1> QED
  BY <1>2, <1>3, <1>4

LEMMA Moves ==
  ASSUME DocInv, NEW to, MoveFocus(to), to \in Outside \cup Stops',
         \A i \in expanded' : i \in rows /\ Children[i] > 0,
         InFrame(to) => results, to # <<"select">>,
         UNCHANGED <<filter, keyTimeout, orphans, hideTimeout, pointer, selecting,
                     results, close, page, rows, putOff>>
  PROVE  DocInv'
<1> USE DEF DocInv
<1>1. Kept(box, to, results, box')
  <2>1. box \in Boxes /\ results \in BOOLEAN /\ AtRest(box) /\ (~box.active => focus # <<"field">>)
    BY DEF Types, PanelConsistent, AtRest
  <2> QED
    BY <2>1, FocusedKeeps DEF MoveFocus
<1>2. focus' = to /\ typed' = (typed /\ box'.active) /\ typed \in BOOLEAN
  BY DEF MoveFocus, Types
<1>3. Types'
  BY <1>1, <1>2 DEF Types, Kept
<1>4. Frame'
  BY <1>2 DEF Frame, Convex
<1>5. PanelConsistent'
  BY <1>1, <1>2 DEF PanelConsistent, AtRest, InFrame, Kept
<1>6. Shown'
  <2>1. keyTimeout' /\ ~typed' /\ box'.value # "" => Squeezed[box'.value] # ""
    BY <1>1, <1>2, TextsAssumption DEF Shown, Kept, AtRest
  <2>2. results' => /\ box'.last = page'.word /\ ~Throws(page'.section)
                    /\ ~Throws(filter') => page'.section = filter' \/ "section" \in putOff'
    BY <1>1 DEF Shown, Throws, Kept
  <2>3. results' /\ Settled' /\ ~Waits' => TextShown'
    BY <1>1, <1>2, <1>5, TextKept DEF Settled, Kept
  <2> QED
    BY <2>1, <2>2, <2>3 DEF Shown, Throws
<1> QED
  BY <1>3, <1>4, <1>5, <1>6

(* What a search leaves: the page for the section and the text, without    *)
(* touching the text, or what was there before.                            *)
LEMMA SearchGives ==
  ASSUME NEW b \in Boxes, NEW s \in 0 .. Sections, Search(b, s), AtRest(b),
         page \in [section : Nat, word : Texts, hit : BOOLEAN], results \in BOOLEAN, close = results,
         putOff \subseteq {"text", "section"}
  PROVE  /\ box' \in Boxes /\ box'.active = b.active /\ box'.value = b.value /\ AtRest(box')
         /\ page' \in [section : Nat, word : Texts, hit : BOOLEAN] /\ putOff' \subseteq {"text", "section"}
         /\ keyTimeout' = FALSE /\ results' \in BOOLEAN /\ close' = results'
         /\ Throws(s) => box' = b /\ UNCHANGED <<page, results, putOff>>
         /\ ~Throws(s) =>
              /\ results' /\ box'.last = page'.word /\ page'.section = s
              /\ page'.word = Trimmed[box'.value]
              /\ ~b.active => page'.word = Label
<1>1. CASE Throws(s)
  BY <1>1 DEF Search
<1>2. CASE ~Throws(s)
  <2> DEFINE word == Trimmed[b.value]
  <2>1. /\ page' = [section |-> s, word |-> word, hit |-> <<s, word>> \in Indexed]
        /\ results' = TRUE /\ close' = TRUE /\ keyTimeout' = FALSE
        /\ box' = [b EXCEPT !.last = word]
    BY <1>2 DEF Search
  <2>2. b.value \in Texts /\ word \in Texts /\ word = Trimmed[b.value]
    BY TextsAssumption DEF Boxes
  <2>3. ~b.active => word = Label
    BY TextsAssumption DEF AtRest
  <2> HIDE DEF word
  <2>4. /\ box' \in Boxes /\ box'.active = b.active /\ box'.value = b.value
        /\ box'.searchActive = b.searchActive /\ box'.last = word
    BY <2>1, <2>2 DEF Boxes
  <2>5. /\ page' \in [section : Nat, word : Texts, hit : BOOLEAN]
        /\ page'.word = word /\ page'.section = s
    BY <2>1, <2>2, BoundsAssumption
  <2>6. putOff' = {}
    BY <1>2 DEF Search
  <2> QED
    BY <1>2, <2>6, <2>1, <2>2, <2>3, <2>4, <2>5 DEF AtRest
<1> QED
  BY <1>1, <1>2

LEMMA SearchesByTimer ==
  ASSUME DocInv, Search(box, filter), orphans' \in Nat,
         UNCHANGED <<typed, focus, filter, hideTimeout, pointer, selecting, rows, expanded>>
  PROVE  DocInv'
<1> USE DEF DocInv
<1>1. /\ box' \in Boxes /\ box'.active = box.active /\ box'.value = box.value /\ AtRest(box')
      /\ page' \in [section : Nat, word : Texts, hit : BOOLEAN] /\ putOff' \subseteq {"text", "section"}
      /\ keyTimeout' = FALSE /\ results' \in BOOLEAN /\ close' = results'
      /\ Throws(filter) => box' = box /\ UNCHANGED <<page, results, putOff>>
      /\ ~Throws(filter) =>
           /\ results' /\ box'.last = page'.word /\ page'.section = filter
           /\ page'.word = Trimmed[box'.value]
           /\ ~box.active => page'.word = Label
  BY SearchGives DEF Types, PanelConsistent, AtRest
<1>2. Types'
  BY <1>1 DEF Types
<1>3. Frame'
  BY DEF Frame, Convex, Stops
<1>4. PanelConsistent'
  BY <1>1 DEF PanelConsistent, InFrame, AtRest
<1>5. Shown'
  <2>1. CASE Throws(filter)
    BY <1>1, <2>1 DEF Shown, Settled, Waits, TextShown, Throws, Types
  <2>2. CASE ~Throws(filter)
    BY <1>1, <2>2 DEF Shown, TextShown, Throws
  <2> QED
    BY <2>1, <2>2
<1> QED
  BY <1>2, <1>3, <1>4, <1>5

LEMMA Selects ==
  ASSUME DocInv, NEW b, NEW i \in 0 .. Sections, OnSelectItem(b, i),
         NEW shown \in BOOLEAN, results => shown, Kept(box, focus', shown, b),
         focus' \in Outside, focus' = <<"select">> => selecting', typed' \in BOOLEAN,
         typed' = typed \/ typed' = (typed /\ box'.active),
         UNCHANGED <<hideTimeout, pointer, rows, expanded>>
  PROVE  DocInv'
<1> USE DEF DocInv
<1>1. /\ b \in Boxes /\ AtRest(b) /\ (~b.active => focus' # <<"field">>)
      /\ results => b.last = box.last /\ (box.active => b.active)
  BY DEF Kept
<1>2. ~InFrame(focus') /\ filter' = i
  BY NoneInFrame DEF OnSelectItem
<1>3. Frame'
  BY DEF Frame, Convex
<1>4. CASE Squeezed[b.value] # "" /\ b.searchActive
  <2>1. Search(b, i) /\ orphans' = IF keyTimeout THEN orphans + 1 ELSE orphans
    BY <1>4 DEF OnSelectItem, Orphaned
  <2>2. /\ box' \in Boxes /\ box'.active = b.active /\ box'.value = b.value /\ AtRest(box')
        /\ page' \in [section : Nat, word : Texts, hit : BOOLEAN] /\ putOff' \subseteq {"text", "section"}
        /\ keyTimeout' = FALSE /\ results' \in BOOLEAN /\ close' = results'
        /\ Throws(i) => box' = b /\ UNCHANGED <<page, results, putOff>>
        /\ ~Throws(i) =>
             /\ results' /\ box'.last = page'.word /\ page'.section = i
             /\ page'.word = Trimmed[box'.value]
             /\ ~b.active => page'.word = Label
    BY <1>1, <2>1, SearchGives DEF Types, PanelConsistent
  <2>3. orphans' \in Nat
    BY <2>1 DEF Types
  <2>4. Types'
    BY <1>2, <2>2, <2>3 DEF Types
  <2>5. PanelConsistent'
    BY <1>1, <1>2, <2>2 DEF PanelConsistent, AtRest
  <2>6. Shown'
    <3>1. CASE Throws(i)
      BY <1>1, <1>2, <1>4, <2>2, <3>1 DEF Shown, Waits, Throws
    <3>2. CASE ~Throws(i)
      BY <1>2, <2>2, <3>2 DEF Shown, TextShown, Throws
    <3> QED
      BY <3>1, <3>2
  <2> QED
    BY <1>3, <2>4, <2>5, <2>6
<1>5. CASE ~(Squeezed[b.value] # "" /\ b.searchActive)
  <2>1. /\ box' = b /\ UNCHANGED <<keyTimeout, orphans, page, results, close>>
        /\ putOff' = IF results THEN putOff \cup {"section"} ELSE putOff
    BY <1>5 DEF OnSelectItem
  <2>2. Types'
    BY <1>1, <1>2, <2>1 DEF Types
  <2>3. PanelConsistent'
    BY <1>1, <1>2, <2>1 DEF PanelConsistent, AtRest
  <2>4. Shown'
    <3>1. keyTimeout' /\ ~typed' /\ box'.value # "" => Squeezed[box'.value] # ""
      BY <1>1, <2>1, TextsAssumption DEF Shown, Kept, AtRest
    <3>2. ASSUME results', Settled'
          PROVE  TextShown'
      <4>1. CASE ~b.active
        <5>1. page'.word = Label /\ box'.value = Label /\ Trimmed[Label] = Label
          BY <2>1, <2>3, <3>2, <4>1, TextsAssumption DEF PanelConsistent
        <5> QED
          BY <5>1 DEF TextShown
      <4>2. CASE b.value = ""
        BY <2>1, <3>2, <4>2 DEF TextShown
      <4>3. CASE b.active /\ b.value # ""
        <5>1. b.value = box.value /\ Squeezed[b.value] = ""
          BY <1>1, <1>5, <4>3 DEF Kept, AtRest
        <5>2. ~typed' /\ ~keyTimeout' /\ box'.active /\ results'
          BY <2>1, <3>2, <4>3 DEF Settled
        <5>3. typed = FALSE
          BY <5>2 DEF Types
        <5>4. Settled /\ ~Waits /\ results
          BY <2>1, <4>3, <5>1, <5>2, <5>3 DEF Settled, Waits
        <5>5. TextShown
          BY <5>4 DEF Shown
        <5> QED
          BY <2>1, <5>1, <5>4, <5>5 DEF TextShown
      <4> QED
        BY <4>1, <4>2, <4>3
    <3>3. results' => /\ box'.last = page'.word /\ ~Throws(page'.section)
                      /\ "section" \in putOff'
      BY <1>1, <2>1 DEF Shown, Throws
    <3> QED
      BY <3>1, <3>2, <3>3 DEF Shown, Throws
  <2> QED
    BY <1>3, <2>2, <2>3, <2>4
<1> QED
  BY <1>4, <1>5

(* What closes the results leaves a box that is reset or has the focus.    *)
LEMMA Closes ==
  ASSUME DocInv, results' = FALSE, close' = FALSE, box' \in Boxes, AtRest(box'),
         ~box'.active => focus' # <<"field">>, focus' \in Outside \ {<<"select">>},
         typed' \in BOOLEAN, keyTimeout' \in BOOLEAN, putOff' \subseteq putOff,
         keyTimeout' /\ box'.value # "" => Squeezed[box'.value] # "",
         UNCHANGED <<filter, orphans, hideTimeout, pointer, page, rows, expanded>>
  PROVE  DocInv'
<1> USE DEF DocInv
<1>1. Types'
  BY DEF Types
<1>2. Frame'
  BY DEF Frame, Convex
<1>3. PanelConsistent'
  BY NoneInFrame DEF PanelConsistent, AtRest
<1>4. Shown'
  BY DEF Shown
<1> QED
  BY <1>1, <1>2, <1>3, <1>4

LEMMA StopsInFrame == \A f \in Stops : InFrame(f)
BY StopShapes DEF InFrame

LEMMA Quiet ==
  ASSUME DocInv, UNCHANGED <<box, focus, filter, keyTimeout, orphans, results,
                             close, page, rows, expanded, putOff>>,
         typed' = typed \/ typed' = (typed /\ box.active),
         hideTimeout' => pointer' = "away", selecting => selecting'
  PROVE  DocInv'
<1> USE DEF DocInv
<1>1. Types'
  BY DEF Types
<1>2. Frame'
  BY DEF Frame, Convex, Stops
<1>3. PanelConsistent'
  BY DEF PanelConsistent, InFrame
<1>4. Shown'
  <2>1. CASE box.active
    BY <2>1 DEF Shown, Settled, Waits, TextShown, Throws, Types
  <2>2. CASE ~box.active
    <3>1. box.value = Label /\ Trimmed[Label] = Label /\ Squeezed[Label] = Label /\ Label # ""
      BY <2>2, TextsAssumption DEF PanelConsistent
    <3>2. results' => TextShown'
      BY <2>2, <3>1 DEF PanelConsistent, TextShown
    <3> QED
      BY <3>1, <3>2 DEF Shown, Throws
  <2> QED
    BY <2>1, <2>2
<1> QED
  BY <1>1, <1>2, <1>3, <1>4

LEMMA DocNext == DocInv /\ [Next]_vars => DocInv'
<1> SUFFICES ASSUME DocInv, [Next]_vars
             PROVE  DocInv'
  OBVIOUS
<1>1. /\ box \in Boxes /\ AtRest(box) /\ (~box.active => focus # <<"field">>)
      /\ results \in BOOLEAN /\ typed \in BOOLEAN /\ orphans \in Nat /\ filter \in 0 .. Sections
      /\ close = results
  BY DEF DocInv, Types, PanelConsistent, AtRest
<1>2. ASSUME NEW to, NEW shown \in BOOLEAN
      PROVE  Kept(box, to, shown, Focused(box, focus, to, shown))
  BY <1>1, FocusedKeeps
<1>3. {<<"field">>, <<"select">>, <<"none">>} = Outside
  BY DEF Outside
<1>4. CASE FocusField
  <2>1. MoveFocus(<<"field">>) /\ Stops' = Stops
    BY <1>4 DEF FocusField, frameVars, Stops
  <2> QED
    BY <1>3, <1>4, <2>1, Moves, NoneInFrame DEF FocusField, frameVars, DocInv, Frame
<1>5. CASE LeaveField
  <2>1. MoveFocus(<<"none">>) /\ Stops' = Stops
    BY <1>5 DEF LeaveField, frameVars, Stops
  <2> QED
    BY <1>3, <1>5, <2>1, Moves, NoneInFrame DEF LeaveField, frameVars, DocInv, Frame
<1>6. ASSUME NEW v \in Texts, KeyDown(v)
      PROVE  DocInv'
  <2>1. box.active
    BY <1>1, <1>6 DEF KeyDown
  <2>2. box' \in Boxes /\ box'.active /\ box'.last = box.last /\ typed' = TRUE
    BY <1>1, <1>6, <2>1 DEF KeyDown, Boxes
  <2>3. Types'
    BY <1>6, <2>2 DEF KeyDown, DocInv, Types
  <2>4. Frame'
    BY <1>6 DEF KeyDown, frameVars, DocInv, Frame, Convex, Stops
  <2>5. PanelConsistent'
    BY <1>6, <2>2 DEF KeyDown, frameVars, DocInv, PanelConsistent, InFrame
  <2>6. Shown'
    BY <1>6, <2>2 DEF KeyDown, DocInv, Shown, Settled, Throws
  <2> QED
    BY <2>3, <2>4, <2>5, <2>6 DEF DocInv
<1>7. CASE KeyUp
  <2> DEFINE v == Squeezed[box.value]
  <2>1. v \in Texts /\ Squeezed[v] = v
    BY <1>1, TextsAssumption DEF Boxes
  <2>2. /\ focus = <<"field">> /\ typed' = FALSE
        /\ keyTimeout' = (v # box.last /\ v # "")
        /\ putOff' = putOff \ {"text"}
        /\ UNCHANGED <<focus, filter, orphans, hideTimeout, pointer, selecting, page,
                       rows, expanded>>
    BY <1>7 DEF KeyUp, ChangeSearch
  <2>3. CASE v # box.last /\ v = ""
    <3>1. results' = FALSE /\ close' = FALSE /\ box' = [box EXCEPT !.last = ""]
      BY <1>7, <2>3 DEF KeyUp, ChangeSearch
    <3>2. box' \in Boxes /\ AtRest(box') /\ box'.active
      BY <1>1, <2>2, <3>1 DEF Boxes, AtRest, Texts
    <3>3. keyTimeout' = FALSE /\ putOff' \subseteq putOff /\ typed' \in BOOLEAN
      BY <2>2, <2>3
    <3> QED
      BY <1>3, <2>2, <3>1, <3>2, <3>3, Closes
  <2>4. CASE ~(v # box.last /\ v = "")
    <3>1. UNCHANGED <<results, close, box>> /\ (~keyTimeout' => v = box.last)
      BY <1>7, <2>2, <2>4 DEF KeyUp, ChangeSearch
    <3>2. Types'
      BY <2>2, <3>1 DEF DocInv, Types
    <3>3. Frame'
      BY <2>2 DEF DocInv, Frame, Convex, Stops
    <3>4. PanelConsistent'
      BY <2>2, <3>1 DEF DocInv, PanelConsistent, InFrame
    <3>5. Shown'
      BY <2>1, <2>2, <3>1 DEF DocInv, Shown, Settled, Waits, TextShown, Throws
    <3> QED
      BY <3>2, <3>3, <3>4, <3>5 DEF DocInv
  <2> QED
    BY <2>3, <2>4
<1>8. CASE KeyUpShift
  <2>1. /\ focus' = <<"select">> /\ selecting' /\ ~hideTimeout'
        /\ keyTimeout' = FALSE /\ typed' = FALSE
        /\ putOff' = IF keyTimeout \/ typed THEN putOff \cup {"text"} ELSE putOff
        /\ UNCHANGED <<filter, orphans, pointer, results, close, page, rows, expanded>>
    BY <1>8 DEF KeyUpShift, frameVars
  <2>2. Kept(box, <<"select">>, results, box')
    BY <1>1, <1>2, <1>8 DEF KeyUpShift
  <2>3. ~InFrame(focus')
    BY <1>3, <2>1, NoneInFrame
  <2>4. Types'
    BY <1>8, <2>1, <2>2 DEF KeyUpShift, DocInv, Types, Kept
  <2>5. Frame'
    BY <1>3, <2>1 DEF DocInv, Frame, Convex
  <2>6. PanelConsistent'
    BY <2>1, <2>2, <2>3 DEF DocInv, PanelConsistent, Kept, AtRest
  <2>7. Shown'
    <3>1. results' => /\ box'.last = page'.word /\ ~Throws(page'.section)
                      /\ ~Throws(filter') => page'.section = filter' \/ "section" \in putOff'
      BY <2>1, <2>2 DEF DocInv, Shown, Throws, Kept
    <3>2. CASE keyTimeout \/ typed
      <4>1. TextShown'
        BY <2>1, <3>2 DEF TextShown
      <4> QED
        BY <2>1, <3>1, <4>1 DEF Shown, Throws
    <3>3. CASE ~(keyTimeout \/ typed)
      <4>1. results' /\ ~Waits' => TextShown'
        BY <2>1, <2>2, <2>6, <3>3, TextKept DEF Settled, Kept
      <4> QED
        BY <2>1, <3>1, <4>1 DEF Shown, Throws
    <3> QED
      BY <3>2, <3>3
  <2> QED
    BY <2>4, <2>5, <2>6, <2>7 DEF DocInv
<1>9. CASE KeyUpEscape
  <2>1. /\ focus' = <<"none">> /\ keyTimeout' = FALSE /\ typed' = FALSE
        /\ results' = FALSE /\ close' = FALSE
        /\ UNCHANGED <<filter, orphans, hideTimeout, pointer, page, rows, expanded, putOff>>
    BY <1>9 DEF KeyUpEscape, frameVars
  <2>2. Kept(box, <<"none">>, FALSE, box')
    BY <1>1, <1>9, ResetKeeps DEF KeyUpEscape, Activate
  <2> QED
    BY <1>3, <2>1, <2>2, Closes DEF Kept
<1>10. CASE KeyTimer
  BY <1>1, <1>10, SearchesByTimer DEF KeyTimer
<1>11. CASE OrphanTimer
  <2>1. orphans' \in Nat
    BY <1>1, <1>11 DEF OrphanTimer
  <2> QED
    BY <1>11, <2>1, SearchesByTimer DEF OrphanTimer
<1>12. CASE PointerOver
  BY <1>12, Quiet DEF PointerOver, frameVars
<1>13. CASE PointerOut
  BY <1>13, Quiet DEF PointerOut, frameVars
<1>14. CASE HideTimer
  <2>1. /\ hideTimeout' = FALSE /\ selecting' = FALSE
        /\ focus' = IF focus = <<"select">> THEN <<"none">> ELSE focus
        /\ UNCHANGED <<box, typed, filter, keyTimeout, orphans, pointer, results, close,
                       page, rows, expanded, putOff>>
    BY <1>14 DEF HideTimer, frameVars
  <2>2. focus' # <<"select">> /\ (InFrame(focus') => InFrame(focus))
    BY <1>3, <2>1, NoneInFrame
  <2>3. Types'
    BY <2>1 DEF DocInv, Types
  <2>4. Frame'
    BY <1>3, <2>1 DEF DocInv, Frame, Convex, Stops
  <2>5. PanelConsistent'
    BY <2>1, <2>2 DEF DocInv, PanelConsistent
  <2>6. Shown'
    BY <2>1 DEF DocInv, Shown, Settled, Waits, TextShown, Throws
  <2> QED
    BY <2>3, <2>4, <2>5, <2>6 DEF DocInv
<1>15. ASSUME NEW i \in 0 .. Sections - 1, ClickSelectItem(i)
       PROVE  DocInv'
  <2> DEFINE b == Focused(box, focus, <<"select">>, results)
  <2>1. i \in 0 .. Sections
    BY BoundsAssumption
  <2>2. /\ OnSelectItem(b, i) /\ focus' = <<"select">> /\ selecting'
        /\ typed' \in BOOLEAN /\ typed' = (typed /\ box'.active)
        /\ UNCHANGED <<hideTimeout, pointer, rows, expanded>>
    BY <1>1, <1>15 DEF ClickSelectItem
  <2>3. Kept(box, focus', results, b)
    BY <1>1, <1>2, <2>2
  <2> QED
    BY <1>1, <1>3, <2>1, <2>2, <2>3, Selects
<1>16. CASE SelectKeyMoves
  <2>1. PICK i \in 0 .. Sections : OnSelectItem(box, i)
    <3>1. CASE filter < Sections /\ OnSelectItem(box, filter + 1)
      <4>1. filter + 1 \in 0 .. Sections
        BY <1>1, <3>1, BoundsAssumption
      <4> QED
        BY <3>1, <4>1
    <3>2. CASE filter > 0 /\ OnSelectItem(box, filter - 1)
      <4>1. filter - 1 \in 0 .. Sections
        BY <1>1, <3>2, BoundsAssumption
      <4> QED
        BY <3>2, <4>1
    <3> QED
      BY <1>16, <3>1, <3>2 DEF SelectKeyMoves
  <2>2. /\ focus = <<"select">> /\ focus' = focus /\ selecting' = selecting /\ typed' = typed
        /\ UNCHANGED <<hideTimeout, pointer, rows, expanded>>
    BY <1>16 DEF SelectKeyMoves
  <2>3. Kept(box, focus', results, box)
    BY <1>1, <2>2 DEF Kept
  <2>4. selecting
    BY <2>2 DEF DocInv, PanelConsistent
  <2> QED
    BY <1>1, <1>3, <2>1, <2>2, <2>3, <2>4, Selects
<1>17. CASE SelectKeyEnds
  <2> DEFINE searches == Squeezed[box.value] # "" /\ box.searchActive
             thrown == searches /\ Throws(filter)
             shown == results \/ (searches /\ ~thrown)
  <2>1. /\ OnSelectItem(IF thrown THEN box ELSE Focused(box, focus, <<"field">>, shown), filter)
        /\ focus' = IF thrown THEN focus ELSE <<"field">>
        /\ selecting' = thrown /\ focus = <<"select">>
        /\ UNCHANGED <<typed, hideTimeout, pointer, rows, expanded>>
    BY <1>17 DEF SelectKeyEnds
  <2>2. shown \in BOOLEAN /\ (results => shown)
    BY <1>1
  <2> HIDE DEF searches, thrown, shown
  <2>3. CASE thrown
    <3>1. OnSelectItem(box, filter) /\ focus' = <<"select">> /\ selecting'
      BY <2>1, <2>3
    <3>2. Kept(box, focus', results, box)
      BY <1>1, <3>1 DEF Kept
    <3> QED
      BY <1>1, <1>3, <2>1, <3>1, <3>2, Selects
  <2>4. CASE ~thrown
    <3> DEFINE b == Focused(box, focus, <<"field">>, shown)
    <3>1. OnSelectItem(b, filter) /\ focus' = <<"field">>
      BY <2>1, <2>4
    <3>2. Kept(box, focus', shown, b)
      BY <1>2, <2>2, <3>1
    <3> QED
      BY <1>1, <1>3, <2>1, <2>2, <3>1, <3>2, Selects
  <2> QED
    BY <2>3, <2>4
<1>18. ASSUME NEW to \in {<<"none">>, <<"field">>}, Close(to)
       PROVE  DocInv'
  <2> DEFINE f == Focused(box, focus, <<"none">>, results)
             b == Activate(f, FALSE, FALSE)
  <2>1. /\ results' = FALSE /\ close' = FALSE /\ focus' = to /\ typed' = FALSE
        /\ box' = Focused(b, <<"none">>, to, FALSE)
        /\ UNCHANGED <<filter, keyTimeout, orphans, hideTimeout, pointer, page, rows, expanded, putOff>>
    BY <1>18 DEF Close, frameVars
  <2>2. Kept(box, <<"none">>, FALSE, b)
    BY <1>1, ResetKeeps DEF Activate
  <2>3. b.value = Label
    BY DEF Activate
  <2> HIDE DEF b
  <2>4. b \in Boxes /\ AtRest(b)
    BY <2>2 DEF Kept
  <2>5. Kept(b, to, FALSE, box')
    BY <2>1, <2>4, FocusedKeeps
  <2>6. box'.value # "" => Squeezed[box'.value] # ""
    BY <2>3, <2>5, TextsAssumption DEF Kept
  <2>7. to \in Outside \ {<<"select">>}
    BY <1>3
  <2>8. keyTimeout' \in BOOLEAN /\ putOff' \subseteq putOff
    BY <2>1 DEF DocInv, Types
  <2> QED
    BY <2>1, <2>5, <2>6, <2>7, <2>8, Closes DEF Kept
<1>19. CASE ClickClose
  BY <1>18, <1>19 DEF ClickClose
<1>20. CASE PageLoads
  <2>1. /\ rows' = (IF page.hit THEN Hits[page.word] ELSE {}) /\ expanded' = {}
        /\ focus' = IF InFrame(focus) THEN <<"none">> ELSE focus
        /\ UNCHANGED <<box, typed, filter, keyTimeout, orphans, hideTimeout, pointer,
                       selecting, results, close, page, putOff>>
    BY <1>20 DEF PageLoads
  <2>2. page.word \in Texts
    BY DEF DocInv, Types
  <2>3. focus' \in Outside /\ ~InFrame(focus') /\ (focus' = <<"select">> => focus = <<"select">>)
        /\ (focus' = <<"field">> => focus = <<"field">>)
    BY <1>3, <2>1, NoneInFrame, StopsInFrame DEF DocInv, Frame
  <2>4. Types'
    BY <2>1 DEF DocInv, Types
  <2>5. Frame'
    <3>1. Convex(rows')
      BY <2>1, <2>2, RowsAssumption DEF Convex
    <3> QED
      BY <2>1, <2>3, <3>1 DEF Frame, Convex
  <2>6. PanelConsistent'
    BY <2>1, <2>3 DEF DocInv, PanelConsistent
  <2>7. Shown'
    BY <2>1 DEF DocInv, Shown, Settled, Waits, TextShown, Throws
  <2> QED
    BY <2>4, <2>5, <2>6, <2>7 DEF DocInv
<1>21. CASE TakeFocus
  <2>1. UNCHANGED <<filter, keyTimeout, orphans, hideTimeout, pointer, selecting, results,
                    close, page, loading, rows, expanded, putOff>>
    BY <1>21 DEF TakeFocus
  <2>2. ASSUME MoveFocus(focus)
        PROVE  DocInv'
    <3>1. UNCHANGED <<focus, box>> /\ typed' = (typed /\ box.active)
      BY <1>1, <2>2 DEF MoveFocus, Focused
    <3> QED
      BY <2>1, <3>1, Quiet DEF DocInv, PanelConsistent
  <2>3. ASSUME results, NavNext(0) # {}, MoveFocus(FirstOr(NavNext(0), focus))
        PROVE  DocInv'
    <3>1. PICK i \in rows : NavNext(0) = {i} /\ i \in Int
      <4>1. rows \subseteq Int
        BY RowTypes DEF DocInv, Frame
      <4>2. PICK i \in NavNext(0) : TRUE
        BY <2>3
      <4>3. \A j \in NavNext(0) : j \in Int /\ j \in rows /\ j <= i /\ i <= j
        BY <4>1, <4>2 DEF NavNext
      <4>4. i \in Int /\ i \in rows
        BY <4>2, <4>3
      <4>5. ASSUME NEW j \in NavNext(0)
            PROVE  j = i
        <5>1. j \in Int /\ j <= i /\ i <= j
          BY <4>3
        <5> QED
          BY <4>4, <5>1
      <4> QED
        BY <4>2, <4>4, <4>5
    <3>2. MoveFocus(<<"item", i>>)
      BY <2>3, <3>1, FirstOfOne
    <3>3. <<"item", i>> \in Stops' /\ <<"item", i>> # <<"select">>
      BY <2>1 DEF Stops
    <3>4. \A j \in expanded' : j \in rows /\ Children[j] > 0
      BY <2>1 DEF DocInv, Frame
    <3> QED
      BY <2>1, <2>3, <3>2, <3>3, <3>4, Moves
  <2>4. NavNext(0) = {} => FirstOr(NavNext(0), focus) = focus
    BY DEF FirstOr
  <2>5. CASE results
    BY <1>21, <2>2, <2>3, <2>4, <2>5 DEF TakeFocus
  <2>6. CASE ~results
    BY <1>21, <2>1, <2>6, Quiet DEF TakeFocus, DocInv, PanelConsistent
  <2> QED
    BY <2>5, <2>6
<1>22. CASE Walk
  <2>1. /\ InFrame(focus) /\ results
        /\ UNCHANGED <<filter, keyTimeout, orphans, hideTimeout, pointer, selecting, results,
                       close, page, rows, expanded, putOff>>
    BY <1>22 DEF Walk, frameVars, DocInv, PanelConsistent
  <2>2. focus \in Stops
    BY <2>1, NoneInFrame DEF DocInv, Frame
  <2>3. PICK to \in {Up(focus), Down(focus)} : MoveFocus(to)
    BY <1>22 DEF Walk
  <2>4. to = <<"field">> \/ to \in Stops
    BY <2>2, <2>3, Walks DEF DocInv, Frame
  <2>5. to \in Outside \cup Stops' /\ to # <<"select">>
    <3>1. Stops' = Stops
      BY <2>1 DEF Stops
    <3>2. ~InFrame(<<"select">>)
      BY <1>3, NoneInFrame
    <3> QED
      BY <1>3, <2>4, <3>1, <3>2, StopsInFrame
  <2>6. \A j \in expanded' : j \in rows /\ Children[j] > 0
    BY <2>1 DEF DocInv, Frame
  <2> QED
    BY <2>1, <2>3, <2>5, <2>6, Moves
<1>23. CASE EscapeFrame
  BY <1>18, <1>23 DEF EscapeFrame
<1>24. ASSUME NEW i \in Rows, Toggle(i)
       PROVE  DocInv'
  <2>1. /\ results /\ i \in rows /\ Children[i] > 0 /\ MoveFocus(<<"item", i>>)
        /\ expanded' \subseteq expanded \cup {i}
        /\ UNCHANGED <<filter, keyTimeout, orphans, hideTimeout, pointer, selecting, results,
                       close, page, rows, putOff>>
    BY <1>24 DEF Toggle
  <2>2. <<"item", i>> \in Stops' /\ <<"item", i>> # <<"select">>
    BY <2>1 DEF Stops
  <2>3. \A j \in expanded' : j \in rows /\ Children[j] > 0
    BY <2>1 DEF DocInv, Frame
  <2> QED
    BY <2>1, <2>2, <2>3, Moves
<1>25. CASE UNCHANGED vars
  BY <1>25, Quiet DEF vars, frameVars, DocInv, PanelConsistent
<1> QED
  BY <1>4, <1>5, <1>6, <1>7, <1>8, <1>9, <1>10, <1>11, <1>12, <1>13, <1>14, <1>15, <1>16,
     <1>17, <1>19, <1>20, <1>21, <1>22, <1>23, <1>24, <1>25 DEF Next

LEMMA DocInvariant == Spec => []DocInv
BY DocInit, DocNext, PTL DEF Spec

-----------------------------------------------------------------------------
(* The window, its button, the look of the box and the focus agree after   *)
(* every event, whatever the timers nobody can stop any more do: OnSearch- *)
(* FieldChange, Activate, CloseResultsWindow and the others keep them so.  *)
THEOREM PanelIsConsistent == Spec => []PanelConsistent
BY DocInvariant, PTL DEF DocInv

(* The results SearchBox shows are those for the section chosen and, once  *)
(* OnSearchFieldChange has seen the last change and no timer is to follow, *)
(* for the text in the field, but for the exceptions stated there: texts   *)
(* that differ in blanks, searches put off, and a field just cleared.      *)
THEOREM ResultsAreFresh == Spec => []NoStaleResults
<1>1. DocInv => NoStaleResults
  BY DEF DocInv, Shown, Settled, Waits, TextShown, NoStaleResults
<1> QED
  BY <1>1, DocInvariant, PTL

(* Search remembers what it told the frame to show, whatever throws, goes  *)
(* off late, or empties the panel meanwhile.                               *)
THEOREM ShownIsRemembered == Spec => []RemembersWhatIsShown
<1>1. DocInv => RemembersWhatIsShown
  BY DEF DocInv, Shown, RemembersWhatIsShown
<1> QED
  BY <1>1, DocInvariant, PTL

(* Up and Down of SearchResults (NavNext, NavPrev, NavNextChild,           *)
(* NavPrevChild) undo each other on every page of results, and lead to     *)
(* what is shown.                                                          *)
THEOREM WalkingIsReversible == Spec => []UpUndoesDown
<1>1. DocInv => UpUndoesDown
  BY FrameWalks, NoneInFrame DEF DocInv, Frame
<1> QED
  BY <1>1, DocInvariant, PTL
=============================================================================
