-------------------------- MODULE EasySplitProofs --------------------------
(***************************************************************************)
(* Theorems about the splitter, for windows of any size, any borders and   *)
(* magnetic zones, any positions of the mouse and any number of inputs.    *)
(***************************************************************************)
EXTENDS EasySplit, TLAPS

ESData ==
  [Position : Int, Undo : Int, TLBorder : Nat, BRBorder : Nat, MagBorder : Nat,
   Captured : BOOLEAN, Focused : BOOLEAN, Track : BOOLEAN, Dock : BOOLEAN, KBMove : BOOLEAN]

\* The bar's data as on_wm_create has set it up, as far as positions depend on it.
Data ==
  /\ esd \in ESData
  /\ esd.TLBorder = Border /\ esd.BRBorder = Border /\ esd.MagBorder = Magnet /\ esd.Dock = TRUE

Places ==
  /\ height \in Nat /\ posted \in Nat
  /\ bar \in [y : Int, cy : Nat] /\ bar.cy = 2 * Half

\* es_CheckBorders leaves the bar on a border or outside of both zones, if there is room.
Free(h, pos) ==
  h >= 2 * Border + 2 * Magnet =>
    \/ pos \in {Border, h - Border}
    \/ Border + Magnet <= pos /\ pos <= h - Border - Magnet

SplitInv == Data /\ Places /\ Free(height, esd.Position) /\ LayoutFollows

USE DEF ESData

LEMMA CheckedIsFree ==
  ASSUME NEW h \in Nat, NEW pos \in Int, Data
  PROVE  Checked(esd, h, pos) \in Int /\ Free(h, Checked(esd, h, pos))
BY SplitConstantsOK DEF Data, Checked, Free

LEMMA InitInv == Init => SplitInv
<1> SUFFICES ASSUME Init PROVE SplitInv
  OBVIOUS
<1>1. PICK pos \in MousePos :
        /\ esd = CheckBorders(Create(pos), height, pos)
        /\ bar = [y |-> esd.Position - Half, cy |-> 2 * Half]
        /\ layout = [list |-> bar.y, logTop |-> bar.y + bar.cy, logHeight |-> height - (bar.y + bar.cy)]
  BY DEF Init
<1>2. height \in Nat /\ pos \in Int /\ Half \in Nat /\ Border \in Nat /\ Magnet \in Nat /\ posted = 0
  BY SplitConstantsOK DEF Init
<1> DEFINE e == Create(pos)
<1>3. /\ e \in ESData
      /\ e.TLBorder = Border /\ e.BRBorder = Border /\ e.MagBorder = Magnet /\ e.Dock = TRUE
  <2>1. NewWindow(pos) \in ESData
    BY <1>2 DEF NewWindow
  <2> HIDE DEF e
  <2> DEFINE n == NewWindow(pos)
             t == [n EXCEPT !.TLBorder = Border]
  <2>2. SetBorder(n, "ESB_TOP", Border) = t
    BY <2>1 DEF SetBorder
  <2>3. SetBorder(t, "ESB_BOTTOM", Border) = [t EXCEPT !.BRBorder = Border]
    BY <2>1 DEF SetBorder
  <2>4. e = [[t EXCEPT !.BRBorder = Border] EXCEPT !.Dock = TRUE, !.MagBorder = Magnet]
    BY <2>2, <2>3 DEF e, Create, SetDocking
  <2> HIDE DEF n
  <2> QED BY <1>2, <2>1, <2>4 DEF n
<1>4. Checked(e, height, pos) \in Int /\ Free(height, Checked(e, height, pos))
  BY <1>2, <1>3 DEF Checked, Free
<1>5. esd = [e EXCEPT !.Position = Checked(e, height, pos)]
  BY <1>1 DEF CheckBorders
<1> HIDE DEF e
<1>6. Data /\ esd.Position = Checked(e, height, pos)
  BY <1>2, <1>3, <1>4, <1>5 DEF Data
<1>7. Places /\ LayoutFollows
  BY <1>1, <1>2, <1>4, <1>6 DEF Places, LayoutFollows
<1> QED BY <1>4, <1>6, <1>7 DEF SplitInv

\* The parent's WM_SIZE leaves everything in its place, whatever it found.
LEMMA OnSizeSettles ==
  ASSUME SplitInv, NEW h \in Nat, OnSize(h), height' = h, posted' \in Nat
  PROVE  SplitInv'
<1>1. Checked(esd, h, esd.Position) \in Int /\ Free(h, Checked(esd, h, esd.Position))
  BY CheckedIsFree DEF SplitInv, Data
<1> DEFINE p == Checked(esd, h, esd.Position)
<1>2. /\ bar' = [y |-> p - Half, cy |-> 2 * Half]
      /\ esd' = [[esd EXCEPT !.Position = p] EXCEPT !.Position = bar'.y + bar'.cy \div 2]
  BY <1>1 DEF OnSize, CheckBorders, UpdatePosition, SplitInv, Data
<1>3. bar'.y + bar'.cy \div 2 = p
  BY <1>1, <1>2, SplitConstantsOK
<1> HIDE DEF p
<1>4. p \in Int /\ Free(h, p)
  BY <1>1 DEF p
<1>5. Data' /\ esd'.Position = p
  BY <1>2, <1>3, <1>4 DEF SplitInv, Data
<1>6. Places' /\ LayoutFollows'
  BY <1>2, <1>4, <1>5, SplitConstantsOK DEF OnSize, Places, LayoutFollows
<1> QED BY <1>4, <1>5, <1>6 DEF SplitInv

\* A move of the bar leaves the layout to the WM_SIZE that it posts.
LEMMA MoveIsPosted ==
  ASSUME SplitInv, NEW pos \in Int, NEW e, MoveSplitter(e, pos),
         \E u \in Int, c \in BOOLEAN : e \in {esd, [esd EXCEPT !.Captured = c], [esd EXCEPT !.Undo = u]}
  PROVE  SplitInv' /\ esd'.Position = Checked(esd, height, pos)
<1>1. Checked(e, height, pos) = Checked(esd, height, pos)
  BY DEF SplitInv, Data, Checked
<1>2. Checked(esd, height, pos) \in Int /\ Free(height, Checked(esd, height, pos))
  BY CheckedIsFree DEF SplitInv, Places
<1>3. esd' = [e EXCEPT !.Position = Checked(esd, height, pos)]
  BY <1>1 DEF MoveSplitter, CheckBorders
<1>4. Data' /\ esd'.Position = Checked(esd, height, pos)
  BY <1>2, <1>3 DEF SplitInv, Data
<1>5. Places' /\ LayoutFollows'
  BY DEF SplitInv, Places, LayoutFollows, MoveSplitter, NotifyParent
<1> QED BY <1>2, <1>4, <1>5 DEF SplitInv, MoveSplitter

\* Data that decides no position changes.
LEMMA SetDataKeeps ==
  ASSUME SplitInv, NEW e, SetData(e),
         e \in [Position : {esd.Position}, Undo : Int, TLBorder : {Border}, BRBorder : {Border},
                MagBorder : {Magnet}, Captured : BOOLEAN, Focused : BOOLEAN, Track : BOOLEAN,
                Dock : {TRUE}, KBMove : BOOLEAN]
  PROVE  SplitInv'
<1>1. Data' /\ esd'.Position = esd.Position
  BY SplitConstantsOK DEF SetData, SplitInv, Data
<1> QED BY <1>1 DEF SetData, SplitInv, Places, LayoutFollows

LEMMA KeyTargetIsInt ==
  ASSUME SplitInv, NEW k \in Keys
  PROVE  KeyTarget(esd, height, k) \in Int
BY SplitConstantsOK DEF SplitInv, Data, Places, Keys, KeyTarget

LEMMA NextInv == SplitInv /\ [Next]_vars => SplitInv'
<1> SUFFICES ASSUME SplitInv, [Next]_vars PROVE SplitInv'
  OBVIOUS
<1>0. /\ esd.Position \in Int /\ esd.Undo \in Int /\ MousePos \cup {esd.Position} \subseteq Int
      /\ esd \in [Position : {esd.Position}, Undo : Int, TLBorder : {Border}, BRBorder : {Border},
                  MagBorder : {Magnet}, Captured : BOOLEAN, Focused : BOOLEAN, Track : BOOLEAN,
                  Dock : {TRUE}, KBMove : BOOLEAN]
  BY SplitConstantsOK DEF SplitInv, Data
<1>1. CASE HandleSize
  BY <1>1, OnSizeSettles DEF HandleSize, SplitInv, Places
<1>2. CASE Resize
  BY <1>2, OnSizeSettles, SplitConstantsOK DEF Resize, SplitInv, Places
<1>3. ASSUME NEW b \in Buttons, ButtonDown(b) PROVE SplitInv'
  BY <1>0, <1>3, SetDataKeeps DEF ButtonDown
<1>4. ASSUME NEW b \in Buttons, ButtonUp(b) PROVE SplitInv'
  BY <1>0, <1>4, SetDataKeeps, MoveIsPosted DEF ButtonUp, ReleaseCapture
<1>5. CASE MouseMove
  BY <1>0, <1>5, MoveIsPosted DEF MouseMove
<1>6. CASE LoseCapture
  BY <1>6 DEF LoseCapture, SplitInv, Data, Places, LayoutFollows
<1>7. CASE StopTracking \/ Focus \/ SetTracking
  BY <1>0, <1>7, SetDataKeeps DEF StopTracking, Focus, SetTracking
<1>8. ASSUME NEW k \in Keys, Key(k) PROVE SplitInv'
  BY <1>8, KeyTargetIsInt, MoveIsPosted DEF Key
<1>9. CASE SetPos \/ HandleUndo
  BY <1>0, <1>9, MoveIsPosted DEF SetPos, HandleUndo
<1>10. CASE UNCHANGED vars
  BY <1>10 DEF vars, SplitInv, Data, Places, LayoutFollows
<1> QED BY <1>1, <1>2, <1>3, <1>4, <1>5, <1>6, <1>7, <1>8, <1>9, <1>10 DEF Next

LEMMA SplitInvariant == Spec => []SplitInv
BY InitInv, NextInv, PTL DEF Spec

---------------------------------------------------------------------------

\* Whatever moves the bar or sizes the window, the bar lies on a border or outside of both
\* magnetic zones, in every window with room for them (es_CheckBorders, easysplit.c:40).
THEOREM BarIsDockedOrFree == Spec => []DockedOrFree
<1>1. SplitInv => DockedOrFree
  BY SplitConstantsOK DEF SplitInv, Data, Free, DockedOrFree, Room
<1> QED BY <1>1, SplitInvariant, PTL

\* With no WM_SIZE on its way the list, the bar and the log tile the window, and the bar's data
\* is where its window is, after any number of moves (main.c:249, es_UpdatePosition).
THEOREM LayoutIsFollowed == Spec => []LayoutFollows
<1>1. SplitInv => LayoutFollows
  BY DEF SplitInv
<1> QED BY <1>1, SplitInvariant, PTL

\* An arrow key moves the bar its way out of any dock, but for the last one (es_HandleKeyboard).
THEOREM ArrowsAlwaysMove == Spec => ArrowsMove
<1>1. ASSUME SplitInv, Room, Key("VK_UP") PROVE esd'.Position < esd.Position \/ esd.Position = esd.TLBorder
  <2>1. KeyTarget(esd, height, "VK_UP") \in Int
    BY <1>1, KeyTargetIsInt DEF Keys
  <2>2. esd'.Position = Checked(esd, height, KeyTarget(esd, height, "VK_UP"))
    BY <1>1, <2>1, MoveIsPosted DEF Key
  <2> DEFINE p == esd.Position
  <2>3. /\ p \in Int /\ height \in Nat /\ Border \in Nat /\ Magnet \in Nat
        /\ esd.TLBorder = Border /\ esd.BRBorder = Border /\ esd.MagBorder = Magnet /\ esd.Dock
    BY <1>1, SplitConstantsOK DEF SplitInv, Data, Places
  <2>4. Free(height, p) /\ height >= 2 * Border + 2 * Magnet
    BY <1>1, <2>3 DEF SplitInv, Room
  <2>5. KeyTarget(esd, height, "VK_UP") = p - (IF p = height - Border THEN Magnet + 1 ELSE 1)
    BY <2>3 DEF KeyTarget
  <2>6. esd'.Position = LET pos1 == IF KeyTarget(esd, height, "VK_UP") < Border + Magnet
                                   THEN Border ELSE KeyTarget(esd, height, "VK_UP")
                        IN  IF pos1 > height - Border - Magnet THEN height - Border ELSE pos1
    BY <2>2, <2>3 DEF Checked
  <2>7. esd'.Position < p \/ p = Border
    <3> HIDE DEF p
    <3> QED BY <2>3, <2>4, <2>5, <2>6 DEF Free
  <2> QED BY <2>3, <2>7
<1>2. ASSUME SplitInv, Room, Key("VK_DOWN")
      PROVE  esd'.Position > esd.Position \/ esd.Position = height - esd.BRBorder
  <2>1. KeyTarget(esd, height, "VK_DOWN") \in Int
    BY <1>2, KeyTargetIsInt DEF Keys
  <2>2. esd'.Position = Checked(esd, height, KeyTarget(esd, height, "VK_DOWN"))
    BY <1>2, <2>1, MoveIsPosted DEF Key
  <2> DEFINE p == esd.Position
  <2>3. /\ p \in Int /\ height \in Nat /\ Border \in Nat /\ Magnet \in Nat
        /\ esd.TLBorder = Border /\ esd.BRBorder = Border /\ esd.MagBorder = Magnet /\ esd.Dock
    BY <1>2, SplitConstantsOK DEF SplitInv, Data, Places
  <2>4. Free(height, p) /\ height >= 2 * Border + 2 * Magnet
    BY <1>2, <2>3 DEF SplitInv, Room
  <2>5. KeyTarget(esd, height, "VK_DOWN") = p + (IF p = Border THEN Magnet + 1 ELSE 1)
    BY <2>3 DEF KeyTarget
  <2>6. esd'.Position = LET pos1 == IF KeyTarget(esd, height, "VK_DOWN") < Border + Magnet
                                   THEN Border ELSE KeyTarget(esd, height, "VK_DOWN")
                        IN  IF pos1 > height - Border - Magnet THEN height - Border ELSE pos1
    BY <2>2, <2>3 DEF Checked
  <2>7. esd'.Position > p \/ p = height - Border
    <3> HIDE DEF p
    <3> QED BY <2>3, <2>4, <2>5, <2>6 DEF Free
  <2> QED BY <2>3, <2>7
<1>3. SplitInv =>
        (Room =>
           /\ Key("VK_UP")   => esd'.Position < esd.Position \/ esd.Position = esd.TLBorder
           /\ Key("VK_DOWN") => esd'.Position > esd.Position \/ esd.Position = height - esd.BRBorder)
  BY <1>1, <1>2
<1> QED BY <1>3, SplitInvariant, PTL DEF ArrowsMove

\* The mouse is never captured without a drag that a button's release can end (es_SetCapture,
\* es_ReleaseCapture), whoever takes the mouse away meanwhile.
THEOREM CaptureIsAlwaysDrag == Spec => []CaptureIsDrag
<1>1. Init => CaptureIsDrag
  BY DEF Init, CaptureIsDrag
<1>2. SplitInv /\ CaptureIsDrag /\ [Next]_vars => CaptureIsDrag'
  <2> SUFFICES ASSUME SplitInv, CaptureIsDrag, [Next]_vars, capture' PROVE esd'.Captured /\ down' # {}
    BY DEF CaptureIsDrag
  <2>1. CASE HandleSize \/ Resize
    BY <2>1 DEF HandleSize, Resize, OnSize, CheckBorders, UpdatePosition, CaptureIsDrag, SplitInv, Data
  <2>2. ASSUME NEW b \in Buttons, ButtonDown(b) PROVE esd'.Captured /\ down' # {}
    BY <2>2 DEF ButtonDown, SetData, SplitInv, Data
  <2>3. ASSUME NEW b \in Buttons, ButtonUp(b) PROVE FALSE
    BY <2>3 DEF ButtonUp, ReleaseCapture, Gets, CaptureIsDrag
  <2>4. CASE MouseMove \/ SetPos \/ HandleUndo \/ \E k \in Keys : Key(k)
    BY <2>4 DEF MouseMove, SetPos, HandleUndo, Key, MoveSplitter, CheckBorders, CaptureIsDrag, SplitInv, Data
  <2>5. CASE Focus \/ SetTracking
    BY <2>5 DEF Focus, SetTracking, SetData, CaptureIsDrag, SplitInv, Data
  <2>6. CASE LoseCapture \/ StopTracking
    BY <2>6 DEF LoseCapture, StopTracking
  <2>7. CASE UNCHANGED vars
    BY <2>7 DEF vars, CaptureIsDrag
  <2> QED BY <2>1, <2>2, <2>3, <2>4, <2>5, <2>6, <2>7 DEF Next
<1> QED BY <1>1, <1>2, SplitInvariant, PTL DEF Spec

---------------------------------------------------------------------------
(* The types of the rest: a message is posted for an input, and at most one. *)

Rest ==
  /\ height \in Heights
  /\ layout \in [list : Int, logTop : Int, logHeight : Int]
  /\ posted \in Nat /\ inputs \in 0..MaxInputs /\ posted <= inputs
  /\ down \in SUBSET Buttons

LEMMA LayoutTyped ==
  ASSUME SplitInv', NEW h \in Nat, OnSize(h)
  PROVE  layout' \in [list : Int, logTop : Int, logHeight : Int]
<1>1. bar'.y \in Int /\ bar'.cy \in Nat
  BY DEF SplitInv, Places
<1> QED BY <1>1 DEF OnSize

\* What an input may do to them, but for the size of the window.
LEMMA InputKeeps ==
  ASSUME Rest, Input, UNCHANGED <<height, layout>>, posted' \in {posted, posted + 1},
         down' \in SUBSET Buttons
  PROVE  Rest'
BY SplitConstantsOK DEF Rest, Input

LEMMA RestStep == SplitInv /\ SplitInv' /\ Rest /\ [Next]_vars => Rest'
<1> SUFFICES ASSUME SplitInv, SplitInv', Rest, [Next]_vars PROVE Rest'
  OBVIOUS
<1> USE DEF MoveSplitter, NotifyParent, SetData
<1>0. height \in Nat /\ down \in SUBSET Buttons
  BY DEF SplitInv, Places, Rest
<1>1. CASE HandleSize
  <2>1. layout' \in [list : Int, logTop : Int, logHeight : Int]
    BY <1>0, <1>1, LayoutTyped DEF HandleSize
  <2> QED BY <1>1, <2>1, SplitConstantsOK DEF HandleSize, Rest
<1>2. CASE Resize
  <2>1. height' \in Heights /\ height' \in Nat
    BY <1>2, SplitConstantsOK DEF Resize
  <2>2. layout' \in [list : Int, logTop : Int, logHeight : Int]
    BY <1>2, <2>1, LayoutTyped DEF Resize
  <2> QED BY <1>2, <2>1, <2>2, SplitConstantsOK DEF Resize, Rest, Input
<1>3. ASSUME NEW b \in Buttons, ButtonDown(b) PROVE Rest'
  BY <1>0, <1>3, InputKeeps DEF ButtonDown
<1>4. ASSUME NEW b \in Buttons, ButtonUp(b) PROVE Rest'
  BY <1>0, <1>4, InputKeeps DEF ButtonUp, ReleaseCapture
<1>5. CASE MouseMove \/ SetPos \/ HandleUndo
  BY <1>0, <1>5, InputKeeps DEF MouseMove, SetPos, HandleUndo
<1>6. ASSUME NEW k \in Keys, Key(k) PROVE Rest'
  BY <1>0, <1>6, InputKeeps DEF Key
<1>7. CASE LoseCapture \/ StopTracking \/ Focus \/ SetTracking
  BY <1>0, <1>7, InputKeeps DEF LoseCapture, StopTracking, Focus, SetTracking
<1>8. CASE UNCHANGED vars
  BY <1>8 DEF vars, Rest
<1> QED BY <1>1, <1>2, <1>3, <1>4, <1>5, <1>6, <1>7, <1>8 DEF Next

LEMMA RestInit == Init => Rest
<1> SUFFICES ASSUME Init PROVE Rest
  OBVIOUS
<1>1. bar.y \in Int /\ bar.cy \in Nat /\ height \in Nat
  BY InitInv DEF SplitInv, Places
<1>2. layout = [list |-> bar.y, logTop |-> bar.y + bar.cy, logHeight |-> height - (bar.y + bar.cy)]
  BY DEF Init
<1> QED BY <1>1, <1>2, SplitConstantsOK DEF Init, Rest

Flag == capture \in BOOLEAN

LEMMA FlagStep == Flag /\ [Next]_vars => Flag'
<1> SUFFICES ASSUME capture \in BOOLEAN, [Next]_vars PROVE capture' \in BOOLEAN
  BY DEF Flag
<1>1. CASE UNCHANGED capture
  BY <1>1
<1>2. CASE capture' = TRUE \/ capture' = FALSE
  BY <1>2
<1>3. UNCHANGED capture \/ capture' = TRUE \/ capture' = FALSE
  BY DEF Next, vars, HandleSize, Resize, ButtonDown, ButtonUp, ReleaseCapture, MouseMove, LoseCapture,
         StopTracking, Focus, Key, SetPos, HandleUndo, SetTracking
<1> QED BY <1>1, <1>2, <1>3

\* ESDATA, the windows' places and the messages keep their types, in windows of any size: no
\* more WM_SIZE are on their way than there were inputs.
THEOREM SplitTypesCorrect == Spec => []SplitTypeOK
<1>1. Init => Flag
  BY DEF Init, Flag
<1>2. SplitInv /\ Rest /\ Flag => SplitTypeOK
  <2> SUFFICES ASSUME SplitInv, Rest, Flag PROVE SplitTypeOK
    OBVIOUS
  <2>1. posted \in 0..MaxInputs
    BY SplitConstantsOK DEF Rest
  <2>2. /\ esd \in ESData /\ bar \in [y : Int, cy : Nat]
    BY DEF SplitInv, Data, Places
  <2> QED BY <2>1, <2>2 DEF Rest, Flag, SplitTypeOK
<1> QED BY <1>1, <1>2, RestInit, RestStep, FlagStep, SplitInvariant, PTL DEF Spec
=============================================================================
