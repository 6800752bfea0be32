------------------------------ MODULE EasySplit -----------------------------
(***************************************************************************)
(* The bar between the list of servers and the log of the main window      *)
(* (easysplit.c), with the parent's side of it (main.c, WM_SIZE): the bar  *)
(* does not move itself.  It computes a position and posts WM_SIZE to its  *)
(* parent, which asks for the position, moves the bar's window there and   *)
(* lays its other windows out around it; from the window's move the bar    *)
(* takes its position back.                                                *)
(*                                                                         *)
(* Coordinates are along the axis the bar moves on, so one model stands    *)
(* for horizontal and vertical bars.  ESM_SETPOS, ESM_UNDO, ESM_STOP and   *)
(* ESM_SETTRACKING are documented and not sent by this program.            *)
(***************************************************************************)
EXTENDS Integers

CONSTANTS
  Heights,    \* what the parent's client area may measure; 0 when it is minimized
  MousePos,   \* where the mouse may be, in the parent's coordinates
  Border,     \* both borders that on_wm_create sets: 30
  Magnet,     \* and the width of their magnetic zone: 15
  Half,       \* half of the bar's thickness: 4
  MaxInputs   \* bound: what the user and the owner do

VARIABLES
  height,   \* the parent's client area
  esd,      \* the bar's ESDATA
  bar,      \* its window: y and cy
  layout,   \* the windows above and below it, as the parent has placed them
  posted,   \* WM_SIZE messages in the parent's queue
  capture,  \* the mouse is captured, for the bar's window
  down,     \* mouse buttons held down
  inputs

vars == <<height, esd, bar, layout, posted, capture, down, inputs>>

Buttons == {"left", "right"}
Keys == {"VK_UP", "VK_DOWN", "VK_PRIOR", "VK_NEXT"}

ASSUME SplitConstantsOK ==
  Heights \subseteq Nat /\ MousePos \subseteq Int /\ {Border, Magnet, Half, MaxInputs} \subseteq Nat

Input == inputs < MaxInputs /\ inputs' = inputs + 1

---------------------------------------------------------------------------
(* The bar's data. *)

\* es_SetBorder with the two constants that a horizontal bar listens to.
SetBorder(e, which, width) ==
  [e EXCEPT !.TLBorder = IF which \in {"ESB_TOP", "ESB_ALL"} THEN width ELSE @,
            !.BRBorder = IF which \in {"ESB_BOTTOM", "ESB_ALL"} THEN width ELSE @]

SetDocking(e, width, on) == [e EXCEPT !.Dock = on, !.MagBorder = IF on THEN width ELSE 0]

\* es_NewWindow, for a bar with ES_TRACK and ES_DOCK whose middle is at pos.
NewWindow(pos) ==
  [Position |-> pos, Undo |-> pos, TLBorder |-> 0, BRBorder |-> 0, MagBorder |-> 10,
   Captured |-> FALSE, Focused |-> FALSE, Track |-> TRUE, Dock |-> TRUE, KBMove |-> TRUE]

\* What on_wm_create makes of it.
Create(pos) ==
  SetDocking(SetBorder(SetBorder(NewWindow(pos), "ESB_TOP", Border), "ESB_BOTTOM", Border), Magnet, TRUE)

\* Mutant: the magnetic zone of the far border is forgotten.
Checked_NearOnly(e, h, pos) ==
  LET mb   == IF e.Dock THEN e.MagBorder ELSE 0
      pos1 == IF pos < e.TLBorder + mb THEN e.TLBorder ELSE pos
  IN  IF pos1 > h - e.BRBorder THEN h - e.BRBorder ELSE pos1

\* es_CheckBorders: the far border is looked at last, and wins where both are near.
Checked(e, h, pos) ==
  LET mb   == IF e.Dock THEN e.MagBorder ELSE 0
      pos1 == IF pos < e.TLBorder + mb THEN e.TLBorder ELSE pos
  IN  IF pos1 > h - e.BRBorder - mb THEN h - e.BRBorder ELSE pos1

CheckBorders(e, h, pos) == [e EXCEPT !.Position = Checked(e, h, pos)]

\* Mutant: the position is taken to be the window's edge.
UpdatePosition_Edge(e, window) == [e EXCEPT !.Position = window.y]

\* es_UpdatePosition, when the bar's window was moved (WM_WINDOWPOSCHANGED).
UpdatePosition(e, window) == [e EXCEPT !.Position = window.y + window.cy \div 2]

\* Mutant: out of a dock one pixel at a time, like everywhere else.
KeyTarget_NoJump(e, h, key) ==
  CASE key = "VK_UP"    -> e.Position - 1
    [] key = "VK_DOWN"  -> e.Position + 1
    [] key = "VK_PRIOR" -> 0
    [] key = "VK_NEXT"  -> h

\* es_HandleKeyboard: a key leaves a docked position with a jump out of the magnetic zone.
KeyTarget(e, h, key) ==
  LET mb == IF e.Dock THEN e.MagBorder + 1 ELSE 1
  IN  CASE key = "VK_UP"    -> e.Position - (IF e.Position = h - e.BRBorder THEN mb ELSE 1)
        [] key = "VK_DOWN"  -> e.Position + (IF e.Position = e.TLBorder THEN mb ELSE 1)
        [] key = "VK_PRIOR" -> 0
        [] key = "VK_NEXT"  -> h

---------------------------------------------------------------------------
(* The parent's WM_SIZE. *)

\* Mutant: the parent is told twice.
NotifyParent_Twice == posted' = posted + 2

\* The parent is told by a message, not by a call.
NotifyParent == posted' = posted + 1

\* ESM_GETPOS, MoveWindow, GetChildRect, SetWindowPos for the list and for the log.
OnSize(h) ==
  /\ LET e == CheckBorders(esd, h, esd.Position)
     IN  /\ bar' = [y |-> e.Position - Half, cy |-> 2 * Half]
         /\ esd' = UpdatePosition(e, bar')
  /\ layout' = [list |-> bar'.y, logTop |-> bar'.y + bar'.cy, logHeight |-> h - (bar'.y + bar'.cy)]

\* Mutant: the parent moves the bar with ESM_SETPOS, against the header's warning.
HandleSize_SetPos ==
  /\ posted > 0 /\ UNCHANGED posted
  /\ OnSize(height)
  /\ UNCHANGED <<height, capture, down, inputs>>

HandleSize ==
  /\ posted > 0 /\ posted' = posted - 1
  /\ OnSize(height)
  /\ UNCHANGED <<height, capture, down, inputs>>

\* The user sizes or minimizes the window: WM_SIZE is sent, not posted.
Resize ==
  /\ Input
  /\ height' \in Heights
  /\ OnSize(height')
  /\ UNCHANGED <<posted, capture, down>>

---------------------------------------------------------------------------
(* The bar's messages. *)

\* es_MoveSplitter
MoveSplitter(e, pos) ==
  /\ esd' = CheckBorders(e, height, pos)
  /\ NotifyParent
  /\ UNCHANGED <<height, bar, layout>>

SetData(e) == esd' = e /\ UNCHANGED <<height, bar, layout, posted>>

\* The bar gets the mouse's messages when the mouse is over what shows of it, or captured for it.
Gets(m) == capture \/ m \in {n \in bar.y..(bar.y + bar.cy - 1) : 0 <= n /\ n < height}

\* es_SetCapture: a button is pressed on the bar (or a second one, during a drag).
ButtonDown(b) ==
  /\ Input /\ b \notin down /\ down' = down \cup {b}
  /\ \E m \in MousePos \cup {esd.Position} : Gets(m)
  /\ SetData([esd EXCEPT !.Undo = esd.Position, !.Captured = TRUE])
  /\ capture' = TRUE

\* Mutant: the mouse is not released.
ReleaseCapture_Keeps(m) == MoveSplitter([esd EXCEPT !.Captured = FALSE], m) /\ UNCHANGED capture

\* es_ReleaseCapture, when the bar was being dragged.
ReleaseCapture(m) == MoveSplitter([esd EXCEPT !.Captured = FALSE], m) /\ capture' = FALSE

\* Any button ends the drag; the message may also go to another window.
ButtonUp(b) ==
  /\ Input /\ b \in down /\ down' = down \ {b}
  /\ \E m \in MousePos \cup {esd.Position} :
       \/ Gets(m) /\ esd.Captured /\ ReleaseCapture(m)
       \/ (~Gets(m) \/ ~esd.Captured) /\ SetData(esd) /\ UNCHANGED capture

\* es_HandleMouseMoves
MouseMove ==
  /\ Input
  /\ esd.Captured /\ esd.Track
  /\ \E m \in MousePos \cup {esd.Position} : Gets(m) /\ MoveSplitter(esd, m)
  /\ UNCHANGED <<capture, down>>

\* Another window takes the mouse, or is activated.  The bar's WM_CAPTURECHANGED is not looked at.
LoseCapture ==
  /\ Input
  /\ capture /\ capture' = FALSE
  /\ UNCHANGED <<height, esd, bar, layout, posted, down>>

\* es_StopTracking
StopTracking ==
  /\ Input
  /\ esd.Captured /\ capture' = FALSE
  /\ SetData([esd EXCEPT !.Captured = FALSE]) /\ UNCHANGED down

\* es_GainFocus, es_LoseFocus
Focus ==
  /\ Input
  /\ \E focused \in BOOLEAN : SetData([esd EXCEPT !.Focused = focused])
  /\ UNCHANGED <<capture, down>>

Key(k) ==
  /\ Input
  /\ height > 0 /\ esd.Focused /\ esd.KBMove
  /\ MoveSplitter(esd, KeyTarget(esd, height, k))
  /\ UNCHANGED <<capture, down>>

\* ESM_SETPOS; ESM_UNDO
SetPos == Input /\ (\E m \in MousePos : MoveSplitter(esd, m)) /\ UNCHANGED <<capture, down>>
HandleUndo == Input /\ MoveSplitter(esd, esd.Undo) /\ UNCHANGED <<capture, down>>

\* ESM_SETTRACKING; ESM_SETKBMOVE
SetTracking ==
  /\ Input
  /\ \/ \E on \in BOOLEAN : SetData([esd EXCEPT !.Track = on])
     \/ \E on \in BOOLEAN : SetData([esd EXCEPT !.KBMove = on])
  /\ UNCHANGED <<capture, down>>

---------------------------------------------------------------------------

\* The main window after its first WM_SIZE.
Init ==
  /\ height \in Heights
  /\ \E pos \in MousePos :
       LET e == CheckBorders(Create(pos), height, pos)
       IN  /\ esd = e /\ bar = [y |-> e.Position - Half, cy |-> 2 * Half]
           /\ layout = [list |-> bar.y, logTop |-> bar.y + bar.cy, logHeight |-> height - (bar.y + bar.cy)]
  /\ posted = 0 /\ capture = FALSE /\ down = {} /\ inputs = 0

Next ==
  \/ HandleSize \/ Resize
  \/ \E b \in Buttons : ButtonDown(b) \/ ButtonUp(b)
  \/ MouseMove \/ LoseCapture \/ StopTracking
  \/ Focus \/ \E k \in Keys : Key(k)
  \/ SetPos \/ HandleUndo \/ SetTracking

\* The window's thread takes its messages.
Spec == Init /\ [][Next]_vars /\ WF_vars(HandleSize)
---------------------------------------------------------------------------
(* Properties. *)

\* Every variable keeps its type: ESDATA and the windows' places.
SplitTypeOK ==
  /\ height \in Heights
  /\ esd \in [Position : Int, Undo : Int, TLBorder : Nat, BRBorder : Nat, MagBorder : Nat,
              Captured : BOOLEAN, Focused : BOOLEAN, Track : BOOLEAN, Dock : BOOLEAN, KBMove : BOOLEAN]
  /\ bar \in [y : Int, cy : Nat]
  /\ layout \in [list : Int, logTop : Int, logHeight : Int]
  /\ posted \in 0..MaxInputs /\ inputs \in 0..MaxInputs
  /\ capture \in BOOLEAN /\ down \in SUBSET Buttons

\* Between the borders there is room for both magnetic zones.
Room == height >= esd.TLBorder + esd.BRBorder + 2 * esd.MagBorder

\* With no message on its way the list, the bar and the log share the window without a gap or
\* an overlap, and the bar is where its data says; through any number of moves it does not drift.
LayoutFollows ==
  posted = 0 =>
    /\ bar.y + Half = esd.Position
    /\ layout.list = bar.y /\ layout.logTop = bar.y + bar.cy
    /\ layout.logTop + layout.logHeight = height

\* Whatever moved the bar or the window, the bar lies on a border or outside of both zones.
DockedOrFree ==
  Room => \/ esd.Position \in {esd.TLBorder, height - esd.BRBorder}
          \/ esd.TLBorder + esd.MagBorder <= esd.Position /\ esd.Position <= height - esd.BRBorder - esd.MagBorder

\* An arrow key always moves the bar its way, until the border at the end: no dock holds it.
ArrowsMove ==
  [][Room =>
       /\ Key("VK_UP")   => esd'.Position < esd.Position \/ esd.Position = esd.TLBorder
       /\ Key("VK_DOWN") => esd'.Position > esd.Position \/ esd.Position = height - esd.BRBorder]_vars

\* The mouse is captured only for a drag that the bar knows of and with a button held down, so
\* that some message can end it.
CaptureIsDrag == capture => esd.Captured /\ down # {}

\* The header warns of WM_SIZE handlers that make the bar post WM_SIZE: the messages end here,
\* when the user stops.
SizesSettle == <>[](posted = 0)
===========================================================================
