----------------------------- MODULE ImGuiInput -----------------------------
(***************************************************************************)
(* The input half of src/src/imgui_manager.cpp: the callbacks of GLFW,     *)
(* which src/demo/main.cpp forwards while it polls events, and             *)
(* begin_frame, which hands what they left to ImGui.  Positions are the    *)
(* horizontal pixels of a screen that the window lies on.                  *)
(***************************************************************************)
EXTENDS Integers, FiniteSets, FiniteSetsExt

CONSTANTS
  Buttons,      \* mouse buttons; FirstButton is the one that drags
  FirstButton,
  CtrlKeys,     \* the keys of a modifier, left and right
  ScreenWidth,
  WindowX,      \* where the window begins
  MaxScroll,    \* bound on the scrolling that waits
  MaxWraps      \* bound on the wraps of a drag

InputAssumption ==
  /\ FirstButton \in Buttons
  /\ ScreenWidth \in Nat /\ ScreenWidth > 3 /\ WindowX \in 0 .. ScreenWidth - 1

VARIABLES
  focused,   \* GLFW: the window has the focus
  held,      \* GLFW: the buttons that are down now
  keys,      \* GLFW: the keys that are down now
  x,         \* GLFW: the position of the cursor on the screen
  latch,     \* the buttons with mouse_pressed
  wheel,     \* mouse_wheel
  keysDown,  \* io.KeysDown
  ctrl,      \* io.KeyCtrl; io.KeyShift and io.KeyAlt go the same way
  down,      \* the buttons with io.MouseDown
  mouse,     \* io.MousePos
  clicked,   \* io.MouseClickedPos[0]
  pressed,   \* history: the buttons pressed since the last frame
  before,    \* history: what the last frame found: held, pressed
  scrolled,  \* history: the scrolling since the last frame
  seen,      \* history: io.MouseWheel less the scrolling before the frame
  travel,    \* history: how far the mouse moved since the click
  tracked,   \* history: the window had the focus ever since the click
  wraps      \* history: how often a drag went around the screen since the click

device == <<focused, held, keys, x>>
io == <<keysDown, ctrl, down, mouse, clicked>>
history == <<pressed, before, scrolled, seen, travel, tracked, wraps>>
vars == <<device, io, latch, wheel, history>>

Init ==
  /\ focused = TRUE /\ held = {} /\ keys = {} /\ x = WindowX
  /\ latch = {} /\ wheel = 0
  /\ keysDown = {} /\ ctrl = FALSE /\ down = {}
  /\ mouse = -1 /\ clicked = 0
  /\ pressed = {} /\ before = [held |-> {}, pressed |-> {}]
  /\ scrolled = 0 /\ seen = 0 /\ travel = 0 /\ tracked = FALSE /\ wraps = 0

----------------------------------------------------------------------------
(* Events.                                                                 *)

\* Mutation: a release takes the press back.
LatchCleared(b, action) == IF action = "press" THEN latch \union {b} ELSE latch \ {b}

Latched(b, action) == IF action = "press" THEN latch \union {b} ELSE latch

\* on_mouse
OnMouse(b, action) ==
  /\ focused
  /\ (b \in held) = (action = "release")
  /\ held' = IF action = "press" THEN held \union {b} ELSE held \ {b}
  /\ latch' = Latched(b, action)
  /\ pressed' = IF action = "press" THEN pressed \union {b} ELSE pressed
  /\ UNCHANGED <<focused, keys, x, io, wheel, before, scrolled, seen, travel, tracked, wraps>>

Modifier(down_) == CtrlKeys \intersect down_ # {}

\* on_key; a repeated key changes nothing.
OnKey(k, action) ==
  /\ focused
  /\ (k \in keys) = (action = "release")
  /\ keys' = IF action = "press" THEN keys \union {k} ELSE keys \ {k}
  /\ keysDown' = IF action = "press" THEN keysDown \union {k} ELSE keysDown \ {k}
  /\ ctrl' = Modifier(keysDown')
  /\ UNCHANGED <<focused, held, x, down, mouse, clicked, latch, wheel, history>>

\* on_scroll
OnScroll(offset) ==
  /\ wheel + offset \in -MaxScroll .. MaxScroll
  /\ wheel' = wheel + offset
  /\ scrolled' = scrolled + offset
  /\ UNCHANGED <<device, io, latch, pressed, before, seen, travel, tracked, wraps>>

MoveMouse(to) ==
  /\ focused /\ x' = to
  /\ travel' = IF down = {} THEN 0 ELSE travel + to - x
  /\ UNCHANGED <<focused, held, keys, io, latch, wheel, pressed, before, scrolled, seen,
                 tracked, wraps>>

\* GLFW releases, with the callbacks, what was held when the focus goes.
Focus ==
  /\ focused' = ~focused
  /\ held' = {} /\ keys' = {} /\ keysDown' = {} /\ ctrl' = FALSE
  /\ tracked' = FALSE
  /\ UNCHANGED <<x, down, mouse, clicked, latch, wheel, pressed, before, scrolled, seen,
                 travel, wraps>>

----------------------------------------------------------------------------
(* begin_frame.                                                            *)

\* A drag that reaches an edge goes on from the other side, and so does the
\* place where it began.
Wrap(dragging) ==
  IF ~dragging THEN [x |-> x, by |-> 0, n |-> 0]
  ELSE IF x <= 0 THEN [x |-> ScreenWidth, by |-> ScreenWidth, n |-> 1]
  ELSE IF x >= ScreenWidth - 1 THEN [x |-> 1, by |-> -ScreenWidth, n |-> 1]
  ELSE [x |-> x, by |-> 0, n |-> 0]

\* ImGui knows a drag by the buttons of the frame before and by a threshold.
\* The system keeps the cursor on the screen, GLFW moves it with focus only.
\* NewFrame notes where a button went down.
BeginFrame(dragging) ==
  LET wrap == Wrap(dragging)
      to == IF focused THEN Min({wrap.x, ScreenWidth - 1}) ELSE x
      click == FirstButton \in down' \ down
  IN  /\ dragging => FirstButton \in down
      /\ wraps + wrap.n <= MaxWraps
      /\ x' = to
      /\ mouse' = IF focused THEN to - WindowX ELSE -1
      /\ down' = latch \union held
      /\ latch' = {}
      /\ wheel' = 0
      /\ clicked' = IF click THEN mouse' ELSE clicked + wrap.by
      /\ before' = [held |-> held, pressed |-> pressed]
      /\ pressed' = {}
      /\ seen' = wheel - scrolled
      /\ scrolled' = 0
      /\ travel' = IF click \/ down' = {} THEN 0 ELSE travel
      /\ tracked' = IF click THEN focused ELSE tracked
      /\ wraps' = IF click \/ down' = {} THEN 0 ELSE wraps + wrap.n
      /\ UNCHANGED <<focused, held, keys, keysDown, ctrl>>

Next ==
  \/ \E b \in Buttons, action \in {"press", "release"} : OnMouse(b, action)
  \/ \E k \in CtrlKeys, action \in {"press", "release"} : OnKey(k, action)
  \/ \E offset \in {-1, 1} : OnScroll(offset)
  \/ \E to \in 0 .. ScreenWidth - 1 : MoveMouse(to)
  \/ Focus
  \/ \E dragging \in BOOLEAN : BeginFrame(dragging)

Spec == Init /\ [][Next]_vars

----------------------------------------------------------------------------
\* A button is down in a frame exactly if it is held or was pressed since the
\* frame before, however short the press ("so we don't miss click-release
\* events that are shorter than 1 frame", begin_frame).
ClicksSeen == down = before.held \union before.pressed

\* Every frame gets all of the scrolling since the frame before, once.
WheelSeen == seen = 0 /\ wheel = scrolled

\* The modifier holds as long as one of its keys does, also when the other is
\* released (on_key).
ModifierHeld == ctrl = (keys # {})

\* As long as a button is down, what is dragged has moved as far as the mouse
\* since the click, give or take two pixels for every time around the screen.
DragKept ==
  (FirstButton \in down /\ tracked /\ mouse = x - WindowX) =>
    (mouse - clicked) - travel \in -(2 * wraps) .. 2 * wraps
=============================================================================
