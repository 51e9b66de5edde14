------------------------------- MODULE Pointer -------------------------------
(***************************************************************************)
(* The pointer: which client holds which buttons, and what a drag does to  *)
(* the window it carries.  Buttons pass the compositor's modal screens     *)
(* before they reach Smithay's seat, whose grab (the default one, a click, *)
(* a menu, or a drag of the compositor's) decides who hears of them; a     *)
(* session lock, a portal's picker, a gesture on a touchpad and the client *)
(* itself may replace or end that grab at any time.                        *)
(*                                                                         *)
(* There is one window, a layer surface and a locker.  Smithay's seat and  *)
(* its own grabs are modelled as the compositor's code relies on them.     *)
(***************************************************************************)
LOCAL INSTANCE Naturals

CONSTANTS Buttons,     \* of the mouse
          Primary,     \* the left one
          NoButton     \* of a grab without one
ASSUME PointerAssumption == Primary \in Buttons /\ NoButton \notin Buttons

VARIABLES pressed,     \* the buttons that are physically down
          held,        \* pressed_buttons of the seat
          over,        \* what lies under the cursor
          focus, heardDown, \* the client that has the pointer, and the buttons it was told
          eatReleases, \* suppressed_pointer_buttons
          modal,       \* "locked", "picker", "peek", or "none"
          seatGrab,    \* the seat's grab
          gesture,     \* compositor_gesture is a ModifierMove
          preview,     \* floating_dragging, classic_tile_drag, the drag preview
          carried,     \* the window is where a drop may still change it
          resize,      \* ResizeSurfaceState of the window
          dropped,     \* the last step committed a drop (history)
          eaten,       \* buttons whose release was swallowed (history)
          again        \* a resize that was asked for twice (history)

ptVars == <<pressed, held, over, focus, heardDown, eatReleases, modal, seatGrab, gesture,
            preview, carried, resize, dropped, eaten, again>>

Desktop == {"window", "layer", "nothing"}
\* A floater moved, a tile or an Ocean tile moved, a floater resized, Ocean's
\* canvas panned, a split, column or grid line dragged.
Drags == {"float", "tile", "resize", "pan", "split"}
Moves == {"float", "tile"}
Ungrabbed == [kind |-> "none", button |-> NoButton, by |-> "nobody"]
Grab(kind, b, by) == [kind |-> kind, button |-> b, by |-> by]

PtInit ==
  /\ pressed = {} /\ held = {} /\ over = "nothing" /\ focus = "nothing" /\ heardDown = {}
  /\ eatReleases = {} /\ modal = "none" /\ seatGrab = Ungrabbed /\ gesture = FALSE
  /\ preview = FALSE /\ carried = TRUE /\ resize = "idle"
  /\ dropped = FALSE /\ eaten = {} /\ again = FALSE

-----------------------------------------------------------------------------
(* Grabs and focus *)

\* The pointer enters another client, which knows of no buttons yet.
Enter(client, buttons) ==
  focus' = client /\ heardDown' = IF client = focus THEN buttons ELSE {}

\* The unset callbacks: only a completed move commits, and only to a window that
\* is still where the drag took it from.
DropFloat(completed) == completed /\ carried
\* Mutant: the drop trusts that the tile is still where it was.
DropTileAnyway(completed) == completed
DropTile(completed) == completed /\ carried
Left(completed) ==
  /\ dropped' = (\/ seatGrab.kind = "float" /\ DropFloat(completed)
                 \/ seatGrab.kind = "tile" /\ DropTile(completed))
  /\ preview' = (preview /\ seatGrab.kind \notin Moves)
\* Mutant: unset leaves the resizing state to the button handler.
LeftResizeMarked == resize
LeftResize == IF seatGrab.kind = "resize" THEN "idle" ELSE resize

Ungrab(completed) ==
  /\ Left(completed) /\ seatGrab' = Ungrabbed /\ again' = FALSE
  /\ resize' = LeftResize

\* A drag takes the grab over; ResizeSurfaceGrab::start marks the window before
\* the grab it replaces is unset.
StartDrag(kind, b, by) ==
  /\ Left(FALSE)
  /\ seatGrab' = Grab(kind, b, by)
  /\ again' = (kind = "resize" /\ seatGrab.kind = "resize")
  /\ resize' = IF seatGrab.kind = "resize" THEN "idle" ELSE IF kind = "resize" THEN "resizing" ELSE resize
  /\ carried' = TRUE
  /\ Enter("nothing", {})

UnderCursor == IF modal \in {"picker", "peek"} THEN "nothing" ELSE over
SameGrab == UNCHANGED <<seatGrab, preview, resize, again>> /\ dropped' = FALSE

\* The button handler of a drag after its last button: a resized window settles
\* with its next commit.
DragEnds ==
  /\ Left(TRUE) /\ seatGrab' = Ungrabbed /\ again' = FALSE
  /\ resize' = IF seatGrab.kind = "resize" /\ carried THEN "waiting" ELSE LeftResize

\* A button reaches the seat and its grab.  A drag ends as soon as the seat does
\* not take its own button for pressed.
Dispatch(b, down) ==
  LET now == IF down THEN held \cup {b} ELSE held \ {b}
      heard == IF down /\ focus # "nothing" THEN heardDown \cup {b} ELSE heardDown \ {b}
  IN
  /\ held' = now
  /\ \/ /\ seatGrab.kind = "none" /\ Enter(focus, heard)
        /\ seatGrab' = IF down THEN Grab("click", b, focus) ELSE Ungrabbed
        /\ dropped' = FALSE /\ UNCHANGED <<preview, resize, again>>
     \/ seatGrab.kind = "click" /\ now # {} /\ Enter(focus, heard) /\ SameGrab
     \/ seatGrab.kind = "click" /\ now = {} /\ Enter(UnderCursor, heard) /\ Ungrab(FALSE)
     \/ seatGrab.kind = "menu" /\ Enter(focus, heard) /\ (SameGrab \/ Ungrab(FALSE))
     \/ seatGrab.kind \in Drags /\ seatGrab.button \in now /\ Enter(focus, {}) /\ SameGrab
     \/ seatGrab.kind \in Drags /\ seatGrab.button \notin now /\ Enter(UnderCursor, {}) /\ DragEnds
  /\ carried' = (carried \/ seatGrab'.kind \notin Drags)

-----------------------------------------------------------------------------
(* The button handler *)

\* Compositor drags take the grab without telling the seat of the press.
DragTile(b) == over = "window" /\ b = Primary /\ StartDrag("tile", b, "button")
DragFloat(b) ==
  /\ over = "window"
  /\ \/ b = Primary /\ StartDrag("float", b, "button")
     \/ b # Primary /\ StartDrag("resize", b, "button")
DragEdge(b) == over = "window" /\ b = Primary /\ StartDrag("resize", b, "button")
DragTileBody(b) == over = "window" /\ b # Primary /\ StartDrag("split", b, "button")
DragCanvas(b) == over = "nothing" /\ StartDrag("pan", b, "button")
DragSplit(b) == over = "nothing" /\ b = Primary /\ StartDrag("split", b, "button")
DragFrom(b) ==
  \/ DragTile(b) \/ DragFloat(b) \/ DragEdge(b) \/ DragTileBody(b) \/ DragCanvas(b) \/ DragSplit(b)

Idle == UNCHANGED <<held, focus, heardDown, carried>> /\ SameGrab

PressButton(b) ==
  /\ b \notin pressed
  /\ pressed' = pressed \cup {b} /\ eaten' = eaten \ {b}
  /\ UNCHANGED <<over, gesture>>
  /\ \/ /\ modal \in {"locked", "none"} /\ Dispatch(b, TRUE)
        /\ eatReleases' = eatReleases \ {b} /\ UNCHANGED modal
     \/ /\ modal = "picker" /\ Idle
        /\ modal' \in {"picker", "none"} /\ eatReleases' = eatReleases \ {b}
     \/ /\ modal = "peek" /\ Idle
        /\ modal' = "none" /\ eatReleases' = eatReleases \cup {b}
     \/ /\ modal = "none" /\ seatGrab.kind = "none" /\ DragFrom(b)
        /\ eatReleases' = eatReleases \ {b} /\ UNCHANGED <<held, modal>>

ReleaseButton(b) ==
  /\ b \in pressed
  /\ pressed' = pressed \ {b} /\ eatReleases' = eatReleases \ {b}
  /\ UNCHANGED <<over, gesture, modal>>
  /\ IF b \in eatReleases \/ modal \in {"picker", "peek"}
     THEN Idle /\ eaten' = eaten \cup ({b} \cap (held \cup {seatGrab.button}))
     ELSE Dispatch(b, FALSE) /\ UNCHANGED eaten

-----------------------------------------------------------------------------
(* Motion, gestures and requests *)

\* Clicks hold on to their client and drags to none; a drag shows its preview.
FollowsTo(client) ==
  CASE seatGrab.kind = "click" -> focus
    [] seatGrab.kind \in Drags -> "nothing"
    [] modal \in {"picker", "peek"} -> "nothing"
    [] OTHER -> client
Motion(client) ==
  /\ client \in (IF modal = "locked" THEN {"locker", "nothing"} ELSE Desktop)
  /\ over' = client /\ Enter(FollowsTo(client), heardDown)
  /\ preview' = (preview \/ seatGrab.kind = "float" \/ (seatGrab.kind = "tile" /\ carried))
  /\ dropped' = FALSE
  /\ UNCHANGED <<pressed, held, eatReleases, modal, seatGrab, gesture, carried, resize, eaten, again>>

\* Two fingers and the modifier carry a window as the left button would.
SwipeBegin(kind) ==
  /\ ~gesture /\ modal # "locked" /\ seatGrab.kind = "none"
  /\ \/ over = "window" /\ kind \in Moves
     \/ over = "nothing" /\ kind = "pan"
  /\ gesture' = TRUE
  /\ StartDrag(kind, Primary, "gesture")
  /\ UNCHANGED <<pressed, held, over, eatReleases, modal, eaten>>

SwipeEnd(cancelled) ==
  /\ gesture /\ gesture' = FALSE
  /\ Ungrab(seatGrab.by = "gesture" /\ ~cancelled /\ modal # "locked")
  /\ IF seatGrab = Ungrabbed THEN UNCHANGED <<focus, heardDown>> ELSE Enter(UnderCursor, heardDown)
  /\ carried' = TRUE
  /\ UNCHANGED <<pressed, held, over, eatReleases, modal, eaten>>

\* move_request and resize_request, on the grab of a click on that window.
ClientDrags(kind) ==
  /\ seatGrab.by \in {"window", "client"} /\ kind \in {"float", "resize"}
  /\ StartDrag(kind, seatGrab.button, "client")
  /\ UNCHANGED <<pressed, held, over, eatReleases, modal, gesture, eaten>>

OpenMenu ==
  /\ seatGrab.kind = "click" /\ seatGrab.by = "window"
  /\ seatGrab' = Grab("menu", seatGrab.button, "menu")
  /\ UNCHANGED <<pressed, held, over, focus, heardDown, eatReleases, modal, gesture, preview,
                 carried, resize, eaten, again>> /\ dropped' = FALSE
CloseMenu ==
  /\ seatGrab.kind = "menu"
  /\ Ungrab(FALSE) /\ Enter(UnderCursor, heardDown)
  /\ UNCHANGED <<pressed, held, over, eatReleases, modal, gesture, carried, eaten>>

-----------------------------------------------------------------------------
(* The rest of the compositor *)

\* The window is hidden, unmapped, made fullscreen; or shown again.
WindowLeaves ==
  /\ seatGrab.kind \in Moves \cup {"resize"} /\ carried' = ~carried
  /\ UNCHANGED <<pressed, held, over, focus, heardDown, eatReleases, modal, seatGrab, gesture,
                 preview, resize, eaten, again>> /\ dropped' = FALSE
WindowCommits ==
  /\ resize = "waiting" /\ resize' = "idle"
  /\ UNCHANGED <<pressed, held, over, focus, heardDown, eatReleases, modal, seatGrab, gesture,
                 preview, carried, eaten, again>> /\ dropped' = FALSE

OpenPeek ==
  /\ modal = "none" /\ seatGrab.kind \in {"none", "menu"}
  /\ modal' = "peek" /\ UNCHANGED <<pressed, over, eatReleases, gesture, eaten>> /\ Idle
OpenPicker ==
  /\ modal = "none"
  /\ modal' = "picker" /\ UNCHANGED <<pressed, over, eatReleases, gesture, eaten>> /\ Idle
CloseModal ==
  /\ modal \in {"peek", "picker"}
  /\ modal' = "none" /\ UNCHANGED <<pressed, over, eatReleases, gesture, eaten>> /\ Idle

Lock ==
  /\ modal # "locked" /\ modal' = "locked"
  /\ Ungrab(FALSE) /\ carried' = TRUE
  /\ over' \in {"locker", "nothing"} /\ Enter(over', heardDown)
  /\ UNCHANGED <<pressed, held, eatReleases, gesture, eaten>>
Unlock ==
  /\ modal = "locked" /\ modal' = "none"
  /\ over' \in Desktop /\ Enter(IF seatGrab.kind = "click" THEN focus ELSE over', heardDown)
  /\ SameGrab /\ UNCHANGED <<pressed, held, eatReleases, gesture, carried, eaten>>

PtNext ==
  \/ \E b \in Buttons : PressButton(b) \/ ReleaseButton(b)
  \/ \E client \in Desktop \cup {"locker"} : Motion(client)
  \/ \E kind \in Drags : SwipeBegin(kind) \/ ClientDrags(kind)
  \/ \E cancelled \in BOOLEAN : SwipeEnd(cancelled)
  \/ OpenMenu \/ CloseMenu \/ WindowLeaves \/ WindowCommits
  \/ OpenPeek \/ OpenPicker \/ CloseModal \/ Lock \/ Unlock

PtSpec == PtInit /\ [][PtNext]_ptVars

-----------------------------------------------------------------------------
\* No client is left with a button that is up, and no drag without the button
\* or the fingers that carry it: previews and the resizing state of a window
\* end with their grab, whoever ended that.  Excepted are buttons whose release
\* the picker, or the minimap over a menu, swallowed, and a resize whose client
\* asked twice.
PointerSettled ==
  /\ heardDown \cup held \subseteq pressed \cup eaten
  /\ seatGrab.kind \in Drags =>
       CASE seatGrab.by = "gesture" -> gesture
         [] seatGrab.by = "button" -> seatGrab.button \in pressed \cup eaten
         [] OTHER -> pressed \cup eaten # {}
  /\ preview => seatGrab.kind \in Moves
  /\ resize = "resizing" => seatGrab.kind = "resize"
  /\ seatGrab.kind = "resize" /\ ~again => resize = "resizing"
  /\ eatReleases \subseteq pressed

\* A drop changes the layout only when the user lets go on an unlocked desktop:
\* not when a lock, a cancelled gesture, a menu or another drag ends the grab,
\* nor once the window has left.
DropsAreMeant ==
  [][dropped' => /\ modal # "locked" /\ modal' # "locked"
                 /\ pressed' # pressed \/ gesture' # gesture
                 /\ preview' = FALSE /\ carried]_ptVars
=============================================================================
