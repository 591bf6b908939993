---------------------------- MODULE WindowPointer ----------------------------
(***************************************************************************)
(* From the mouse button and the pen to a click of the core, in the GLFW   *)
(* window.  Main's event loop queues the button events it polls, handles   *)
(* one of them an iteration, and posts what it finds to one of the window  *)
(* parts; the worker runs the handlers of the toolbar and the modebar,     *)
(* which decide what is a click, and the clicks.                           *)
(*                                                                         *)
(* Positions are pixels of a window that is neither resized nor closed.    *)
(* Only the redraws that LocateWinPart depends on are kept, and the keypad *)
(* is left out: it is never painted, so that it is never located.  A build *)
(* with assertions is modelled: one that fails ends the process.  The      *)
(* mouse may be pressed anywhere: while another of its buttons is down     *)
(* GLFW reports it outside the window too.                                 *)
(***************************************************************************)
EXTENDS Integers, Sequences, FiniteSets

CONSTANTS
    Width, Height,      \* of the window
    BarHeight,          \* Window::TOOLBAR_HEIGHT
    IconWidth,          \* Window::TOOL_ICON_WIDTH
    ItemSize,           \* CoreModebar::kItemWidth, kItemHeight
    KeypadHeight,       \* CoreModebar::kKeypadHeight
    SizeRange,          \* 2^w, w the width of size_t
    Points, PenPoints,  \* positions the mouse and the pen may take
    Modes,              \* Modebar2Core::Mode, a sequence down the modebar
    NoMode,             \* Mode::NONE
    Tool,               \* ClickableTool
    Apps,               \* the modes that are apps
    Launched,           \* the app that is active at first
    AppTools,           \* activeToolsMask of an app: its tools right to left
    Repeating,          \* repeatingToolsMask of an app
    MaxPresses,         \* bound on the presses of button and pen
    MaxEvents,          \* bound on pendingButtonEvents
    MaxJobs             \* bound on the jobs while main posts

ASSUME GeometryAssumption ==
    /\ {Width, Height, BarHeight, IconWidth, ItemSize, KeypadHeight,
        SizeRange} \subseteq Nat \ {0}
    /\ KeypadHeight <= ItemSize
    /\ Width < SizeRange
    /\ Points \subseteq Int \X Int
    /\ PenPoints \subseteq Points /\ PenPoints # {}
    /\ \A a \in Apps : IconWidth * Len(AppTools[a]) <= Width

ASSUME AppsAssumption ==
    /\ Modes \in Seq(Apps \cup {"DOODLER", "KEYPAD"})
    /\ Len(Modes) > 1
    /\ NoMode \notin Apps \cup {"DOODLER", "KEYPAD"}
    /\ Launched \in Apps /\ Apps \cap {"DOODLER", "KEYPAD"} = {}
    /\ AppTools \in [Apps -> Seq(Tool)]
    /\ Repeating \in [Apps -> SUBSET Tool]

ASSUME BoundsAssumption ==
    MaxPresses \in Nat /\ MaxEvents \in Nat /\ MaxJobs \in Nat \ {0}

VARIABLES
    at,             \* "poll" or "handle": where main is in the event loop
    mouse,          \* the left button is down (external)
    events,         \* pendingButtonEvents
    latestPointer,  \* b and wasPen of WindowGLFW::latestPointer
    latestPen,      \* position and pressure of WindowGLFW::latestPen
    activePart,     \* activeWinPart
    shown,          \* the parts with WinPart::active
    jobs,           \* Navitab::jobs
    activeApp,      \* Navitab::activeApp
    activeToolIds,  \* CoreToolbar
    pushed,         \* CoreToolbar::pushedToolIdx and longPressed
    mouseDownItem,  \* CoreModebar
    aborted,        \* an assertion has failed, or NONE has been selected
    presses,        \* how many presses so far
    seen            \* history: what the parts have seen of the gesture

window   == <<events, latestPointer, latestPen, activePart>>
devices  == <<mouse, presses>>
handlers == <<activeApp, activeToolIds, pushed, mouseDownItem, aborted, seen>>
vars     == <<at, devices, window, shown, jobs, handlers>>

Part   == {"CANVAS", "TOOLBAR", "MODEBAR", "DOODLER"}
NoPart == "nullptr"

Mouse(q, x, y, l) == [kind |-> "Mouse", part |-> q, x |-> x, y |-> y, l |-> l]
ToolClick(t)      == [kind |-> "ToolClick", tool |-> t]
AppSelect(m)      == [kind |-> "AppSelect", mode |-> m]
Plain(k)          == [kind |-> k]
PlainKind         == {"CanvasMouse", "DoodlerToggle", "KeypadToggle", "Redraw"}

Job ==
    [kind : {"Mouse"}, part : Part, x : Int, y : Int, l : BOOLEAN]
    \cup [kind : {"ToolClick"}, tool : Tool]
    \cup [kind : {"AppSelect"}, mode : Apps \cup {NoMode}]
    \cup [kind : PlainKind]

Event == [p : Points, b : BOOLEAN, wasPen : BOOLEAN]

WindowTyped ==
    /\ at \in {"poll", "handle"}
    /\ mouse \in BOOLEAN /\ presses \in 0..MaxPresses
    /\ events \in Seq(Event)
    /\ latestPointer \in [b : BOOLEAN, wasPen : BOOLEAN]
    /\ latestPen \in [p : PenPoints, pressed : BOOLEAN]
    /\ activePart \in Part \cup {NoPart}
    /\ shown \subseteq Part

HandlersTyped ==
    /\ jobs \in Seq(Job)
    /\ activeApp \in Apps /\ activeToolIds \in Seq(Tool)
    /\ pushed \in [idx : Nat \cup {-1}, long : BOOLEAN]
    /\ mouseDownItem \in Apps \cup {"DOODLER", "KEYPAD", NoMode}
    /\ aborted \in BOOLEAN
    /\ seen \in [held : SUBSET Part, clicks : 0..2,
                 item : Apps \cup {"DOODLER", "KEYPAD", NoMode}]

TypeOK == WindowTyped /\ HandlersTyped

(* The window is up: the first resizes have been run, of which only the    *)
(* doodler's redraw is left.  latestPen is not initialised, and its        *)
(* position not read before it is set.                                     *)
Init ==
    /\ at = "poll" /\ mouse = FALSE /\ presses = 0
    /\ events = <<>>
    /\ latestPointer = [b |-> FALSE, wasPen |-> FALSE]
    /\ \E garbage \in BOOLEAN :
          latestPen = [p |-> CHOOSE p \in PenPoints : TRUE, pressed |-> garbage]
    /\ activePart = NoPart
    /\ shown = Part \ {"DOODLER"}
    /\ jobs = <<Plain("Redraw")>>
    /\ activeApp = Launched /\ activeToolIds = AppTools[Launched]
    /\ pushed = [idx |-> -1, long |-> FALSE]
    /\ mouseDownItem = NoMode
    /\ aborted = FALSE
    /\ seen = [held |-> {}, clicks |-> 0, item |-> NoMode]

ModebarHeight == (Len(Modes) - 1) * ItemSize + KeypadHeight

(* Where the pen may be: the tablet is scaled to the window.               *)
InWindow(p) == p[1] \in 0..Width /\ p[2] \in 0..Height

LocateWinPart(p) ==
    CASE p[2] < BarHeight                                      -> "TOOLBAR"
      [] p[2] >= BarHeight /\ p[1] < ItemSize
            /\ p[2] < BarHeight + ModebarHeight                -> "MODEBAR"
      [] OTHER -> IF "DOODLER" \in shown THEN "DOODLER" ELSE "CANVAS"

(* PostMouseEvent to part q, whose left is 0.                              *)
PostMouseEvent(q, p, l) ==
    jobs' = Append(jobs, Mouse(q, p[1],
                               p[2] - (IF q = "TOOLBAR" THEN 0 ELSE BarHeight), l))

GetModeUnderMouse(x, y) ==
    IF x \in 0..(ItemSize - 1) /\ y \in 0..(ModebarHeight - 1)
    THEN Modes[1 + (y \div ItemSize)]
    ELSE NoMode

-----------------------------------------------------------------------------
(* Main: an iteration of WindowGLFW::EventLoop                             *)

Polling == at = "poll" /\ ~aborted /\ UNCHANGED <<latestPointer, activePart>>

Queue(p, b, wasPen) ==
    /\ Len(events) < MaxEvents
    /\ b => presses < MaxPresses
    /\ events' = Append(events, [p |-> p, b |-> b, wasPen |-> wasPen])
    /\ presses' = presses + (IF b THEN 1 ELSE 0)

(* A callback of glfwPollEvents.                                           *)
onMouse(p) ==
    /\ Polling
    /\ mouse' = ~mouse
    /\ Queue(p, ~mouse, FALSE)
    /\ UNCHANGED <<at, latestPen, shown, jobs, handlers>>

(* A slip, used only to see that a property notices it, as those below:    *)
(* GetPenState reports a pen that is away with no pressure.                *)
PenAwayReset ==
    /\ at' = "handle"
    /\ latestPen' = [latestPen EXCEPT !.pressed = FALSE]
    /\ UNCHANGED <<devices, events>>

(* There is no pen, or it is not in proximity: GetPenState leaves the      *)
(* pressure as it was.                                                     *)
PenAway ==
    /\ at' = "handle"
    /\ UNCHANGED <<devices, events, latestPen>>

PenNear(p, hard) ==
    /\ at' = "handle"
    /\ InWindow(p)
    /\ latestPen' = [p |-> p, pressed |-> hard]
    /\ IF hard # latestPen.pressed THEN Queue(p, hard, TRUE)
                                   ELSE UNCHANGED <<presses, events>>
    /\ UNCHANGED mouse

PollPenEvents ==
    /\ Polling
    /\ \/ PenAway
       \/ \E p \in PenPoints, hard \in BOOLEAN : PenNear(p, hard)
    /\ UNCHANGED <<shown, jobs, handlers>>

Press(m1) ==
    /\ m1.b /\ ~latestPointer.b
    /\ PostMouseEvent(LocateWinPart(m1.p), m1.p, TRUE)
    /\ activePart' = LocateWinPart(m1.p)

(* A slip: the release goes to the part under the pointer.                 *)
ReleaseUnderPointer(m1) ==
    /\ ~m1.b /\ latestPointer.b
    /\ PostMouseEvent(LocateWinPart(m1.p), m1.p, FALSE)
    /\ activePart' = NoPart

(* A slip: the part is not told of the release.                            *)
ReleaseUntold(m1) ==
    /\ ~m1.b /\ latestPointer.b
    /\ activePart' = NoPart
    /\ UNCHANGED jobs

Release(m1) ==
    /\ ~m1.b /\ latestPointer.b
    /\ PostMouseEvent(activePart, m1.p, FALSE)
    /\ activePart' = NoPart

(* Another device had been pressed or released already.                    *)
Overtaken(m1) == m1.b = latestPointer.b /\ UNCHANGED <<jobs, activePart>>

HandleEvent ==
    /\ events # <<>>
    /\ Press(Head(events)) \/ Release(Head(events)) \/ Overtaken(Head(events))
    /\ latestPointer' = [b |-> Head(events).b, wasPen |-> Head(events).wasPen]
    /\ events' = Tail(events)

(* The pointer may have moved while the button is down.                    *)
HandleHeld ==
    /\ events = <<>>
    /\ IF latestPointer.b
       THEN \E p \in IF latestPointer.wasPen THEN {latestPen.p} ELSE Points :
               PostMouseEvent(activePart, p, TRUE)
       ELSE UNCHANGED jobs
    /\ UNCHANGED <<events, latestPointer, activePart>>

HandlePointer ==
    /\ at = "handle" /\ at' = "poll" /\ ~aborted
    /\ Len(jobs) < MaxJobs
    /\ HandleEvent \/ HandleHeld
    /\ UNCHANGED <<devices, latestPen, shown, handlers>>

-----------------------------------------------------------------------------
(* The worker                                                              *)

(* It runs the job at the head, of kind k.                                 *)
Do(k) ==
    /\ jobs # <<>> /\ Head(jobs).kind = k /\ ~aborted
    /\ UNCHANGED <<at, devices, window>>

Starts(j) == j.l /\ j.part \notin seen.held

(* What j adds to the history, when its handler posts clicked tool clicks. *)
Saw(j, clicked) ==
    seen' = [held   |-> IF j.l THEN seen.held \cup {j.part}
                               ELSE seen.held \ {j.part},
             clicks |-> IF j.part # "TOOLBAR" THEN seen.clicks
                        ELSE IF Starts(j) THEN clicked
                        ELSE IF seen.clicks = 2 THEN 2 ELSE seen.clicks + clicked,
             item   |-> IF j.part = "MODEBAR" /\ Starts(j)
                        THEN GetModeUnderMouse(j.x, j.y) ELSE seen.item]

(* CoreToolbar::onMouseEvent.  Width() is an int, but compared with a      *)
(* size_t.                                                                 *)
ToSize(n) == n % SizeRange

OverTools(j) ==
    /\ j.y \in 0..(BarHeight - 1)
    /\ ToSize(j.x) >= ToSize(Width - IconWidth * Len(activeToolIds))
    /\ j.x < Width

ToolIdx(j) == (Width - j.x) \div IconWidth

NoClick(j) == jobs' = Tail(jobs) /\ Saw(j, 0)

Click(j, i) ==
    /\ jobs' = Append(Tail(jobs), ToolClick(activeToolIds[i + 1]))
    /\ Saw(j, 1)

PushTool(j, i) ==
    /\ j.l /\ pushed.idx < 0
    /\ pushed' = [idx |-> i, long |-> FALSE]
    /\ NoClick(j)

(* Whether nextRepeatTime has passed is open; it is set again when it has. *)
HoldTool(j, i) ==
    /\ j.l /\ i = pushed.idx
    /\ \/ UNCHANGED pushed /\ NoClick(j)
       \/ /\ pushed' = [pushed EXCEPT !.long = TRUE]
          /\ IF ~pushed.long \/ activeToolIds[i + 1] \in Repeating[activeApp]
             THEN Click(j, i) ELSE NoClick(j)

SlideOverTool(j, i) ==
    /\ j.l /\ pushed.idx >= 0 /\ i # pushed.idx
    /\ UNCHANGED pushed
    /\ NoClick(j)

(* A slip: a release clicks although a long press has.                     *)
ReleaseToolAlways(j, i) ==
    /\ ~j.l
    /\ pushed' = [idx |-> -1, long |-> FALSE]
    /\ IF i = pushed.idx THEN Click(j, i) ELSE NoClick(j)

ReleaseTool(j, i) ==
    /\ ~j.l
    /\ pushed' = [idx |-> -1, long |-> FALSE]
    /\ IF i = pushed.idx /\ ~pushed.long THEN Click(j, i) ELSE NoClick(j)

DoMouseToolbar ==
    LET j == Head(jobs)
        i == ToolIdx(j)
    IN /\ Do("Mouse") /\ j.part = "TOOLBAR"
       /\ \/ ~OverTools(j) /\ NoClick(j) /\ UNCHANGED <<pushed, aborted>>
          \/ /\ OverTools(j) /\ i >= Len(activeToolIds)
             /\ aborted' = TRUE
             /\ UNCHANGED <<jobs, pushed, seen>>
          \/ /\ OverTools(j) /\ i < Len(activeToolIds)
             /\ \/ PushTool(j, i) \/ HoldTool(j, i)
                \/ SlideOverTool(j, i) \/ ReleaseTool(j, i)
             /\ UNCHANGED aborted
       /\ UNCHANGED <<shown, activeApp, activeToolIds, mouseDownItem>>

(* A slip: the keypad and the doodler are selected as apps are.            *)
SelectAny(m) == AppSelect(m)

(* CoreModebar::onMouseEvent.                                              *)
ItemClicked(m) ==
    CASE m = "KEYPAD"  -> Plain("KeypadToggle")
      [] m = "DOODLER" -> Plain("DoodlerToggle")
      [] OTHER         -> AppSelect(m)

PressItem(j, m) ==
    /\ j.l
    /\ mouseDownItem' = IF mouseDownItem = NoMode THEN m ELSE mouseDownItem
    /\ jobs' = Tail(jobs)

(* A slip: the item is forgotten only when it has been clicked.            *)
ReleaseItemLazily(j, m) ==
    /\ ~j.l
    /\ IF m = mouseDownItem
       THEN /\ mouseDownItem' = NoMode
            /\ jobs' = Append(Tail(jobs), ItemClicked(m))
       ELSE /\ UNCHANGED mouseDownItem
            /\ jobs' = Tail(jobs)

ReleaseItem(j, m) ==
    /\ ~j.l
    /\ mouseDownItem' = NoMode
    /\ jobs' = IF m = mouseDownItem THEN Append(Tail(jobs), ItemClicked(m))
                                    ELSE Tail(jobs)

DoMouseModebar ==
    LET j == Head(jobs)
        m == GetModeUnderMouse(j.x, j.y)
    IN /\ Do("Mouse") /\ j.part = "MODEBAR"
       /\ PressItem(j, m) \/ ReleaseItem(j, m)
       /\ Saw(j, 0)
       /\ UNCHANGED <<shown, activeApp, activeToolIds, pushed, aborted>>

(* AppCanvas passes the event on; CoreDoodler only logs it.                *)
DoMouseOther ==
    LET j == Head(jobs)
    IN /\ Do("Mouse") /\ j.part \in {"CANVAS", "DOODLER"}
       /\ jobs' = IF j.part = "CANVAS"
                  THEN Append(Tail(jobs), Plain("CanvasMouse")) ELSE Tail(jobs)
       /\ Saw(j, 0)
       /\ UNCHANGED <<shown, activeApp, activeToolIds, pushed, mouseDownItem,
                      aborted>>

(* App::Activate: EnableTools, RepaintTools.                               *)
ShowTools(a) == activeToolIds' = AppTools[a]

(* Navitab::onAppSelect.  FindApp has no app for NONE, and what it returns *)
(* is activated all the same.                                              *)
DoAppSelect ==
    /\ Do("AppSelect")
    /\ jobs' = Tail(jobs)
    /\ LET a == Head(jobs).mode
       IN IF a \in {NoMode, activeApp} THEN UNCHANGED <<activeApp, activeToolIds>>
          ELSE activeApp' = a /\ ShowTools(a)
    /\ aborted' = (Head(jobs).mode = NoMode)
    /\ UNCHANGED <<shown, pushed, mouseDownItem, seen>>

(* The doodler's Redraw, and WindowGLFW::Paint.                            *)
DoRedraw ==
    /\ Do("Redraw")
    /\ jobs' = Tail(jobs)
    /\ shown' = shown \cup {"DOODLER"}
    /\ UNCHANGED handlers

(* Navitab::onToolClick and onCanvasMouseEvent are the app's own affair,   *)
(* and the toggles only log.                                               *)
DoOther ==
    /\ \E k \in ({"ToolClick"} \cup PlainKind) \ {"Redraw"} : Do(k)
    /\ jobs' = Tail(jobs)
    /\ UNCHANGED <<shown, handlers>>

Worker ==
    \/ DoMouseToolbar \/ DoMouseModebar \/ DoMouseOther
    \/ DoAppSelect \/ DoRedraw \/ DoOther

-----------------------------------------------------------------------------

Aborted == aborted /\ UNCHANGED vars

Next ==
    \/ \E p \in Points : onMouse(p)
    \/ PollPenEvents
    \/ HandlePointer
    \/ Worker
    \/ Aborted

SafeSpec == Init /\ [][Next]_vars

(* The event loop goes round, a device need not be used, and the worker    *)
(* runs while there are jobs.                                              *)
Spec == SafeSpec /\ WF_vars(PollPenEvents) /\ WF_vars(HandlePointer)
                 /\ WF_vars(Worker)

-----------------------------------------------------------------------------
(* Properties                                                              *)

(* The last event that was queued or handled.                              *)
LastEvent == IF events = <<>> THEN latestPointer ELSE events[Len(events)]

(* The window never takes a device that is up for one that is down: when   *)
(* the last event is a press, then no release of that device is amiss,     *)
(* however the mouse and the pen take turns, and a pen that leaves while   *)
(* it is pressed is released once it is back (winglfw.cpp:380).  And the   *)
(* part that line 181 asserts is there as long as the pointer is down.     *)
PointerConsistent ==
    /\ LastEvent.b => IF LastEvent.wasPen THEN latestPen.pressed ELSE mouse
    /\ latestPointer.b <=> activePart # NoPart

(* A gesture belongs to one part: no part sees a press before the part     *)
(* that was pressed last has seen its release, wherever the pointer goes   *)
(* in between and whatever is painted (winglfw.cpp:157).                   *)
OnePartHeld == Cardinality(seen.held) <= 1

(* The handler of the mouse event at the head of the queue posts job j.    *)
HandlerPosts(j) ==
    jobs # <<>> /\ Head(jobs).kind = "Mouse" /\ jobs' = Append(Tail(jobs), j)

(* The modebar sees the release that ends a gesture.                       *)
GestureEnds == "MODEBAR" \in seen.held /\ "MODEBAR" \notin seen'.held

(* A gesture that is begun on an item of the modebar selects the app of    *)
(* that item if its release is over the item, and nothing otherwise,       *)
(* wherever it goes in between and whatever waits in the queue; and        *)
(* nothing but the end of a gesture selects an app (coremodebar.cpp:57).   *)
ModeSelectedWherePressed ==
    [][LET under == GetModeUnderMouse(Head(jobs).x, Head(jobs).y)
       IN /\ GestureEnds /\ seen.item \in Apps =>
                (HandlerPosts(AppSelect(seen.item)) <=> under = seen.item)
          /\ \A m \in Apps \cup {NoMode, "DOODLER", "KEYPAD"} :
                HandlerPosts(AppSelect(m)) =>
                    GestureEnds /\ (seen.item = NoMode \/ (m = seen.item /\ m \in Apps))]_vars

(* NONE is never selected.  It does not hold: of a gesture that is begun   *)
(* beside the items and comes over none the modebar takes NONE for the     *)
(* item that was pressed and released.                                     *)
NoneNeverSelected == [][~HandlerPosts(AppSelect(NoMode))]_vars

(* In one gesture a tool is clicked a second time only while it is held    *)
(* and if it repeats: a release after a long press is no click             *)
(* (coretoolbar.cpp:173).                                                  *)
ClicksAgainOnlyRepeating ==
    [][\A t \in Tool :
          /\ HandlerPosts(ToolClick(t))
          /\ "TOOLBAR" \in seen.held /\ seen.clicks > 0
          => Head(jobs).l /\ t \in Repeating[activeApp]]_vars

(* When the mouse and the pen stay up no part is left held.                *)
HoldsEnd ==
    <>[](~mouse /\ ~latestPen.pressed) /\ []~aborted => <>[](seen.held = {})

(* coretoolbar.cpp:150, assert(toolIdx < activeToolIds.size()).            *)
ToolIdxInRange == ~aborted

(* toolbar.h:40, a tool click is sent "for the currently active screen": a *)
(* click in the queue is of a tool that the active app offers, unless      *)
(* another app is selected first.  It takes three mouse events that wait:  *)
(* the AppSelect that a release on the modebar posts is then behind the    *)
(* press and the release of a tool, whose click follows the AppSelect to   *)
(* an app that may not offer it.                                           *)
ClickForActiveApp ==
    \A i \in DOMAIN jobs :
        /\ jobs[i].kind = "ToolClick"
        /\ \A k \in 1..(i - 1) :
              jobs[k].kind = "AppSelect" => jobs[k].mode = activeApp
        => \E n \in DOMAIN AppTools[activeApp] :
              AppTools[activeApp][n] = jobs[i].tool
=============================================================================
