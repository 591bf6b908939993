----------------------------- MODULE NavitabCore -----------------------------
(***************************************************************************)
(* The life of the Navitab core in the desktop shell with the mock         *)
(* simulator, at the granularity of jobs: main's script from Start to      *)
(* Stop, the GLFW window that creates, resizes and clicks on the window    *)
(* parts, the simulator thread, the LVGL looper thread, and the worker     *)
(* that runs every job.  JobQueue shows that the worker runs the posted    *)
(* jobs in order; here the queue is a sequence.                            *)
(*                                                                         *)
(* A job takes two steps: Take evaluates the early returns at the top of   *)
(* its handler, a second step is the rest of it.  Main acts in between.    *)
(***************************************************************************)
EXTENDS Integers, Sequences, FiniteSets

CONSTANTS Apps,        \* the apps, one of which is activated at startup
          About,       \* the app that is activated at startup
          NoApp,       \* a null App pointer
          MaxFlights,  \* bound on the flight loops the simulator posts
          MaxTimers,   \* bound on the timer jobs the looper posts
          MaxEvents    \* bound on the user's gestures

ASSUME AppsAssumption == About \in Apps /\ NoApp \notin Apps

ASSUME BoundsAssumption ==
    MaxFlights \in Nat /\ MaxTimers \in Nat /\ MaxEvents \in Nat

VARIABLES
    pc,           \* how far main's script has got
    todo,         \* parts main still has to create, resize or reset
    running, activated, shouldClose,  \* the flags of Navitab
    simUp,        \* the simulator's thread runs
    made,         \* the window parts the core holds
    apps,         \* the apps the core holds
    activeApp,    \* Navitab::activeApp
    screens,      \* apps with an LVGL screen (App::root)
    mgr,          \* state of the lvglkit Manager
    pendingCalls, \* Manager::pendingCalls
    painter,      \* parts that know their painter
    sized,        \* parts that have an image
    dirty,        \* parts with dirtyBits
    shown,        \* WinPart::active of the window
    stale,        \* displays with areas that LVGL has yet to flush
    tools,        \* CoreToolbar: tools pending, active, and on its image
    highlight,    \* CoreModebar::highlightMask
    jobs,         \* Navitab::jobs
    job,          \* the job the worker is in
    posted,       \* how many flight loops, timers and gestures so far
    crashed       \* the process is gone, or has done something undefined

main  == <<pc, todo>>
flags == <<running, activated, simUp>>
objs  == <<made, apps>>
view  == <<painter, sized, dirty, shown, stale, screens, tools, highlight>>
lvgl  == <<mgr, pendingCalls>>
queue == <<jobs, job>>
vars  == <<main, flags, shouldClose, objs, activeApp, view, lvgl, queue,
           posted, crashed>>

Part  == {"CANVAS", "TOOLBAR", "MODEBAR", "DOODLER", "KEYPAD"}
Tools == {"STOP", "other"}
NoJob == <<"none">>

Job ==
    ({"Painter", "Resize", "Redraw", "Mouse"} \X Part)
    \cup ({"ToolClick"} \X Tools)
    \cup ({"AppSelect"} \X Apps)
    \cup ({"Timer"} \X (1..MaxTimers))
    \cup {<<k>> : k \in {"Flight", "CanvasMouse", "Toggle", "Null"}}

StopPC == {"stop", "dropApps", "dropManager", "awaitCalls", "dropProviders",
           "dropDocs", "clearRunning", "join", "stopped"}

FlagsTyped ==
    /\ running \in BOOLEAN /\ activated \in BOOLEAN /\ shouldClose \in BOOLEAN
    /\ simUp \in BOOLEAN /\ crashed \in BOOLEAN

MainTyped ==
    /\ pc \in StopPC \cup {"new", "started", "connect", "window",
                           "loop", "deactivate", "disconnect"}
    /\ todo \in Seq(Part)
    /\ mgr \in {"none", "up", "joined", "gone"}

ViewTyped ==
    /\ made \subseteq Part /\ painter \subseteq Part /\ sized \subseteq Part
    /\ dirty \subseteq Part /\ shown \subseteq Part /\ stale \subseteq Part
    /\ apps \subseteq Apps /\ screens \subseteq Apps
    /\ activeApp \in Apps \cup {NoApp} /\ highlight \in Apps \cup {NoApp}
    /\ tools \in [pending : Apps \cup {NoApp}, active : Apps \cup {NoApp},
                  painted : Apps \cup {NoApp}]

QueueTyped ==
    /\ jobs \in Seq(Job)
    /\ job \in Job \cup {NoJob}
    /\ posted \in [flight : 0..MaxFlights, timer : 0..MaxTimers,
                   event : 0..MaxEvents]

TypeOK ==
    FlagsTyped /\ MainTyped /\ ViewTyped /\ QueueTyped /\ pendingCalls \in Nat

Init ==
    /\ pc = "new" /\ todo = <<>>
    /\ running = FALSE /\ activated = FALSE /\ shouldClose = FALSE
    /\ simUp = FALSE /\ crashed = FALSE
    /\ made = {} /\ painter = {} /\ sized = {} /\ dirty = {} /\ shown = {}
    /\ stale = {} /\ apps = {} /\ screens = {}
    /\ activeApp = NoApp /\ highlight = NoApp
    /\ tools = [pending |-> NoApp, active |-> NoApp, painted |-> NoApp]
    /\ mgr = "none" /\ pendingCalls = 0
    /\ jobs = <<>> /\ job = NoJob
    /\ posted = [flight |-> 0, timer |-> 0, event |-> 0]

RunLater(js) == jobs' = jobs \o js

(* The parts, in the order in which main treats them.                      *)
ConnectOrder == <<"TOOLBAR", "MODEBAR", "DOODLER", "KEYPAD", "CANVAS">>
ResizeOrder  == <<"CANVAS", "TOOLBAR", "MODEBAR", "DOODLER", "KEYPAD">>
StopOrder    == <<"CANVAS", "TOOLBAR", "MODEBAR", "DOODLER", "KEYPAD">>

Script(from, to) == pc = from /\ pc' = to /\ ~crashed /\ UNCHANGED crashed

Redraws(ps) == [i \in DOMAIN ps |-> <<"Redraw", ps[i]>>]

-----------------------------------------------------------------------------
(* Slips a change to this code could make, used only to see that a         *)
(* property notices.                                                       *)

(* Connect does not give the part its painter.                             *)
MakePartSilently ==
    /\ todo # <<>>
    /\ Script("connect", "connect")
    /\ made' = made \cup {Head(todo)}
    /\ todo' = Tail(todo)
    /\ UNCHANGED <<flags, shouldClose, apps, activeApp, view, lvgl, queue,
                   posted>>

(* Stop clears running before it destroys the manager.                     *)
JoinLooperCleared ==
    /\ Script("dropManager", "awaitCalls")
    /\ mgr' = "joined"
    /\ running' = FALSE
    /\ UNCHANGED <<todo, activated, simUp, shouldClose, objs, activeApp, view,
                   pendingCalls, queue, posted>>

(* ~Manager does not wait for the timer jobs.                              *)
AwaitNothing ==
    /\ Script("awaitCalls", "dropProviders")
    /\ mgr' = "gone"
    /\ UNCHANGED <<todo, flags, shouldClose, objs, activeApp, view,
                   pendingCalls, queue, posted>>

(* The looper does not count the timer job it posts.                       *)
PostTimerUncounted ==
    /\ mgr = "up" /\ ~crashed
    /\ posted.timer < MaxTimers
    /\ posted' = [posted EXCEPT !.timer = @ + 1]
    /\ RunLater(<< <<"Timer", posted.timer + 1>> >>)
    /\ UNCHANGED <<main, flags, shouldClose, objs, activeApp, view, lvgl, job,
                   crashed>>

(* Redraws are saved when there is something dirty already.                *)
InvalidateLazily(ps) ==
    /\ dirty' = dirty \cup {ps[i] : i \in DOMAIN ps}
    /\ RunLater(IF dirty = {} THEN Redraws(ps) ELSE <<>>)

-----------------------------------------------------------------------------
(* Main's script (desktop main.cpp), with the window's share of it         *)

Start ==
    /\ Script("new", "started")
    /\ running' = TRUE
    /\ apps' = Apps
    /\ activeApp' = About
    /\ mgr' = "up"
    /\ UNCHANGED <<todo, activated, simUp, shouldClose, made, view,
                   pendingCalls, queue, posted>>

SimConnect ==
    /\ Script("started", "connect")
    /\ todo' = ConnectOrder
    /\ simUp' = TRUE
    /\ UNCHANGED <<running, activated, shouldClose, objs, activeApp, view,
                   lvgl, queue, posted>>

(* WindowGLFW::Connect gets a part from the core, which makes it, and      *)
(* gives it its painter.                                                   *)
MakePart ==
    /\ todo # <<>>
    /\ Script("connect", "connect")
    /\ made' = made \cup {Head(todo)}
    /\ RunLater(<< <<"Painter", Head(todo)>> >>)
    /\ todo' = Tail(todo)
    /\ UNCHANGED <<flags, shouldClose, apps, activeApp, view, lvgl, job,
                   posted>>

(* CreateWindow, the start of ResizeNotifyAll.                             *)
CreateWindow ==
    /\ todo = <<>>
    /\ Script("connect", "window")
    /\ todo' = ResizeOrder
    /\ UNCHANGED <<flags, shouldClose, objs, activeApp, view, lvgl, queue,
                   posted>>

(* CreateWindow throws StartupError, which main catches before it returns: *)
(* the simulator is destroyed while its std::thread is joinable, and that  *)
(* terminates the process.                                                 *)
CreateWindowFails ==
    /\ pc = "connect" /\ todo = <<>> /\ ~crashed
    /\ crashed' = TRUE
    /\ UNCHANGED <<main, flags, shouldClose, objs, activeApp, view, lvgl,
                   queue, posted>>

(* The rest of ResizeNotifyAll, a PostResize at a time.                    *)
NotifyResize ==
    /\ todo # <<>>
    /\ pc \in {"window", "loop"} /\ ~crashed
    /\ RunLater(<< <<"Resize", Head(todo)>> >>)
    /\ todo' = Tail(todo)
    /\ UNCHANGED <<pc, flags, shouldClose, objs, activeApp, view, lvgl, job,
                   posted, crashed>>

Activate ==
    /\ todo = <<>>
    /\ Script("window", "loop")
    /\ activated' = TRUE
    /\ UNCHANGED <<todo, running, simUp, shouldClose, objs, activeApp, view,
                   lvgl, queue, posted>>

InEventLoop == pc = "loop" /\ todo = <<>> /\ ~crashed

Event ==
    /\ InEventLoop
    /\ posted.event < MaxEvents
    /\ posted' = [posted EXCEPT !.event = @ + 1]

(* The user resizes the window.                                            *)
WindowResized ==
    /\ Event
    /\ todo' = ResizeOrder
    /\ UNCHANGED <<pc, flags, shouldClose, objs, activeApp, view, lvgl, queue,
                   crashed>>

(* Where LocateWinPart may find a press; the events that follow it go to   *)
(* the same part, so that a gesture is one job here.                       *)
Located ==
    {"TOOLBAR", "MODEBAR"} \cup
    (IF "DOODLER" \in shown THEN {"DOODLER"} ELSE {"CANVAS"}) \cup
    (shown \cap {"KEYPAD"})

Gesture(p) ==
    /\ Event
    /\ p \in Located
    /\ RunLater(<< <<"Mouse", p>> >>)
    /\ UNCHANGED <<main, flags, shouldClose, objs, activeApp, view, lvgl, job,
                   crashed>>

(* The window is closed, or the core asks for it, and EventLoop returns.   *)
EventLoopReturns ==
    /\ todo = <<>>
    /\ Script("loop", "deactivate")
    /\ UNCHANGED <<todo, flags, shouldClose, objs, activeApp, view, lvgl,
                   queue, posted>>

(* No app has anything to demolish yet.  The window that is disconnected   *)
(* next forgets the parts, which the core still holds.                     *)
Deactivate ==
    /\ Script("deactivate", "disconnect")
    /\ activated' = FALSE
    /\ UNCHANGED <<todo, running, simUp, shouldClose, objs, activeApp, view,
                   lvgl, queue, posted>>

(* The simulator's thread is joined.                                       *)
SimDisconnect ==
    /\ Script("disconnect", "stop")
    /\ simUp' = FALSE
    /\ todo' = StopOrder
    /\ UNCHANGED <<running, activated, shouldClose, objs, activeApp, view,
                   lvgl, queue, posted>>

-----------------------------------------------------------------------------
(* Navitab::Stop                                                           *)

(* A part is destroyed; the toolbar owns its LVGL display.                 *)
DropPart ==
    /\ todo # <<>>
    /\ Script("stop", "stop")
    /\ made' = made \ {Head(todo)}
    /\ stale' = stale \ ({Head(todo)} \cap {"TOOLBAR"})
    /\ todo' = Tail(todo)
    /\ UNCHANGED <<flags, shouldClose, apps, activeApp, painter, sized, dirty,
                   shown, screens, tools, highlight, lvgl, queue, posted>>

DropActive ==
    /\ todo = <<>>
    /\ Script("stop", "dropApps")
    /\ activeApp' = NoApp
    /\ UNCHANGED <<todo, flags, shouldClose, objs, view, lvgl, queue, posted>>

(* The apps delete their screens; the last one to go takes the canvas's    *)
(* display with it.                                                        *)
DropApps ==
    /\ Script("dropApps", "dropManager")
    /\ apps' = {}
    /\ screens' = screens \cap {activeApp}
    /\ stale' = IF screens' = {} THEN stale \ {"CANVAS"} ELSE stale
    /\ UNCHANGED <<todo, flags, shouldClose, made, activeApp, painter, sized,
                   dirty, shown, tools, highlight, lvgl, queue, posted>>

(* ~Manager stops and joins its looper, then waits for its jobs.           *)
JoinLooper ==
    /\ Script("dropManager", "awaitCalls")
    /\ mgr' = "joined"
    /\ UNCHANGED <<todo, flags, shouldClose, objs, activeApp, view,
                   pendingCalls, queue, posted>>

AwaitCalls ==
    /\ pendingCalls = 0
    /\ Script("awaitCalls", "dropProviders")
    /\ mgr' = "gone"
    /\ UNCHANGED <<todo, flags, shouldClose, objs, activeApp, view,
                   pendingCalls, queue, posted>>

(* The navigation and map tile providers are destroyed.                    *)
DropProviders ==
    /\ Script("dropProviders", "dropDocs")
    /\ UNCHANGED <<todo, flags, shouldClose, objs, activeApp, view, lvgl,
                   queue, posted>>

(* The document manager's destructor joins its download thread, which may  *)
(* never end (DocManager).                                                 *)
DropDocs ==
    /\ Script("dropDocs", "clearRunning")
    /\ UNCHANGED <<todo, flags, shouldClose, objs, activeApp, view, lvgl,
                   queue, posted>>

(* running is cleared, and a null job wakes the worker.                    *)
StopWorker ==
    /\ Script("clearRunning", "join")
    /\ running' = FALSE
    /\ RunLater(<< <<"Null">> >>)
    /\ UNCHANGED <<todo, activated, simUp, shouldClose, objs, activeApp, view,
                   lvgl, job, posted>>

(* The worker leaves its loop once it has finished a job.                  *)
JoinWorker ==
    /\ job = NoJob
    /\ Script("join", "stopped")
    /\ UNCHANGED <<todo, flags, shouldClose, objs, activeApp, view, lvgl,
                   queue, posted>>

StopStep ==
    \/ DropPart \/ DropActive \/ DropApps
    \/ JoinLooper \/ AwaitCalls
    \/ DropProviders
    \/ StopWorker \/ JoinWorker

Stop == StopStep \/ DropDocs

-----------------------------------------------------------------------------
(* The other threads                                                       *)

(* The simulator posts a flight loop.                                      *)
PostSimUpdates ==
    /\ simUp /\ ~crashed
    /\ posted.flight < MaxFlights
    /\ posted' = [posted EXCEPT !.flight = @ + 1]
    /\ RunLater(<< <<"Flight">> >>)
    /\ UNCHANGED <<main, flags, shouldClose, objs, activeApp, view, lvgl, job,
                   crashed>>

(* RunLVGL, until it is joined: nextTimer has elapsed.                     *)
PostTimer ==
    /\ mgr = "up" /\ ~crashed
    /\ posted.timer < MaxTimers
    /\ posted' = [posted EXCEPT !.timer = @ + 1]
    /\ pendingCalls' = pendingCalls + 1
    /\ RunLater(<< <<"Timer", posted.timer + 1>> >>)
    /\ UNCHANGED <<main, flags, shouldClose, objs, activeApp, view, mgr, job,
                   crashed>>

-----------------------------------------------------------------------------
(* The worker                                                              *)

(* The early returns of onSimFlightLoop, onToolClick, onCanvasMouseEvent.  *)
Ignored(j) ==
    \/ j[1] = "Flight" /\ (~activated \/ activeApp = NoApp)
    \/ j[1] \in {"ToolClick", "CanvasMouse"} /\ activeApp = NoApp

Take ==
    /\ job = NoJob /\ jobs # <<>>
    /\ running /\ ~crashed
    /\ job' = IF Ignored(Head(jobs)) THEN NoJob ELSE Head(jobs)
    /\ jobs' = Tail(jobs)
    /\ UNCHANGED <<main, flags, shouldClose, objs, activeApp, view, lvgl,
                   posted, crashed>>

(* The app FindApp returns.                                                *)
FindApp(a) == IF a \in apps THEN a ELSE NoApp

FirstResize == job = <<"Resize", "CANVAS">> /\ "CANVAS" \notin sized

(* The parts, apps and providers the rest of the job dereferences.         *)
PartsUsed ==
    CASE FirstResize                             -> {"CANVAS", "TOOLBAR", "MODEBAR"}
      [] job[1] = "AppSelect"
            /\ FindApp(job[2]) # activeApp       -> {"CANVAS", "TOOLBAR", "MODEBAR"}
      [] job[1] = "Flight"                       -> {"CANVAS", "TOOLBAR"}
      [] job[1] \in {"Painter", "Resize", "Redraw", "Mouse"} -> {job[2]}
      [] job[1] = "Timer"                        -> stale
      [] OTHER                                   -> {}

UsesActiveApp ==
    FirstResize \/ job[1] \in {"Flight", "ToolClick", "CanvasMouse"}

Safe ==
    /\ PartsUsed \subseteq made
    /\ UsesActiveApp => activeApp # NoApp
    /\ job[1] = "AppSelect" => FindApp(job[2]) \in {activeApp} \cup Apps
    /\ job[1] = "Flight" =>
          "TOOLBAR" \in sized
          /\ pc \notin {"dropDocs", "clearRunning", "join", "stopped"}
    /\ job[1] = "Redraw" /\ job[2] \in dirty => job[2] \in painter

(* The job uses something that is null or freed: the process dies, or what *)
(* it does from here on is undefined.                                      *)
Fault ==
    /\ job # NoJob /\ ~Safe /\ ~crashed
    /\ crashed' = TRUE
    /\ UNCHANGED <<main, flags, shouldClose, objs, activeApp, view, lvgl,
                   queue, posted>>

(* The rest of a job of kind k, when it is safe.                           *)
Do(k) ==
    /\ job[1] = k /\ Safe /\ ~crashed
    /\ job' = NoJob
    /\ UNCHANGED <<main, flags, objs, mgr, posted, crashed>>

(* Invalidate parts and post their Redraw.                                 *)
Invalidate(ps) ==
    /\ dirty' = dirty \cup {ps[i] : i \in DOMAIN ps}
    /\ RunLater(Redraws(ps))

DoPainter ==
    /\ Do("Painter")
    /\ painter' = painter \cup {job[2]}
    /\ UNCHANGED <<shouldClose, activeApp, sized, dirty, shown, stale, screens,
                   tools, highlight, pendingCalls, jobs>>

(* CoreToolbar::RepaintTools; nothing is painted without an image.         *)
RepaintTools(t, overlap) ==
    IF t.active = t.pending /\ ~overlap THEN t
    ELSE [t EXCEPT !.active = t.pending,
                   !.painted = IF "TOOLBAR" \in sized THEN t.pending ELSE @]

(* App::Activate of app a, its tools, the mode mode highlighted; the parts *)
(* ps are invalidated after those that this invalidates.                   *)
ActivateApp(a, mode, ps) ==
    /\ screens' = screens \cup {a}
    /\ \E overlap \in BOOLEAN :
          tools' = RepaintTools([tools EXCEPT !.pending = a], overlap)
    /\ highlight' = mode
    /\ Invalidate(<<"TOOLBAR">>
                    \o (IF highlight # mode /\ "MODEBAR" \in sized
                        THEN <<"MODEBAR">> ELSE <<>>)
                    \o ps)

(* AppCanvas::onResize, with StartApps the first time.  Afterwards the     *)
(* screen that is invalidated is that of the display last selected.        *)
DoResizeCanvas ==
    /\ Do("Resize") /\ job[2] = "CANVAS"
    /\ sized' = sized \cup {"CANVAS"}
    /\ IF FirstResize
       THEN /\ ActivateApp(activeApp, About, <<"CANVAS">>)
            /\ stale' = stale \cup {"CANVAS"}
       ELSE /\ Invalidate(<<"CANVAS">>)
            /\ \E d \in {"CANVAS", "TOOLBAR"} \cap sized : stale' = stale \cup {d}
            /\ UNCHANGED <<screens, tools, highlight>>
    /\ UNCHANGED <<shouldClose, activeApp, painter, shown, pendingCalls>>

(* Again a slip: onResize does not select the toolbar's display before it  *)
(* invalidates the active screen, which is then the canvas's.              *)
DoResizeUnselected ==
    /\ Do("Resize") /\ job[2] = "TOOLBAR"
    /\ sized' = sized \cup {"TOOLBAR"}
    /\ tools' = [tools EXCEPT !.active = NoApp, !.painted = NoApp]
    /\ stale' = stale \cup {"CANVAS"}
    /\ UNCHANGED <<shouldClose, activeApp, painter, dirty, shown, screens,
                   highlight, pendingCalls, jobs>>

(* CoreToolbar::onResize: a new image, the tools to be painted again when  *)
(* LVGL next flushes.                                                      *)
DoResizeToolbar ==
    /\ Do("Resize") /\ job[2] = "TOOLBAR"
    /\ sized' = sized \cup {"TOOLBAR"}
    /\ tools' = [tools EXCEPT !.active = NoApp, !.painted = NoApp]
    /\ stale' = stale \cup {"TOOLBAR"}
    /\ UNCHANGED <<shouldClose, activeApp, painter, dirty, shown, screens,
                   highlight, pendingCalls, jobs>>

(* CoreModebar::onResize and CoreDoodler::onResize paint and redraw;       *)
(* CoreKeypad::onResize only makes an image, the keypad being invisible.   *)
DoResizeOther ==
    /\ Do("Resize") /\ job[2] \in {"MODEBAR", "DOODLER", "KEYPAD"}
    /\ sized' = sized \cup {job[2]}
    /\ IF job[2] = "KEYPAD" THEN UNCHANGED <<dirty, jobs>>
                            ELSE Invalidate(<<job[2]>>)
    /\ UNCHANGED <<shouldClose, activeApp, painter, shown, stale, screens,
                   tools, highlight, pendingCalls>>

(* WindowPart::Redraw and the window's Paint, which hides a part that has  *)
(* no image.                                                               *)
DoRedraw ==
    /\ Do("Redraw")
    /\ dirty' = dirty \ {job[2]}
    /\ shown' = IF job[2] \notin dirty THEN shown
                ELSE IF job[2] \in sized THEN shown \cup {job[2]}
                ELSE shown \ {job[2]}
    /\ UNCHANGED <<shouldClose, activeApp, painter, sized, stale, screens,
                   tools, highlight, pendingCalls, jobs>>

(* What a gesture on a part posts, if anything.                            *)
Clicks(p) ==
    CASE p = "TOOLBAR" -> {<<"ToolClick", t>> : t \in
                              IF tools.active = About THEN Tools ELSE {"other"}}
      [] p = "MODEBAR" -> ({"AppSelect"} \X Apps) \cup {<<"Toggle">>}
      [] OTHER         -> {}

DoMouse ==
    /\ Do("Mouse")
    /\ \/ job[2] # "CANVAS" /\ UNCHANGED jobs
       \/ \E c \in Clicks(job[2]) : RunLater(<<c>>)
       \/ job[2] = "CANVAS" /\ RunLater(<< <<"CanvasMouse">> >>)
    /\ UNCHANGED <<shouldClose, activeApp, view, pendingCalls>>

(* Navitab::onToolClick; the About app's stop tool.                        *)
DoToolClick ==
    /\ Do("ToolClick")
    /\ shouldClose' = (shouldClose \/ (job[2] = "STOP" /\ activeApp = About))
    /\ UNCHANGED <<activeApp, view, pendingCalls, jobs>>

(* Navitab::onAppSelect.                                                   *)
DoAppSelect ==
    /\ Do("AppSelect")
    /\ IF FindApp(job[2]) = activeApp
       THEN UNCHANGED <<activeApp, view, jobs>>
       ELSE /\ activeApp' = job[2]
            /\ ActivateApp(job[2], job[2], <<>>)
            /\ stale' = stale \cup {"CANVAS"}
            /\ UNCHANGED <<painter, sized, shown>>
    /\ UNCHANGED <<shouldClose, pendingCalls>>

(* Navitab::onSimFlightLoop past its guard: the status text, perhaps       *)
(* changed, and the canvas.                                                *)
DoFlight ==
    /\ Do("Flight")
    /\ stale' \in {stale, stale \cup {"TOOLBAR"}}
    /\ IF "CANVAS" \in sized THEN Invalidate(<<"CANVAS">>)
                             ELSE UNCHANGED <<dirty, jobs>>
    /\ UNCHANGED <<shouldClose, activeApp, painter, sized, shown, screens,
                   tools, highlight, pendingCalls>>

(* Manager::DoTimerHandler: LVGL may flush what is stale, through Update.  *)
DoTimer ==
    /\ Do("Timer")
    /\ pendingCalls' = pendingCalls - 1
    /\ \/ /\ stale' = {}
          /\ \E overlap \in BOOLEAN :
                tools' = IF "TOOLBAR" \in stale
                         THEN RepaintTools(tools, overlap) ELSE tools
          /\ Invalidate((IF "CANVAS" \in stale THEN <<"CANVAS">> ELSE <<>>)
                           \o (IF "TOOLBAR" \in stale THEN <<"TOOLBAR">> ELSE <<>>))
       \/ UNCHANGED <<stale, tools, dirty, jobs>>
    /\ UNCHANGED <<shouldClose, activeApp, painter, sized, shown, screens,
                   highlight>>

(* onDoodlerToggle and onKeypadToggle only log; a canvas event is the      *)
(* app's own affair.                                                       *)
DoNothing ==
    /\ \/ Do("Toggle") \/ Do("CanvasMouse")
    /\ UNCHANGED <<shouldClose, activeApp, view, pendingCalls, jobs>>

RunJob ==
    \/ DoPainter \/ DoResizeCanvas \/ DoResizeToolbar \/ DoResizeOther
    \/ DoRedraw \/ DoMouse \/ DoToolClick \/ DoAppSelect
    \/ DoFlight \/ DoTimer \/ DoNothing

-----------------------------------------------------------------------------

Finished == (crashed \/ pc = "stopped") /\ UNCHANGED vars

Next ==
    \/ Start \/ SimConnect \/ MakePart
    \/ CreateWindow \/ CreateWindowFails
    \/ NotifyResize \/ Activate
    \/ WindowResized \/ (\E p \in Part : Gesture(p)) \/ EventLoopReturns
    \/ Deactivate \/ SimDisconnect
    \/ Stop
    \/ PostSimUpdates \/ PostTimer
    \/ Take \/ RunJob \/ Fault
    \/ Finished

SafeSpec == Init /\ [][Next]_vars

(* Every thread that can run does: the worker, and main once the event     *)
(* loop has returned, except that ~DocumentManager may not return.  Nobody *)
(* has to end the event loop, and neither the simulator nor the looper     *)
(* owes a post.                                                            *)
Fairness ==
    /\ WF_vars(Take \/ RunJob \/ Fault)
    /\ WF_vars(Deactivate \/ SimDisconnect \/ StopStep)

Spec == SafeSpec /\ Fairness

-----------------------------------------------------------------------------
(* Properties                                                              *)

(* The timer jobs that are queued or running.                              *)
TimersOutstanding ==
    {n \in 1..posted.timer :
        job = <<"Timer", n>> \/ \E i \in DOMAIN jobs : jobs[i] = <<"Timer", n>>}

(* ~Manager does not return before the last timer job, which uses the      *)
(* manager, has run (toolkit.cpp:30): pendingCalls counts the timer jobs   *)
(* that are queued or running.                                             *)
TimerJobsHaveManager ==
    /\ mgr = "gone" => TimersOutstanding = {}
    /\ pendingCalls = Cardinality(TimersOutstanding)

(* What is invalidated gets painted: there is a Redraw in the queue for    *)
(* every part with dirty bits, whoever invalidated it.                     *)
DirtyIsRedrawn ==
    \A p \in dirty : job = <<"Redraw", p>>
                     \/ \E i \in DOMAIN jobs : jobs[i] = <<"Redraw", p>>

(* A part has been given its painter before its first dirty bit, although  *)
(* the canvas's first resize already invalidates the toolbar.              *)
PaintersFirst == dirty \subseteq painter

(* Until Stop no job finds a part, an image, an app or a painter missing,  *)
(* in whatever order clicks, selections, resizes and flight loops arrive:  *)
(* StartApps runs in the canvas's first resize (navitab.cpp:296), which    *)
(* the window posts before any click.  The ways a start may fail are the   *)
(* window that cannot be made, and the flight loop that overtakes the      *)
(* toolbar's first resize (StatusHasLabel below).                          *)
FaultsOnlyKnown ==
    crashed => \/ pc \in StopPC
               \/ pc = "connect" /\ (job # NoJob => Safe)
               \/ job[1] = "Flight" /\ "TOOLBAR" \notin sized

(* The toolbar's image shows the tools of the app that was last activated, *)
(* or LVGL still owes the flush that repaints them (the app may have been  *)
(* activated when the toolbar had no image, and an image is thrown away    *)
(* whenever the toolbar is resized).                                       *)
ToolsCurrent ==
    "TOOLBAR" \in sized /\ "TOOLBAR" \in made =>
        tools.painted = tools.pending \/ "TOOLBAR" \in stale

(* Stop returns unless the process dies, or ~DocumentManager holds it for  *)
(* ever (navitab.cpp:255): the worker is still there to run the jobs that  *)
(* ~Manager waits for, and nothing else that Stop waits for can fail to    *)
(* come.                                                                   *)
StopReturns ==
    pc = "stop" ~> pc = "stopped" \/ crashed \/ [](pc = "dropDocs")

(* aboutapp.cpp:17, the stop tool is "an extra way to shutdown cleanly":   *)
(* no job faults during Stop.                                              *)
CleanStop == pc \in StopPC => ~crashed

(* toolkit.cpp:61, "LVGL is not thread safe": main does not delete a       *)
(* display or a screen while the worker is in a job that calls LVGL.       *)
WorkerInLvgl ==
    job[1] \in {"Timer", "Flight", "AppSelect"}
    \/ job \in {"Resize"} \X {"CANVAS", "TOOLBAR"}

MainInLvgl ==
    \/ pc = "stop" /\ todo # <<>> /\ Head(todo) = "TOOLBAR" /\ "TOOLBAR" \in sized
    \/ pc = "dropApps" /\ screens # {}

LvglOnOneThread == ~(WorkerInLvgl /\ MainInLvgl)

(* The status text is set on a label that exists: a flight loop that gets  *)
(* past the guard of onSimFlightLoop finds the toolbar's widgets created,  *)
(* as they are "on the first resize notification" (coretoolbar.cpp:131).   *)
StatusHasLabel ==
    job[1] = "Flight" /\ pc \notin StopPC => "TOOLBAR" \in sized

(* doodler.h:10, the doodler can be drawn on "when it is activated in the  *)
(* mode bar", which nothing does yet: no gesture goes to it.               *)
DoodlerNeedsActivation ==
    job # <<"Mouse", "DOODLER">>
=============================================================================
