----------------------------- MODULE XPlanePlugin -----------------------------
(***************************************************************************)
(* Navitab as a plugin of X-Plane: the five entry points and the messages  *)
(* that X-Plane calls, the envoy that they drive, the desktop or VR window *)
(* that the envoy makes, remakes and watches, the settings that outlive    *)
(* them, and the core's worker that resizes and paints the window's parts. *)
(*                                                                         *)
(* X-Plane calls the plugin on one thread, so that each call is one step;  *)
(* the worker runs its jobs in between.  A window has one coordinate here, *)
(* with a left edge and a size that stands for its width and its height.   *)
(***************************************************************************)
EXTENDS Integers, Sequences, FiniteSets

CONSTANTS Parts,          \* the window parts looked at
          Sizes,          \* sizes the user may give the window
          Lefts,          \* places the user may move it to
          MinSize, StdSize, MaxSize, \* WIN_MIN_WIDTH, WIN_STD_WIDTH, WIN_MAX_WIDTH
          Screen, Grab,   \* width of the screen, of the part of it that can be grabbed
          PollEvery,      \* draws without a look at the geometry, 30 in the code
          WatchdogLimit,  \* flight loops without a draw that are allowed, 10 in the code
          MaxJobs,        \* bound on the jobs that wait while flight loops go on
          MaxEvents       \* bound on starts, disablings, VR changes and what the user does

ASSUME PluginAssumption ==
    /\ Parts \subseteq {"CANVAS", "TOOLBAR", "MODEBAR", "DOODLER", "KEYPAD"}
    /\ MinSize \in Nat \ {0} /\ StdSize \in MinSize..MaxSize /\ MaxSize \in Nat
    /\ Sizes \subseteq MinSize..MaxSize /\ Lefts \subseteq Int
    /\ Screen \in Nat /\ Grab \in 0..Screen
    /\ PollEvery \in Nat /\ WatchdogLimit \in Nat
    /\ MaxJobs \in Nat /\ MaxEvents \in Nat

VARIABLES
    plugin,    \* what X-Plane knows: "out", "failed", "started", "enabled"
    core,      \* Navitab: its threads run, it is activated, it has a window control
    envoy,     \* XPlaneSimulatorEnvoy: exists, its flight loop, its menu
    vr,        \* X-Plane is in VR
    panel,     \* XPlaneSimulatorEnvoy::panel, numbered in order of creation
    win,       \* the fields of the panel
    xwin,      \* X-Plane's window of each panel that has one
    prefs,     \* the settings in memory
    file,      \* the settings on disk
    reload,    \* XPLMReloadPlugins was called, and is not done
    log,       \* how the log file was opened: "new" or "continued"
    jobs,      \* Navitab::jobs
    painter,   \* of each part, the panel it paints on
    image,     \* of each part, the size of its image
    dirty,     \* parts with dirtyBits
    stale,     \* parts that LVGL has yet to flush
    texture,   \* of each part, what the panel shows: the size of the image
    last,      \* the panel before: its size, its place, whether it was active
    events     \* how many events so far

shell == <<plugin, envoy, vr, reload, log>>
store == <<prefs, file>>
work  == <<jobs, painter, image, dirty, stale, texture>>
vars  == <<shell, core, panel, win, xwin, store, work, last, events>>

Min2(a, b) == IF a < b THEN a ELSE b
Max2(a, b) == IF a > b THEN a ELSE b

DefaultPrefs == [size |-> StdSize, left |-> 10, open |-> FALSE, reloading |-> FALSE]
NoWin   == [kind |-> "none", size |-> StdSize, left |-> 0, seen |-> <<0, 0>>,
            visible |-> FALSE, watchdog |-> 0, poll |-> 0]
NoCore  == [up |-> FALSE, activated |-> FALSE, winCtrl |-> 0]
NoEnvoy == [made |-> FALSE, loop |-> FALSE, menu |-> FALSE]
Nothing == [known |-> FALSE, size |-> 0, left |-> 0, active |-> FALSE]
NoXwin  == [w \in {} |-> 0]
Fresh   == [p \in Parts |-> 0]

Init ==
    /\ plugin = "out" /\ core = NoCore /\ envoy = NoEnvoy
    /\ vr = FALSE /\ panel = 0 /\ win = NoWin /\ xwin = NoXwin
    /\ prefs = DefaultPrefs /\ file = DefaultPrefs
    /\ reload = FALSE /\ log = "new"
    /\ jobs = <<>> /\ painter = Fresh /\ image = Fresh /\ dirty = {} /\ stale = {}
    /\ texture = Fresh /\ last = Nothing /\ events = 0

TypeOK ==
    /\ plugin \in {"out", "failed", "started", "enabled"}
    /\ core \in [up : BOOLEAN, activated : BOOLEAN, winCtrl : 0..MaxEvents]
    /\ envoy \in [made : BOOLEAN, loop : BOOLEAN, menu : BOOLEAN]
    /\ panel \in 0..MaxEvents /\ DOMAIN xwin \subseteq 1..MaxEvents
    /\ win.size \in MinSize..MaxSize /\ win.watchdog \in 0..WatchdogLimit + 1
    /\ win.poll \in 0..PollEvery
    /\ image \in [Parts -> 0..MaxSize] /\ texture \in [Parts -> 0..MaxSize]
    /\ painter \in [Parts -> 0..MaxEvents]
    /\ dirty \subseteq Parts /\ stale \subseteq Parts

Event == events < MaxEvents /\ events' = events + 1

(* A job for every part, as Connect and ResizeNotifyAll post them.         *)
Order == SelectSeq(<<"CANVAS", "TOOLBAR", "MODEBAR", "DOODLER", "KEYPAD">>,
                   LAMBDA p : p \in Parts)

Painters(w) == [i \in DOMAIN Order |-> <<"painter", Order[i], w>>]
ResizeNotifyAll(s) == [i \in DOMAIN Order |-> <<"resize", Order[i], s>>]

-----------------------------------------------------------------------------
(* Slips                                                                   *)

(* A window does not tell the parts its size when it is made.              *)
ConnectJobsUnsized(w, s) == Painters(w)

(* Disable writes its copy of the settings after the window wrote its own. *)
SavedStale(old) == [prefs EXCEPT !.open = old.visible]

(* A VR change forgets to destroy the window of the other kind.            *)
WithoutHandleKept(w) == xwin

(* A flight loop that finds the window invisible starts to count anew.     *)
VitalSignsForgetful(w) ==
    IF w.visible /\ w.watchdog < WatchdogLimit THEN [w EXCEPT !.watchdog = 0] ELSE w

-----------------------------------------------------------------------------
(* The window                                                              *)

(* XPlaneWindow::Connect.                                                  *)
ConnectJobs(w, s) == Painters(w) \o ResizeNotifyAll(s)

InLimits(s) == Min2(Max2(s, MinSize), MaxSize)

(* The left edge of a desktop window, so that it can be grabbed.           *)
Placed(left, s) == Max2(Min2(left, Screen - Grab) + s, Grab) - s

(* Create: the window that a constructor and the settings p make, and the  *)
(* one that X-Plane makes for it, neither of them shown yet.               *)
Window(kind, s, left) ==
    [win  |-> [kind |-> kind, size |-> s, left |-> left, seen |-> <<0, 0>>,
               visible |-> FALSE, watchdog |-> 0, poll |-> 0],
     xwin |-> [left |-> left, size |-> s, shown |-> FALSE, popped |-> FALSE]]

CreateDesktop(p) == Window("desktop", InLimits(p.size), Placed(p.left, InLimits(p.size)))

CreateVR(p) == Window("vr", InLimits(p.size), 0)

(* Show: the plugin takes the window for visible, and X-Plane shows it.    *)
Shown(w) == [win  |-> [w.win EXCEPT !.visible = TRUE, !.watchdog = 0],
             xwin |-> [w.xwin EXCEPT !.shown = TRUE]]

(* Destroy takes the window from X-Plane.                                  *)
WithoutHandle(w) == [v \in DOMAIN xwin \ {w} |-> xwin[v]]

(* Destroy, of a desktop window, saves its place, and Disconnect its size, *)
(* after Disable has saved whether it was active.                          *)
Saved(old) ==
    [prefs EXCEPT !.open = old.visible, !.size = InLimits(old.size),
                  !.left = IF old.kind = "desktop" THEN old.left ELSE @]

Left(old) == [known |-> TRUE, size |-> InLimits(old.size),
              left |-> IF old.kind = "desktop" THEN old.left ELSE prefs.left,
              active |-> old.visible]

(* The envoy makes a panel for the mode that X-Plane is in, connects it to *)
(* the core and has it shown if it is to be seen.                          *)
MakePanel(inVR, p, show, kept) ==
    LET made == IF inVR THEN CreateVR(p) ELSE CreateDesktop(p)
        new  == IF show THEN Shown(made) ELSE made
        w    == core.winCtrl + 1
    IN  /\ panel' = w
        /\ win' = new.win
        /\ xwin' = [v \in DOMAIN kept \cup {w} |->
                        IF v = w THEN new.xwin ELSE kept[v]]
        /\ core' = [core EXCEPT !.winCtrl = w, !.activated = TRUE]
        /\ jobs' = jobs \o ConnectJobs(w, new.win.size)
        /\ texture' = Fresh

(* CheckVitalSigns: without a draw for too long, the window is not seen.   *)
VitalSigns(w) ==
    IF ~w.visible THEN w
    ELSE [w EXCEPT !.watchdog = @ + 1, !.visible = w.watchdog < WatchdogLimit]

-----------------------------------------------------------------------------
(* The entry points                                                        *)

(* Without all of X-Plane's datarefs there is no flight loop.              *)
GetFlightLoopDataRefs == BOOLEAN

(* Start of the envoy.                                                     *)
Start == \E got \in GetFlightLoopDataRefs :
             envoy' = [NoEnvoy EXCEPT !.made = TRUE, !.loop = got]

(* The constructor of Navitab loads the settings, takes the reload flag    *)
(* out of them and opens the log.  What comes after may fail: then the     *)
(* plugin lets go of the envoy and the core, but the core has threads, and *)
(* the apps keep it.                                                       *)
XPluginStart ==
    /\ Event
    /\ plugin = "out"
    /\ prefs' = [file EXCEPT !.reloading = FALSE]
    /\ log' = IF file.reloading THEN "continued" ELSE "new"
    /\ reload' = FALSE
    /\ core' = [NoCore EXCEPT !.up = TRUE]
    /\ \/ plugin' = "started" /\ Start
       \/ plugin' = "failed" /\ UNCHANGED envoy
    /\ UNCHANGED <<vr, panel, win, xwin, file, work, last>>

(* Enable: a menu, then a window of the kind that X-Plane is in now.  When *)
(* X-Plane cannot make the menu nothing has changed.                       *)
Enable ==
    /\ envoy' = [envoy EXCEPT !.menu = TRUE]
    /\ MakePanel(vr, prefs, prefs.open, xwin)

XPluginEnable ==
    /\ plugin = "started" /\ ~reload
    /\ plugin' = "enabled"
    /\ Enable
    /\ UNCHANGED <<vr, reload, log, store, painter, image, dirty, stale, last,
                   events>>

(* Disable: the window goes, with what it knows saved, then the menu.      *)
Disable ==
    /\ prefs' = Saved(win) /\ last' = Left(win)
    /\ xwin' = WithoutHandle(panel)
    /\ panel' = 0 /\ win' = NoWin
    /\ envoy' = [envoy EXCEPT !.menu = FALSE]

XPluginDisable ==
    /\ \/ Event
       \/ reload /\ UNCHANGED events
    /\ plugin = "enabled"
    /\ plugin' = "started"
    /\ Disable
    /\ core' = [core EXCEPT !.activated = FALSE]
    /\ UNCHANGED <<vr, reload, log, file, work>>

(* Stop: the settings are saved when the core lets go of them.             *)
XPluginStop ==
    /\ plugin = "started"
    /\ plugin' = "out"
    /\ core' = NoCore /\ envoy' = NoEnvoy
    /\ file' = prefs
    /\ jobs' = <<>> /\ painter' = Fresh /\ image' = Fresh /\ dirty' = {} /\ stale' = {}
    /\ texture' = Fresh
    /\ UNCHANGED <<vr, panel, win, xwin, prefs, reload, log, last, events>>

(* X-Plane crashes, with whatever the plugin has not written.              *)
Crash ==
    /\ Event
    /\ plugin \in {"started", "enabled"}
    /\ plugin' = "out" /\ core' = NoCore /\ envoy' = NoEnvoy /\ vr' = FALSE
    /\ panel' = 0 /\ win' = NoWin /\ xwin' = NoXwin
    /\ prefs' = DefaultPrefs /\ reload' = FALSE
    /\ jobs' = <<>> /\ painter' = Fresh /\ image' = Fresh /\ dirty' = {} /\ stale' = {}
    /\ texture' = Fresh /\ last' = Nothing
    /\ UNCHANGED <<file, log>>

(* onVRmodeChange: another window, which is shown if the old one was.      *)
onVRmodeChange(entering) ==
    /\ vr' = entering
    /\ prefs' = [Saved(win) EXCEPT !.open = prefs.open]
    /\ last' = Left(win)
    /\ MakePanel(entering, prefs', win.visible, WithoutHandle(panel))

XPluginReceiveMessage ==
    /\ Event
    /\ plugin = "enabled" /\ ~reload
    /\ onVRmodeChange(~vr)
    /\ UNCHANGED <<plugin, envoy, reload, log, file, painter, image, dirty, stale>>

(* The user puts VR on or off while the plugin is not enabled.             *)
VRBehindOurBack ==
    /\ Event
    /\ plugin \in {"out", "started"} /\ ~reload
    /\ vr' = ~vr
    /\ UNCHANGED <<plugin, envoy, reload, log, core, panel, win, xwin, store, work,
                   last>>

-----------------------------------------------------------------------------
(* Callbacks, which X-Plane makes while the plugin is enabled              *)

Running == plugin = "enabled" /\ ~reload

onFlightLoop ==
    /\ Running /\ envoy.loop
    /\ Len(jobs) < MaxJobs
    /\ jobs' = Append(jobs, <<"flight">>)
    /\ win' = VitalSigns(win)
    /\ UNCHANGED <<shell, core, panel, xwin, store, painter, image, dirty, stale,
                   texture, last, events>>

(* A draw shows that the window is visible.                                *)
ProdWatchdog(w) == [w EXCEPT !.visible = TRUE, !.watchdog = 0]

(* UpdateWinGeometry: whether the size changed, and what is known then.    *)
SizeChanged(x) == win.seen # <<x.left, x.left + x.size>> /\ x.size # win.size

UpdateWinGeometry(w, x) ==
    [w EXCEPT !.seen = <<x.left, x.left + x.size>>,
              !.size = IF SizeChanged(x) THEN x.size ELSE @]

onDrawVR(w, x) == UpdateWinGeometry(w, x)

(* A desktop window also remembers its place, unless it is popped out.     *)
onDrawDesktop(w, x) ==
    [UpdateWinGeometry(w, x) EXCEPT !.left = IF x.popped THEN @ ELSE x.left]

(* onDraw; every so often it looks at the geometry, and tells the parts.   *)
onDraw ==
    LET x    == xwin[panel]
        look == win.poll = PollEvery
        prod == [ProdWatchdog(win) EXCEPT !.poll = IF look THEN 0 ELSE @ + 1]
    IN  /\ Running /\ x.shown
        /\ win' = IF ~look THEN prod
                  ELSE IF vr THEN onDrawVR(prod, x) ELSE onDrawDesktop(prod, x)
        /\ jobs' = IF look /\ SizeChanged(x) THEN jobs \o ResizeNotifyAll(x.size)
                   ELSE jobs
        /\ UNCHANGED <<shell, core, panel, xwin, store, painter, image, dirty, stale,
                       texture, last, events>>

(* onLeftClick: where a press at d from the left edge of the window is     *)
(* posted to, relative to the edge that was seen last.  What a part does   *)
(* with it is the subject of WindowPointer.                                *)
PostedTo(d) == xwin[panel].left + d - win.seen[1]

(* The menu: "Show window", "Reset window" and "Reload all plugins".       *)
Show(x) ==
    LET new == Shown([win |-> win, xwin |-> x])
    IN  win' = new.win /\ xwin' = [xwin EXCEPT ![panel] = new.xwin]

ShowWindow ==
    /\ Event /\ Running
    /\ Show(xwin[panel])
    /\ UNCHANGED <<shell, core, panel, store, work, last>>

(* Reset, of either kind of window: the standard size, in VR in front of   *)
(* the user, on the desktop in the middle of the screen.                   *)
ResetVR(x) == [x EXCEPT !.size = StdSize]

ResetDesktop(x) == [x EXCEPT !.size = StdSize, !.left = (Screen - StdSize) \div 2,
                             !.popped = FALSE]

ResetWindow ==
    /\ Event /\ Running
    /\ Show(IF vr THEN ResetVR(xwin[panel]) ELSE ResetDesktop(xwin[panel]))
    /\ UNCHANGED <<shell, core, panel, store, work, last>>

reloadAllPlugins ==
    /\ Event /\ Running
    /\ prefs' = [prefs EXCEPT !.reloading = TRUE]
    /\ reload' = TRUE
    /\ UNCHANGED <<plugin, envoy, vr, log, core, panel, win, xwin, file, work, last>>

(* What the user may do to X-Plane's window: close it, change its size,    *)
(* move it, or pop it out of X-Plane, where it has an origin of its own.   *)
UserChanges ==
    /\ Event /\ Running
    /\ LET x == xwin[panel]
       IN  /\ x.shown
           /\ \E y \in {[x EXCEPT !.shown = FALSE]}
                     \cup {[x EXCEPT !.size = s] : s \in Sizes}
                     \cup {[x EXCEPT !.left = l] : l \in Lefts}
                     \cup (IF vr THEN {} ELSE {[x EXCEPT !.popped = TRUE, !.left = 0]}) :
                 xwin' = [xwin EXCEPT ![panel] = y]
    /\ UNCHANGED <<shell, core, panel, win, store, work, last>>

-----------------------------------------------------------------------------
(* The worker                                                              *)

(* The parts that mark their new image for painting when they are resized; *)
(* the toolbar's is drawn by LVGL, and the keypad has nothing to show.     *)
Eager == Parts \ {"TOOLBAR", "KEYPAD"}

onResize(p, s) ==
    /\ image' = [image EXCEPT ![p] = s]
    /\ dirty' = IF p \in Eager THEN dirty \cup {p} ELSE dirty
    /\ stale' = IF p = "TOOLBAR" THEN stale \cup {p} ELSE stale
    /\ jobs' = IF p \in Eager THEN Append(Tail(jobs), <<"redraw", p>>) ELSE Tail(jobs)
    /\ UNCHANGED <<painter, texture>>

onSetPainter(p, w) ==
    /\ painter' = [painter EXCEPT ![p] = w]
    /\ jobs' = Tail(jobs)
    /\ UNCHANGED <<image, dirty, stale, texture>>

(* Redraw calls Paint of the window that the part knows.                   *)
Redraw(p) ==
    /\ texture' = IF p \in dirty /\ painter[p] = panel
                  THEN [texture EXCEPT ![p] = image[p]] ELSE texture
    /\ dirty' = dirty \ {p}
    /\ jobs' = Tail(jobs)
    /\ UNCHANGED <<painter, image, stale>>

(* onSimFlightLoop has the canvas painted again, LVGL's timer what is      *)
(* stale.                                                                  *)
Repaint(ps) ==
    LET q == SelectSeq(Order, LAMBDA p : p \in ps)
    IN  /\ dirty' = dirty \cup ps
        /\ jobs' = Tail(jobs) \o [i \in DOMAIN q |-> <<"redraw", q[i]>>]
        /\ UNCHANGED <<painter, image, texture>>

onSimFlightLoop ==
    Repaint(IF core.activated THEN {"CANVAS"} \cap Parts ELSE {}) /\ UNCHANGED stale

DoTimerHandler == Repaint(stale) /\ stale' = {}

Worker ==
    /\ core.up /\ jobs # <<>>
    /\ LET j == Head(jobs)
       IN  \/ j[1] = "painter" /\ onSetPainter(j[2], j[3])
           \/ j[1] = "resize" /\ onResize(j[2], j[3])
           \/ j[1] = "redraw" /\ Redraw(j[2])
           \/ j[1] = "flight" /\ onSimFlightLoop
           \/ j[1] = "timer" /\ DoTimerHandler
    /\ UNCHANGED <<shell, core, panel, win, xwin, store, last, events>>

(* The looper thread of LVGL, which has something to flush.                *)
RunLVGL ==
    /\ core.up /\ stale # {}
    /\ \A i \in DOMAIN jobs : jobs[i][1] # "timer"
    /\ jobs' = Append(jobs, <<"timer">>)
    /\ UNCHANGED <<shell, core, panel, win, xwin, store, painter, image, dirty, stale,
                   texture, last, events>>

-----------------------------------------------------------------------------

EntryPoint == XPluginStart \/ XPluginEnable \/ XPluginDisable \/ XPluginStop
              \/ Crash \/ XPluginReceiveMessage \/ VRBehindOurBack

Menu == ShowWindow \/ ResetWindow \/ reloadAllPlugins

Next ==
    \/ EntryPoint \/ Menu \/ UserChanges
    \/ onFlightLoop \/ onDraw
    \/ Worker \/ RunLVGL

(* X-Plane runs a flight loop and draws every window it shows on every     *)
(* frame; a reload it was asked for goes on.                               *)
Fairness ==
    /\ WF_vars(Worker) /\ WF_vars(RunLVGL)
    /\ WF_vars(onFlightLoop) /\ WF_vars(onDraw)

Spec == Init /\ [][Next]_vars /\ Fairness

-----------------------------------------------------------------------------
(* Properties                                                              *)

(* X-Plane holds the address of no window but the panel, of no menu of a   *)
(* disabled plugin, and calls no flight loop of an envoy that is gone      *)
(* (xpsimenvoy.cpp:180, 219).                                              *)
HandlesLive ==
    /\ DOMAIN xwin = {panel} \ {0}
    /\ (envoy.loop => envoy.made) /\ (envoy.menu <=> plugin = "enabled")

(* A new window has the size, the place and the visibility of the one      *)
(* before, over VR changes, over disabling and over a restart              *)
(* (xpsimenvoy.cpp:163, xpwin.cpp:118).                                    *)
WindowRemembered ==
    [][panel' # panel /\ panel' # 0 /\ last'.known
          => /\ win'.size = last'.size /\ win'.visible = last'.active
             /\ win'.kind = "desktop" => win'.left = Placed(last'.left, last'.size)]_vars

(* A window that X-Plane shows gets every part painted at the size of the  *)
(* window, whatever it replaced and however it was resized; unless it is   *)
(* closed, or the plugin disabled (xpwin.cpp:85, 142).                     *)
Painted == \A p \in Parts \ {"KEYPAD"} : texture[p] = xwin[panel].size

ContentFitsWindow ==
    (Running /\ xwin[panel].shown) ~> (~Running \/ ~xwin[panel].shown \/ Painted)

(* The plugin finds out that the user has closed the window                *)
(* (xpwin.cpp:70).                                                         *)
CloseIsNoticed ==
    (Running /\ envoy.loop /\ ~xwin[panel].shown)
        ~> (~Running \/ xwin[panel].shown \/ ~win.visible)

(* xpdesktopwin.cpp:149, "x,y in screen, not window coordinates, we need   *)
(* to convert them": a press is posted with its place in the window.       *)
ClickConverted == Running /\ xwin[panel].shown => \A d \in Sizes : PostedTo(d) = d

(* navitab.cpp:94, "remove it to avoid persisting on next run": the log is *)
(* continued only by the start that a reload asked for.                    *)
ContinuedOnReloadOnly ==
    [][plugin = "out" /\ plugin' # "out" /\ log' = "continued" => reload]_vars
=============================================================================
