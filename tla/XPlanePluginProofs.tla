--------------------------- MODULE XPlanePluginProofs ---------------------------
(***************************************************************************)
(* Proofs about XPlanePlugin, for any parts, sizes, places and limits and  *)
(* any number of events: X-Plane holds no address of a window, menu or     *)
(* flight loop that is gone, and a window comes back as it was.            *)
(***************************************************************************)
EXTENDS XPlanePlugin, TLAPS

Prefs == [size : Int, left : Int, open : BOOLEAN, reloading : BOOLEAN]

Extent == Int \X Int

Panel == [kind : {"none", "desktop", "vr"}, size : Int, left : Int, seen : Extent,
          visible : BOOLEAN, watchdog : Int, poll : Int]

Frame == [left : Int, size : Int, shown : BOOLEAN, popped : BOOLEAN]

(* What kind of value each variable has that the proofs look at, without   *)
(* the bounds that TypeOK states.                                          *)
Typed ==
    /\ core \in [up : BOOLEAN, activated : BOOLEAN, winCtrl : Nat]
    /\ envoy \in [made : BOOLEAN, loop : BOOLEAN, menu : BOOLEAN]
    /\ panel \in Nat /\ win \in Panel /\ xwin \in [DOMAIN xwin -> Frame]
    /\ vr \in BOOLEAN
    /\ prefs \in Prefs /\ file \in Prefs

(* There is a panel exactly while the plugin is enabled, and X-Plane has   *)
(* no other window of it.                                                  *)
OnePanel ==
    /\ plugin = "enabled" <=> panel # 0
    /\ DOMAIN xwin = {panel} \ {0}

-----------------------------------------------------------------------------
(* Arithmetic                                                              *)

LEMMA LimitsInt == ASSUME NEW s \in Int
                   PROVE  InLimits(s) \in Int /\ InLimits(InLimits(s)) = InLimits(s)
BY PluginAssumption DEF PluginAssumption, InLimits, Min2, Max2

LEMMA PlacedInt == ASSUME NEW l \in Int, NEW s \in Int PROVE Placed(l, s) \in Int
BY PluginAssumption DEF PluginAssumption, Placed, Min2, Max2

-----------------------------------------------------------------------------
(* Windows                                                                 *)

(* A window that is made from settings p is of the mode's kind, and has    *)
(* their size and place, within limits.                                    *)
Made(inVR, p) == IF inVR THEN CreateVR(p) ELSE CreateDesktop(p)

LEMMA WatchedPanel ==
    ASSUME NEW w \in Panel PROVE [w EXCEPT !.visible = TRUE, !.watchdog = 0] \in Panel
<1>1. ASSUME NEW v \in BOOLEAN, NEW n \in Int
      PROVE  [w EXCEPT !.visible = v, !.watchdog = n] \in Panel
  BY DEF Panel
<1>2. 0 \in Int
  OBVIOUS
<1>3. QED
  BY <1>1, <1>2, TRUE \in BOOLEAN, Zenon

LEMMA ShownWindow ==
    ASSUME NEW r, r.win \in Panel, r.xwin \in Frame
    PROVE  /\ Shown(r).win \in Panel /\ Shown(r).xwin \in Frame
           /\ Shown(r).win.visible = TRUE /\ Shown(r).win.size = r.win.size
           /\ Shown(r).win.left = r.win.left /\ Shown(r).win.kind = r.win.kind
<1> DEFINE w == [r.win EXCEPT !.visible = TRUE, !.watchdog = 0]
           x == [r.xwin EXCEPT !.shown = TRUE]
<1>1. Shown(r).win = w /\ Shown(r).xwin = x
  BY DEF Shown
<1>2. w \in Panel
  BY WatchedPanel
<1>3. w.visible = TRUE /\ w.size = r.win.size /\ w.left = r.win.left
      /\ w.kind = r.win.kind
  BY DEF Panel
<1>4. x \in Frame
  BY DEF Frame
<1> HIDE DEF w, x
<1>5. QED
  BY <1>1, <1>2, <1>3, <1>4

LEMMA MadeWindow ==
    ASSUME NEW inVR \in BOOLEAN, NEW p \in Prefs
    PROVE  /\ Made(inVR, p).win \in Panel /\ Made(inVR, p).xwin \in Frame
           /\ Made(inVR, p).win.size = InLimits(p.size)
           /\ Made(inVR, p).win.visible = FALSE
           /\ Made(inVR, p).win.kind = "desktop" =>
                 Made(inVR, p).win.left = Placed(p.left, InLimits(p.size))
<1>1. p.size \in Int /\ p.left \in Int /\ InLimits(p.size) \in Int
  BY LimitsInt DEF Prefs
<1>2. Placed(p.left, InLimits(p.size)) \in Int
  BY <1>1, PlacedInt
<1>3. <<0, 0>> \in Extent
  BY DEF Extent
<1>4. CASE inVR
  <2>1. /\ Made(inVR, p).win =
             [kind |-> "vr", size |-> InLimits(p.size), left |-> 0, seen |-> <<0, 0>>,
              visible |-> FALSE, watchdog |-> 0, poll |-> 0]
        /\ Made(inVR, p).xwin =
             [left |-> 0, size |-> InLimits(p.size), shown |-> FALSE, popped |-> FALSE]
    BY <1>4 DEF Made, CreateVR, Window
  <2>2. QED
    BY <1>1, <1>3, <2>1 DEF Panel, Frame
<1>5. CASE ~inVR
  <2> DEFINE left == Placed(p.left, InLimits(p.size))
  <2>1. /\ Made(inVR, p).win =
             [kind |-> "desktop", size |-> InLimits(p.size), left |-> left,
              seen |-> <<0, 0>>, visible |-> FALSE, watchdog |-> 0, poll |-> 0]
        /\ Made(inVR, p).xwin =
             [left |-> left, size |-> InLimits(p.size), shown |-> FALSE, popped |-> FALSE]
    BY <1>5 DEF Made, CreateDesktop, Window
  <2>2. QED
    BY <1>1, <1>2, <1>3, <2>1 DEF Panel, Frame
<1>6. QED
  BY <1>4, <1>5

(* MakePanel makes the panel a window of which X-Plane has the address,    *)
(* visible if it is to be seen.                                            *)
LEMMA MadePanel ==
    ASSUME Typed, NEW inVR \in BOOLEAN, NEW p \in Prefs, NEW show \in BOOLEAN,
           NEW kept, DOMAIN kept = {}, MakePanel(inVR, p, show, kept)
    PROVE  /\ panel' \in Nat \ {0} /\ win' \in Panel
           /\ DOMAIN xwin' = {panel'} /\ xwin' \in [DOMAIN xwin' -> Frame]
           /\ core' \in [up : BOOLEAN, activated : BOOLEAN, winCtrl : Nat]
           /\ win'.size = InLimits(p.size) /\ win'.visible = show
           /\ win'.kind = "desktop" => win'.left = Placed(p.left, InLimits(p.size))
<1> DEFINE made == Made(inVR, p)
           new  == IF show THEN Shown(made) ELSE made
           w    == core.winCtrl + 1
<1>1. /\ panel' = w /\ win' = new.win
      /\ xwin' = [v \in DOMAIN kept \cup {w} |-> IF v = w THEN new.xwin ELSE kept[v]]
      /\ core' = [core EXCEPT !.winCtrl = w, !.activated = TRUE]
  BY DEF MakePanel, Made
<1>2. w \in Nat \ {0}
  BY DEF Typed
<1>3. /\ new.win \in Panel /\ new.xwin \in Frame
      /\ new.win.size = made.win.size /\ new.win.left = made.win.left
      /\ new.win.kind = made.win.kind /\ new.win.visible = show
  <2>1. made.win \in Panel /\ made.xwin \in Frame /\ made.win.visible = FALSE
    BY MadeWindow
  <2>2. CASE show
    <3>1. new = Shown(made)
      BY <2>2
    <3> HIDE DEF made, new
    <3>2. QED
      BY <2>1, <2>2, <3>1, ShownWindow
  <2>3. CASE ~show
    BY <2>1, <2>3
  <2>4. QED
    BY <2>2, <2>3
<1>4. /\ made.win.size = InLimits(p.size)
      /\ made.win.kind = "desktop" => made.win.left = Placed(p.left, InLimits(p.size))
  BY MadeWindow
<1> HIDE DEF new, made
<1>5. DOMAIN xwin' = {panel'} /\ xwin' \in [DOMAIN xwin' -> Frame]
  BY <1>1, <1>3
<1>6. core' \in [up : BOOLEAN, activated : BOOLEAN, winCtrl : Nat]
  BY <1>1, <1>2 DEF Typed
<1>7. QED
  BY <1>1, <1>2, <1>3, <1>4, <1>5, <1>6

LEMMA SavedPrefs == ASSUME Typed
                    PROVE  /\ Saved(win) \in Prefs
                           /\ Saved(win).open = win.visible
                           /\ Saved(win).size = InLimits(win.size)
                           /\ Saved(win).left = Left(win).left
<1>1. win.size \in Int /\ win.left \in Int /\ win.visible \in BOOLEAN
  BY DEF Typed, Panel
<1>2. InLimits(win.size) \in Int
  BY <1>1, LimitsInt
<1>3. QED
  BY <1>1, <1>2 DEF Typed, Prefs, Saved, Left

-----------------------------------------------------------------------------
(* Draws and flight loops                                                  *)

LEMMA VitalSignsPanel == ASSUME NEW w \in Panel PROVE VitalSigns(w) \in Panel
<1>1. CASE ~w.visible
  BY <1>1 DEF VitalSigns
<1>2. CASE w.visible
  <2>1. ASSUME NEW n \in Int, NEW v \in BOOLEAN
        PROVE  [w EXCEPT !.watchdog = n, !.visible = v] \in Panel
    BY DEF Panel
  <2>2. w.watchdog + 1 \in Int /\ (w.watchdog < WatchdogLimit) \in BOOLEAN
    BY DEF Panel
  <2>3. VitalSigns(w) = [w EXCEPT !.watchdog = w.watchdog + 1,
                                  !.visible = w.watchdog < WatchdogLimit]
    BY <1>2 DEF VitalSigns
  <2>4. QED
    BY <2>1, <2>2, <2>3, Zenon
<1>3. QED
  BY <1>1, <1>2

LEMMA DrawnPanel ==
    ASSUME win \in Panel, NEW x \in Frame, NEW inVR,
           NEW look \in BOOLEAN
    PROVE  LET prod == [ProdWatchdog(win) EXCEPT !.poll = IF look THEN 0 ELSE @ + 1]
           IN  (IF ~look THEN prod
                ELSE IF inVR THEN onDrawVR(prod, x) ELSE onDrawDesktop(prod, x)) \in Panel
<1> DEFINE prod == [ProdWatchdog(win) EXCEPT !.poll = IF look THEN 0 ELSE @ + 1]
<1>1. ProdWatchdog(win) \in Panel
  BY WatchedPanel DEF ProdWatchdog
<1>2. prod \in Panel
  <2>1. ASSUME NEW v \in Panel, NEW n \in Int PROVE [v EXCEPT !.poll = n] \in Panel
    BY DEF Panel
  <2>2. ProdWatchdog(win).poll \in Int
    BY <1>1 DEF Panel
  <2>3. (IF look THEN 0 ELSE ProdWatchdog(win).poll + 1) \in Int
    BY <2>2
  <2>4. QED
    BY <1>1, <2>1, <2>3
<1> HIDE DEF prod
<1>3. UpdateWinGeometry(prod, x) \in Panel
  <2>1. ASSUME NEW e \in Extent, NEW n \in Int
        PROVE  [prod EXCEPT !.seen = e, !.size = n] \in Panel
    BY <1>2 DEF Panel
  <2>2. x.left \in Int /\ x.size \in Int /\ prod.size \in Int
    BY <1>2 DEF Frame, Panel
  <2>3. <<x.left, x.left + x.size>> \in Extent
    BY <2>2 DEF Extent
  <2>4. (IF SizeChanged(x) THEN x.size ELSE prod.size) \in Int
    BY <2>2
  <2>5. UpdateWinGeometry(prod, x) =
            [prod EXCEPT !.seen = <<x.left, x.left + x.size>>,
                         !.size = IF SizeChanged(x) THEN x.size ELSE prod.size]
    BY <1>2 DEF UpdateWinGeometry, Panel
  <2>6. QED
    BY <2>1, <2>3, <2>4, <2>5, Zenon
<1>4. onDrawDesktop(prod, x) \in Panel
  <2>1. ASSUME NEW v \in Panel, NEW n \in Int PROVE [v EXCEPT !.left = n] \in Panel
    BY DEF Panel
  <2>2. x.left \in Int /\ UpdateWinGeometry(prod, x).left \in Int
    BY <1>3 DEF Frame, Panel
  <2>3. QED
    BY <1>3, <2>1, <2>2 DEF onDrawDesktop
<1>5. QED
  BY <1>2, <1>3, <1>4 DEF onDrawVR, prod

-----------------------------------------------------------------------------
(* The panel and its window                                                *)

Inv == Typed /\ OnePanel

LEMMA InitInv == Init => Inv
<1> SUFFICES ASSUME Init PROVE Inv
  OBVIOUS
<1> USE DEF Init
<1>1. StdSize \in Int
  BY PluginAssumption DEF PluginAssumption
<1>2. core \in [up : BOOLEAN, activated : BOOLEAN, winCtrl : Nat]
      /\ envoy \in [made : BOOLEAN, loop : BOOLEAN, menu : BOOLEAN]
  BY DEF NoCore, NoEnvoy
<1>3. prefs \in Prefs /\ file \in Prefs
  BY <1>1 DEF DefaultPrefs, Prefs
<1>4. win \in Panel
  BY <1>1, <<0, 0>> \in Extent DEF NoWin, Panel, Extent
<1>5. xwin \in [DOMAIN xwin -> Frame] /\ DOMAIN xwin = {}
  BY DEF NoXwin
<1>6. QED
  BY <1>2, <1>3, <1>4, <1>5 DEF Inv, Typed, OnePanel

(* Without a panel, no window of it is left.                               *)
LEMMA HandleGone == ASSUME OnePanel PROVE DOMAIN WithoutHandle(panel) = {}
BY DEF OnePanel, WithoutHandle

LEMMA EntryPointInv == Inv /\ EntryPoint => Inv'
<1> SUFFICES ASSUME Inv, EntryPoint PROVE Inv'
  OBVIOUS
<1> USE DEF Inv
<1>0. StdSize \in Int
  BY PluginAssumption DEF PluginAssumption
<1>1. CASE XPluginStart
  <2>1. core' \in [up : BOOLEAN, activated : BOOLEAN, winCtrl : Nat]
    BY <1>1 DEF XPluginStart, NoCore
  <2>2. envoy' \in [made : BOOLEAN, loop : BOOLEAN, menu : BOOLEAN]
    BY <1>1 DEF XPluginStart, Start, GetFlightLoopDataRefs, NoEnvoy, Typed
  <2>3. prefs' \in Prefs
    BY <1>1 DEF XPluginStart, Typed, Prefs
  <2>4. QED
    BY <1>1, <2>1, <2>2, <2>3 DEF XPluginStart, Typed, OnePanel
<1>2. CASE XPluginEnable
  <2>1. DOMAIN xwin = {} /\ prefs.open \in BOOLEAN
    BY <1>2 DEF XPluginEnable, OnePanel, Typed, Prefs
  <2>2. MakePanel(vr, prefs, prefs.open, xwin)
    BY <1>2 DEF XPluginEnable, Enable
  <2>3. /\ panel' \in Nat \ {0} /\ win' \in Panel
        /\ DOMAIN xwin' = {panel'} /\ xwin' \in [DOMAIN xwin' -> Frame]
        /\ core' \in [up : BOOLEAN, activated : BOOLEAN, winCtrl : Nat]
    BY <2>1, <2>2, MadePanel DEF Typed
  <2>4. envoy' \in [made : BOOLEAN, loop : BOOLEAN, menu : BOOLEAN]
    BY <1>2 DEF XPluginEnable, Enable, Typed
  <2>5. QED
    BY <1>2, <2>3, <2>4 DEF XPluginEnable, store, Typed, OnePanel
<1>3. CASE XPluginDisable
  <2>1. xwin' = WithoutHandle(panel) /\ DOMAIN xwin' = {}
    BY <1>3, HandleGone DEF XPluginDisable, Disable
  <2>2. xwin' \in [DOMAIN xwin' -> Frame]
    BY <2>1
  <2>3. win' \in Panel
    BY <1>0, <1>3, <<0, 0>> \in Extent DEF XPluginDisable, Disable, NoWin, Panel, Extent
  <2>4. envoy' \in [made : BOOLEAN, loop : BOOLEAN, menu : BOOLEAN]
        /\ core' \in [up : BOOLEAN, activated : BOOLEAN, winCtrl : Nat]
    BY <1>3 DEF XPluginDisable, Disable, Typed
  <2>5. prefs' \in Prefs
    BY <1>3, SavedPrefs DEF XPluginDisable, Disable
  <2>6. QED
    BY <1>3, <2>1, <2>2, <2>3, <2>4, <2>5 DEF XPluginDisable, Disable, Typed, OnePanel
<1>4. CASE XPluginStop
  <2>1. core' \in [up : BOOLEAN, activated : BOOLEAN, winCtrl : Nat]
        /\ envoy' \in [made : BOOLEAN, loop : BOOLEAN, menu : BOOLEAN]
    BY <1>4 DEF XPluginStop, NoCore, NoEnvoy
  <2>2. QED
    BY <1>4, <2>1 DEF XPluginStop, Typed, OnePanel
<1>5. CASE Crash
  <2>1. core' \in [up : BOOLEAN, activated : BOOLEAN, winCtrl : Nat]
        /\ envoy' \in [made : BOOLEAN, loop : BOOLEAN, menu : BOOLEAN]
    BY <1>5 DEF Crash, NoCore, NoEnvoy
  <2>2. win' \in Panel
    BY <1>0, <1>5, <<0, 0>> \in Extent DEF Crash, NoWin, Panel, Extent
  <2>3. prefs' \in Prefs
    BY <1>0, <1>5 DEF Crash, DefaultPrefs, Prefs
  <2>4. xwin' \in [DOMAIN xwin' -> Frame] /\ DOMAIN xwin' = {}
    BY <1>5 DEF Crash, NoXwin
  <2>5. QED
    BY <1>5, <2>1, <2>2, <2>3, <2>4 DEF Crash, Typed, OnePanel
<1>6. CASE XPluginReceiveMessage
  <2>1. /\ vr' = ~vr /\ prefs' = [Saved(win) EXCEPT !.open = prefs.open]
        /\ MakePanel(~vr, prefs', win.visible, WithoutHandle(panel))
    BY <1>6 DEF XPluginReceiveMessage, onVRmodeChange
  <2>2. prefs' \in Prefs
    BY <2>1, SavedPrefs DEF Typed, Prefs
  <2>3. win.visible \in BOOLEAN /\ (~vr) \in BOOLEAN
    BY DEF Typed, Panel
  <2>4. /\ panel' \in Nat \ {0} /\ win' \in Panel
        /\ DOMAIN xwin' = {panel'} /\ xwin' \in [DOMAIN xwin' -> Frame]
        /\ core' \in [up : BOOLEAN, activated : BOOLEAN, winCtrl : Nat]
    BY <2>1, <2>2, <2>3, HandleGone, MadePanel
  <2>5. QED
    BY <1>6, <2>1, <2>2, <2>4 DEF XPluginReceiveMessage, Typed, OnePanel
<1>7. CASE VRBehindOurBack
  BY <1>7 DEF VRBehindOurBack, store, Typed, OnePanel
<1>8. QED
  BY <1>1, <1>2, <1>3, <1>4, <1>5, <1>6, <1>7 DEF EntryPoint

(* X-Plane's window of the panel is shown, changed or drawn in place.      *)
LEMMA CallbackInv ==
    Inv /\ (Menu \/ UserChanges \/ onFlightLoop \/ onDraw) => Inv'
<1> SUFFICES ASSUME Inv, Menu \/ UserChanges \/ onFlightLoop \/ onDraw PROVE Inv'
  OBVIOUS
<1> USE DEF Inv
<1>1. Running /\ panel \in DOMAIN xwin /\ xwin[panel] \in Frame
  BY DEF Menu, ShowWindow, ResetWindow, reloadAllPlugins, UserChanges, onFlightLoop,
         onDraw, Running, OnePanel, Typed
<1>2. ASSUME NEW x \in Frame, Show(x)
      PROVE  win' \in Panel /\ xwin' \in [DOMAIN xwin' -> Frame] /\ DOMAIN xwin' = DOMAIN xwin
  <2> DEFINE r == [win |-> win, xwin |-> x]
  <2>1. r.win \in Panel /\ r.xwin \in Frame
    BY DEF Typed
  <2>2. win' = Shown(r).win /\ xwin' = [xwin EXCEPT ![panel] = Shown(r).xwin]
    BY <1>2 DEF Show
  <2> HIDE DEF r
  <2>3. Shown(r).win \in Panel /\ Shown(r).xwin \in Frame
    BY <2>1, ShownWindow
  <2>4. QED
    BY <2>2, <2>3 DEF Typed
<1>3. CASE ShowWindow
  BY <1>1, <1>2, <1>3 DEF ShowWindow, shell, store, Typed, OnePanel
<1>4. CASE ResetWindow
  <2> DEFINE x == IF vr THEN ResetVR(xwin[panel]) ELSE ResetDesktop(xwin[panel])
  <2>1. StdSize \in Int /\ (Screen - StdSize) \div 2 \in Int
    BY PluginAssumption DEF PluginAssumption
  <2>2. x \in Frame
    BY <1>1, <2>1 DEF ResetVR, ResetDesktop, Frame
  <2>3. Show(x)
    BY <1>4 DEF ResetWindow
  <2> HIDE DEF x
  <2>4. QED
    BY <1>2, <1>4, <2>2, <2>3 DEF ResetWindow, shell, store, Typed, OnePanel
<1>5. CASE reloadAllPlugins
  BY <1>5 DEF reloadAllPlugins, Typed, Prefs, OnePanel
<1>6. CASE UserChanges
  <2>1. Sizes \subseteq Int /\ Lefts \subseteq Int
    BY PluginAssumption DEF PluginAssumption
  <2>2. PICK y : /\ xwin' = [xwin EXCEPT ![panel] = y]
                 /\ y \in {[xwin[panel] EXCEPT !.shown = FALSE]}
                        \cup {[xwin[panel] EXCEPT !.size = s] : s \in Sizes}
                        \cup {[xwin[panel] EXCEPT !.left = l] : l \in Lefts}
                        \cup (IF vr THEN {}
                              ELSE {[xwin[panel] EXCEPT !.popped = TRUE, !.left = 0]})
    BY <1>6 DEF UserChanges
  <2>3. y \in Frame
    <3>1. ASSUME NEW x \in Frame, NEW b \in BOOLEAN, NEW n \in Int
          PROVE  /\ [x EXCEPT !.shown = b] \in Frame
                 /\ [x EXCEPT !.size = n] \in Frame /\ [x EXCEPT !.left = n] \in Frame
                 /\ [x EXCEPT !.popped = b, !.left = n] \in Frame
      BY DEF Frame
    <3>2. 0 \in Int
      OBVIOUS
    <3>3. CASE y \in {[xwin[panel] EXCEPT !.shown = FALSE]}
      BY <1>1, <3>1, <3>2, <3>3, FALSE \in BOOLEAN, Zenon
    <3>4. CASE y \in {[xwin[panel] EXCEPT !.size = s] : s \in Sizes}
      BY <1>1, <2>1, <3>1, <3>4, FALSE \in BOOLEAN, Zenon
    <3>5. CASE y \in {[xwin[panel] EXCEPT !.left = l] : l \in Lefts}
      BY <1>1, <2>1, <3>1, <3>5, FALSE \in BOOLEAN, Zenon
    <3>6. CASE y = [xwin[panel] EXCEPT !.popped = TRUE, !.left = 0]
      BY <1>1, <3>1, <3>2, <3>6, TRUE \in BOOLEAN, Zenon
    <3>7. QED
      BY <2>2, <3>3, <3>4, <3>5, <3>6
  <2>4. xwin' \in [DOMAIN xwin' -> Frame] /\ DOMAIN xwin' = DOMAIN xwin
    BY <2>2, <2>3 DEF Typed
  <2>5. QED
    BY <1>6, <2>4 DEF UserChanges, shell, store, Typed, OnePanel
<1>7. CASE onFlightLoop
  BY <1>7, VitalSignsPanel DEF onFlightLoop, shell, store, Typed, OnePanel
<1>8. CASE onDraw
  <2>1. win' \in Panel
    BY <1>1, <1>8, DrawnPanel DEF onDraw, Typed
  <2>2. QED
    BY <1>8, <2>1 DEF onDraw, shell, store, Typed, OnePanel
<1>9. QED
  BY <1>3, <1>4, <1>5, <1>6, <1>7, <1>8 DEF Menu

LEMMA NextInv == Inv /\ [Next]_vars => Inv'
<1> SUFFICES ASSUME Inv, [Next]_vars PROVE Inv'
  OBVIOUS
<1>1. CASE Worker \/ RunLVGL
  BY <1>1 DEF Worker, RunLVGL, shell, store, Inv, Typed, OnePanel
<1>2. CASE UNCHANGED vars
  BY <1>2 DEF vars, shell, store, Inv, Typed, OnePanel
<1>3. QED
  BY <1>1, <1>2, EntryPointInv, CallbackInv DEF Next

LEMMA PanelInvariant == Init /\ [][Next]_vars => []Inv
BY InitInv, NextInv, PTL

-----------------------------------------------------------------------------
(* No address is left behind                                               *)

EnvoyHandles ==
    /\ envoy.loop => envoy.made
    /\ envoy.menu <=> plugin = "enabled"

LEMMA NextEnvoyHandles ==
    Inv /\ EnvoyHandles /\ [Next]_vars => EnvoyHandles'
<1> SUFFICES ASSUME Inv, EnvoyHandles, [Next]_vars PROVE EnvoyHandles'
  OBVIOUS
<1> USE DEF EnvoyHandles
<1>0. envoy \in [made : BOOLEAN, loop : BOOLEAN, menu : BOOLEAN]
  BY DEF Inv, Typed
<1>1. CASE XPluginStart
  BY <1>0, <1>1 DEF XPluginStart, Start, GetFlightLoopDataRefs, NoEnvoy
<1>2. CASE XPluginEnable
  BY <1>0, <1>2 DEF XPluginEnable, Enable
<1>3. CASE XPluginDisable
  BY <1>0, <1>3 DEF XPluginDisable, Disable
<1>4. CASE XPluginStop \/ Crash
  BY <1>4 DEF XPluginStop, Crash, NoEnvoy
<1>5. CASE XPluginReceiveMessage \/ VRBehindOurBack
  BY <1>5 DEF XPluginReceiveMessage, VRBehindOurBack
<1>6. CASE Menu \/ UserChanges \/ onFlightLoop \/ onDraw
  BY <1>6 DEF Menu, ShowWindow, ResetWindow, reloadAllPlugins, UserChanges, onFlightLoop,
              onDraw, shell
<1>7. CASE Worker \/ RunLVGL \/ UNCHANGED vars
  BY <1>7 DEF Worker, RunLVGL, vars, shell
<1>8. QED
  BY <1>1, <1>2, <1>3, <1>4, <1>5, <1>6, <1>7 DEF Next, EntryPoint

(* Over any sequence of starts, VR changes, disablings, crashes and        *)
(* reloads, X-Plane calls back into no window, menu or flight loop that    *)
(* the envoy no longer has.                                                *)
THEOREM NoDanglingHandles == Spec => []HandlesLive
<1>1. Init => EnvoyHandles
  BY DEF Init, NoEnvoy, EnvoyHandles
<1>2. Inv /\ EnvoyHandles => HandlesLive
  BY DEF Inv, OnePanel, EnvoyHandles, HandlesLive
<1>3. Spec => Init /\ [][Next]_vars
  BY DEF Spec
<1>4. QED
  BY <1>1, <1>2, <1>3, PanelInvariant, NextEnvoyHandles, PTL

-----------------------------------------------------------------------------
(* What is remembered of a window                                          *)

(* Settings p have the size, place and visibility of the window before.    *)
Agrees(p) ==
    /\ p.size = last.size /\ InLimits(p.size) = p.size
    /\ p.left = last.left /\ p.open = last.active

(* Between two windows what is known of the first is in the settings, and  *)
(* between two programs in the file.                                       *)
Memory ==
    last.known => /\ plugin = "started" => Agrees(prefs)
                  /\ plugin = "out" => Agrees(file)

LEMMA DisableRemembers == ASSUME Inv, Disable PROVE Agrees(prefs)'
<1>1. prefs' = Saved(win) /\ last' = Left(win) /\ win.size \in Int
  BY DEF Disable, Inv, Typed, Panel
<1>2. /\ Saved(win).size = InLimits(win.size) /\ Saved(win).left = Left(win).left
      /\ Saved(win).open = win.visible
  BY SavedPrefs DEF Inv
<1>3. InLimits(InLimits(win.size)) = InLimits(win.size)
  BY <1>1, LimitsInt
<1>4. QED
  BY <1>1, <1>2, <1>3 DEF Agrees, Left

LEMMA NextMemory == Inv /\ Memory /\ [Next]_vars => Memory'
<1> SUFFICES ASSUME Inv, Memory, [Next]_vars PROVE Memory'
  OBVIOUS
<1> USE DEF Memory
<1>1. CASE XPluginStart
  <2>1. /\ prefs'.size = file.size /\ prefs'.left = file.left /\ prefs'.open = file.open
    BY <1>1 DEF XPluginStart, Inv, Typed, Prefs
  <2>2. QED
    BY <1>1, <2>1 DEF XPluginStart, Agrees
<1>2. CASE XPluginEnable
  BY <1>2 DEF XPluginEnable
<1>3. CASE XPluginDisable
  BY <1>3, DisableRemembers DEF XPluginDisable
<1>4. CASE XPluginStop
  BY <1>4 DEF XPluginStop, Agrees
<1>5. CASE Crash
  BY <1>5 DEF Crash, Nothing
<1>6. CASE XPluginReceiveMessage
  BY <1>6 DEF XPluginReceiveMessage
<1>7. CASE VRBehindOurBack
  BY <1>7 DEF VRBehindOurBack, store, Agrees
<1>8. CASE Menu \/ UserChanges \/ onFlightLoop \/ onDraw
  BY <1>8 DEF Menu, ShowWindow, ResetWindow, reloadAllPlugins, UserChanges, onFlightLoop,
              onDraw, Running, shell
<1>9. CASE Worker \/ RunLVGL \/ UNCHANGED vars
  BY <1>9 DEF Worker, RunLVGL, vars, shell, store, Agrees
<1>10. QED
  BY <1>1, <1>2, <1>3, <1>4, <1>5, <1>6, <1>7, <1>8, <1>9 DEF Next, EntryPoint

(* What a step that makes a window promises.                               *)
MadeAsBefore ==
    panel' # panel /\ panel' # 0 /\ last'.known
        => /\ win'.size = last'.size /\ win'.visible = last'.active
           /\ win'.kind = "desktop" => win'.left = Placed(last'.left, last'.size)

LEMMA EnableRemembers == Inv /\ Memory /\ XPluginEnable => MadeAsBefore
<1> SUFFICES ASSUME Inv, Memory, XPluginEnable PROVE MadeAsBefore
  OBVIOUS
<1>1. /\ MakePanel(vr, prefs, prefs.open, xwin) /\ last' = last
      /\ last.known => Agrees(prefs)
  BY DEF XPluginEnable, Enable, Memory
<1>2. DOMAIN xwin = {} /\ prefs \in Prefs /\ prefs.open \in BOOLEAN /\ vr \in BOOLEAN
  BY DEF XPluginEnable, Inv, OnePanel, Typed, Prefs
<1>3. /\ win'.size = InLimits(prefs.size) /\ win'.visible = prefs.open
      /\ win'.kind = "desktop" => win'.left = Placed(prefs.left, InLimits(prefs.size))
  BY <1>1, <1>2, MadePanel DEF Inv
<1>4. QED
  BY <1>1, <1>3 DEF MadeAsBefore, Agrees

LEMMA VRChangeRemembers == Inv /\ XPluginReceiveMessage => MadeAsBefore
<1> SUFFICES ASSUME Inv, XPluginReceiveMessage PROVE MadeAsBefore
  OBVIOUS
<1>1. /\ prefs' = [Saved(win) EXCEPT !.open = prefs.open] /\ last' = Left(win)
      /\ MakePanel(~vr, prefs', win.visible, WithoutHandle(panel))
  BY DEF XPluginReceiveMessage, onVRmodeChange
<1>2. /\ prefs' \in Prefs /\ prefs'.size = InLimits(win.size)
      /\ prefs'.left = Left(win).left
  BY <1>1, SavedPrefs DEF Inv, Typed, Prefs
<1>3. win.visible \in BOOLEAN /\ (~vr) \in BOOLEAN /\ win.size \in Int
  BY DEF Inv, Typed, Panel
<1>4. /\ win'.size = InLimits(prefs'.size) /\ win'.visible = win.visible
      /\ win'.kind = "desktop" => win'.left = Placed(prefs'.left, InLimits(prefs'.size))
  BY <1>1, <1>2, <1>3, HandleGone, MadePanel DEF Inv
<1>5. InLimits(prefs'.size) = InLimits(win.size)
  BY <1>2, <1>3, LimitsInt
<1>6. Left(win).size = InLimits(win.size) /\ Left(win).active = win.visible
  BY DEF Left
<1>7. QED
  BY <1>1, <1>2, <1>4, <1>5, <1>6 DEF MadeAsBefore

LEMMA WindowsMadeAsBefore == Inv /\ Memory /\ [Next]_vars => MadeAsBefore
<1> SUFFICES ASSUME Inv, Memory, [Next]_vars PROVE MadeAsBefore
  OBVIOUS
<1>1. CASE XPluginEnable \/ XPluginReceiveMessage
  BY <1>1, EnableRemembers, VRChangeRemembers
<1>2. CASE XPluginDisable \/ Crash
  BY <1>2 DEF XPluginDisable, Disable, Crash, MadeAsBefore
<1>3. CASE XPluginStart \/ XPluginStop \/ VRBehindOurBack
  BY <1>3 DEF XPluginStart, XPluginStop, VRBehindOurBack, MadeAsBefore
<1>4. CASE Menu \/ UserChanges \/ onFlightLoop \/ onDraw
  BY <1>4 DEF Menu, ShowWindow, ResetWindow, reloadAllPlugins, UserChanges, onFlightLoop,
              onDraw, MadeAsBefore
<1>5. CASE Worker \/ RunLVGL \/ UNCHANGED vars
  BY <1>5 DEF Worker, RunLVGL, vars, MadeAsBefore
<1>6. QED
  BY <1>1, <1>2, <1>3, <1>4, <1>5 DEF Next, EntryPoint

(* A window has the size, the visibility and, on the desktop, the place of *)
(* the one before it, over VR changes, disablings and restarts, for any    *)
(* sizes and places that the user chose.                                   *)
THEOREM WindowsComeBack == Spec => WindowRemembered
<1>1. Init => Memory
  BY DEF Init, Nothing, Memory
<1>2. Spec => Init /\ [][Next]_vars
  BY DEF Spec
<1>3. QED
  BY <1>1, <1>2, PanelInvariant, NextMemory, WindowsMadeAsBefore, PTL
  DEF WindowRemembered, MadeAsBefore
=============================================================================
