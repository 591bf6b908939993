-------------------------- MODULE NavitabCoreProofs --------------------------
(***************************************************************************)
(* Theorems about NavitabCore, for any set of apps and any number of       *)
(* flight loops, timer jobs and gestures.                                  *)
(***************************************************************************)
EXTENDS NavitabCore, FiniteSetTheorems, SequenceTheorems, TLAPS

-----------------------------------------------------------------------------
(* Types.  That pendingCalls is not negative depends on what it counts and *)
(* comes later.                                                            *)

Typed ==
    FlagsTyped /\ MainTyped /\ ViewTyped /\ QueueTyped /\ pendingCalls \in Int

LEMMA JobKinds ==
    /\ \A k \in {"Painter", "Resize", "Redraw", "Mouse"}, p \in Part : <<k, p>> \in Job
    /\ \A t \in Tools : <<"ToolClick", t>> \in Job
    /\ \A a \in Apps : <<"AppSelect", a>> \in Job
    /\ \A n \in 1..MaxTimers : <<"Timer", n>> \in Job
    /\ <<"Flight">> \in Job /\ <<"CanvasMouse">> \in Job
    /\ <<"Toggle">> \in Job /\ <<"Null">> \in Job
BY DEF Job

LEMMA RunLaterTyped ==
    ASSUME jobs \in Seq(Job), NEW js \in Seq(Job), RunLater(js)
    PROVE  jobs' \in Seq(Job)
BY DEF RunLater

LEMMA RedrawsTyped ==
    ASSUME NEW ps \in Seq(Part)
    PROVE  /\ Redraws(ps) \in Seq(Job)
           /\ Len(Redraws(ps)) = Len(ps)
           /\ \A i \in 1..Len(ps) : Redraws(ps)[i] = <<"Redraw", ps[i]>>
<1>1. PICK n \in Nat : ps \in [1..n -> Part]
  OBVIOUS
<1>2. DOMAIN ps = 1..n /\ Len(ps) = n
  BY <1>1
<1>3. \A i \in 1..n : <<"Redraw", ps[i]>> \in Job
  BY <1>1, JobKinds
<1>4. Redraws(ps) \in [1..n -> Job]
  BY <1>2, <1>3 DEF Redraws
<1> QED
  BY <1>2, <1>4 DEF Redraws

LEMMA InvalidateTyped ==
    ASSUME Typed, NEW ps \in Seq(Part), Invalidate(ps)
    PROVE  jobs' \in Seq(Job) /\ dirty' \subseteq Part
<1>1. jobs' \in Seq(Job)
  BY RunLaterTyped, RedrawsTyped DEF Typed, FlagsTyped, MainTyped, ViewTyped, QueueTyped, Invalidate
<1>2. \A i \in DOMAIN ps : ps[i] \in Part
  BY ElementOfSeq, DOMAIN ps = 1..Len(ps)
<1> QED
  BY <1>1, <1>2 DEF Typed, FlagsTyped, MainTyped, ViewTyped, QueueTyped, Invalidate

LEMMA TypedInit == Init => Typed
<1> SUFFICES ASSUME Init PROVE Typed
  OBVIOUS
<1>1. jobs \in Seq(Job) /\ todo \in Seq(Part)
  BY DEF Init
<1>2. job \in Job \cup {NoJob}
  BY DEF Init
<1>3. posted \in [flight : 0..MaxFlights, timer : 0..MaxTimers, event : 0..MaxEvents]
  BY BoundsAssumption DEF Init
<1>4. tools \in [pending : Apps \cup {NoApp}, active : Apps \cup {NoApp},
                 painted : Apps \cup {NoApp}]
  BY DEF Init
<1>5. FlagsTyped
  BY DEF Init, FlagsTyped
<1>6. MainTyped
  BY <1>1 DEF Init, MainTyped
<1>7. ViewTyped
  BY <1>4 DEF Init, ViewTyped
<1>8. QueueTyped
  BY <1>1, <1>2, <1>3 DEF QueueTyped
<1> QED
  BY <1>5, <1>6, <1>7, <1>8 DEF Init, Typed

(* Main's script.                                                          *)

LEMMA TypedScript ==
    ASSUME Typed,
           \/ Start \/ SimConnect \/ MakePart \/ CreateWindow
           \/ CreateWindowFails \/ NotifyResize \/ Activate
           \/ WindowResized \/ EventLoopReturns \/ Deactivate \/ SimDisconnect
    PROVE  Typed'
<1> USE DEF Typed, FlagsTyped, MainTyped, ViewTyped, QueueTyped, Script, main, flags, objs, view, lvgl, queue
<1>1. CASE Start
  BY <1>1, AppsAssumption DEF Start
<1>2. CASE SimConnect
  BY <1>2 DEF SimConnect, ConnectOrder, Part
<1>3. CASE MakePart
  <2>1. Head(todo) \in Part /\ Tail(todo) \in Seq(Part)
    BY <1>3, HeadTailProperties DEF MakePart
  <2>2. << <<"Painter", Head(todo)>> >> \in Seq(Job)
    BY <2>1, JobKinds
  <2>3. jobs' \in Seq(Job)
    BY <1>3, <2>2, RunLaterTyped DEF MakePart
  <2> QED
    BY <1>3, <2>1, <2>3 DEF MakePart
<1>4. CASE CreateWindow
  BY <1>4 DEF CreateWindow, ResizeOrder, Part
<1>5. CASE CreateWindowFails
  BY <1>5 DEF CreateWindowFails
<1>6. CASE NotifyResize
  <2>1. Head(todo) \in Part /\ Tail(todo) \in Seq(Part)
    BY <1>6, HeadTailProperties DEF NotifyResize
  <2>2. << <<"Resize", Head(todo)>> >> \in Seq(Job)
    BY <2>1, JobKinds
  <2>3. jobs' \in Seq(Job)
    BY <1>6, <2>2, RunLaterTyped DEF NotifyResize
  <2> QED
    BY <1>6, <2>1, <2>3 DEF NotifyResize
<1>7. CASE Activate
  BY <1>7 DEF Activate
<1>8. CASE WindowResized
  <2>10. FlagsTyped'
    BY <1>8, BoundsAssumption DEF WindowResized, Event, InEventLoop, ResizeOrder, Part
  <2>11. MainTyped'
    BY <1>8, BoundsAssumption DEF WindowResized, Event, InEventLoop, ResizeOrder, Part
  <2>12. ViewTyped'
    BY <1>8, BoundsAssumption DEF WindowResized, Event, InEventLoop, ResizeOrder, Part
  <2>13. QueueTyped'
    <3>1. posted.event + 1 \in 0..MaxEvents /\ posted' = [posted EXCEPT !.event = posted.event + 1]
      BY <1>8, BoundsAssumption DEF WindowResized, Event
    <3>2. posted' \in [flight : 0..MaxFlights, timer : 0..MaxTimers, event : 0..MaxEvents]
      BY <3>1
    <3>3. jobs' = jobs /\ job' = job
      BY <1>8 DEF WindowResized
    <3> QED
      BY <3>2, <3>3
  <2> QED
    <3>1. pendingCalls' \in Int
      BY <1>8 DEF WindowResized
    <3> QED
      BY <2>10, <2>11, <2>12, <2>13, <3>1, Zenon
<1>9. CASE EventLoopReturns
  BY <1>9 DEF EventLoopReturns
<1>10. CASE Deactivate
  <2>10. FlagsTyped'
    BY <1>10 DEF Deactivate
  <2>11. MainTyped'
    BY <1>10 DEF Deactivate
  <2>12. ViewTyped'
    BY <1>10 DEF Deactivate
  <2>13. QueueTyped'
    BY <1>10 DEF Deactivate
  <2>14. pendingCalls' \in Int
    BY <1>10 DEF Deactivate
  <2> QED
    BY <2>10, <2>11, <2>12, <2>13, <2>14, Zenon
<1>11. CASE SimDisconnect
  <2>10. FlagsTyped'
    BY <1>11 DEF SimDisconnect, StopOrder, Part, StopPC
  <2>11. MainTyped'
    BY <1>11 DEF SimDisconnect, StopOrder, Part, StopPC
  <2>12. ViewTyped'
    BY <1>11 DEF SimDisconnect, StopOrder, Part, StopPC
  <2>13. QueueTyped'
    BY <1>11 DEF SimDisconnect, StopOrder, Part, StopPC
  <2> QED
    BY <1>11, <2>10, <2>11, <2>12, <2>13 DEF SimDisconnect, StopOrder, Part, StopPC
<1> QED
  BY <1>1, <1>2, <1>3, <1>4, <1>5, <1>6, <1>7, <1>8, <1>9, <1>10, <1>11

LEMMA TypedStop == Typed /\ Stop => Typed'
<1> SUFFICES ASSUME Typed, Stop PROVE Typed'
  OBVIOUS
<1> USE DEF Typed, FlagsTyped, MainTyped, ViewTyped, QueueTyped, Script, StopPC, main, flags, objs, view, lvgl, queue
<1>1. CASE DropPart
  <2>1. Head(todo) \in Part /\ Tail(todo) \in Seq(Part)
    BY <1>1, HeadTailProperties DEF DropPart
  <2> QED
    BY <1>1, <2>1 DEF DropPart
<1>2. CASE DropActive
  BY <1>2 DEF DropActive
<1>3. CASE DropApps
  BY <1>3 DEF DropApps
<1>4. CASE JoinLooper
  BY <1>4 DEF JoinLooper
<1>5. CASE AwaitCalls
  BY <1>5 DEF AwaitCalls
<1>6. CASE StopWorker
  <2>1. << <<"Null">> >> \in Seq(Job)
    BY JobKinds
  <2>2. jobs' \in Seq(Job)
    BY <1>6, <2>1, RunLaterTyped DEF StopWorker
  <2>10. FlagsTyped'
    BY <1>6, <2>2 DEF StopWorker
  <2>11. MainTyped'
    BY <1>6, <2>2 DEF StopWorker
  <2>12. ViewTyped'
    BY <1>6, <2>2 DEF StopWorker
  <2>13. QueueTyped'
    BY <1>6, <2>2 DEF StopWorker
  <2> QED
    BY <1>6, <2>2, <2>10, <2>11, <2>12, <2>13 DEF StopWorker
<1>7. CASE DropProviders \/ DropDocs \/ JoinWorker
  BY <1>7 DEF DropProviders, DropDocs, JoinWorker
<1> QED
  BY <1>1, <1>2, <1>3, <1>4, <1>5, <1>6, <1>7 DEF Stop, StopStep

(* The threads that post.                                                  *)

LEMMA CountTyped ==
    ASSUME NEW p \in [flight : 0..MaxFlights, timer : 0..MaxTimers, event : 0..MaxEvents]
    PROVE  /\ p.flight < MaxFlights => [p EXCEPT !.flight = p.flight + 1]
                  \in [flight : 0..MaxFlights, timer : 0..MaxTimers, event : 0..MaxEvents]
           /\ p.event < MaxEvents => [p EXCEPT !.event = p.event + 1]
                  \in [flight : 0..MaxFlights, timer : 0..MaxTimers, event : 0..MaxEvents]
BY BoundsAssumption

LEMMA TypedPosts ==
    ASSUME Typed, PostSimUpdates \/ PostTimer \/ \E p \in Part : Gesture(p)
    PROVE  Typed'
<1> USE BoundsAssumption DEF Typed, FlagsTyped, MainTyped, ViewTyped, QueueTyped, main, flags, objs, view, lvgl, queue
<1>1. CASE PostSimUpdates
  <2>1. << <<"Flight">> >> \in Seq(Job)
    BY JobKinds
  <2>2. jobs' \in Seq(Job)
    BY <1>1, <2>1, RunLaterTyped DEF PostSimUpdates
  <2>3. posted' \in [flight : 0..MaxFlights, timer : 0..MaxTimers, event : 0..MaxEvents]
    <3>1. posted' = [posted EXCEPT !.flight = posted.flight + 1] /\ posted.flight < MaxFlights
      BY <1>1 DEF PostSimUpdates
    <3> QED
      BY <3>1, CountTyped, Zenon
  <2>10. FlagsTyped'
    BY <1>1 DEF PostSimUpdates
  <2>11. MainTyped'
    BY <1>1 DEF PostSimUpdates
  <2>12. ViewTyped'
    BY <1>1 DEF PostSimUpdates
  <2>13. QueueTyped'
    <3>1. job' = job
      BY <1>1 DEF PostSimUpdates
    <3> QED
      BY <2>2, <2>3, <3>1
  <2>14. pendingCalls' \in Int
    BY <1>1 DEF PostSimUpdates
  <2> QED
    BY <2>10, <2>11, <2>12, <2>13, <2>14, Zenon
<1>2. CASE PostTimer
  <2>1. posted.timer + 1 \in 1..MaxTimers
    BY <1>2 DEF PostTimer
  <2>2. << <<"Timer", posted.timer + 1>> >> \in Seq(Job)
    BY <2>1, JobKinds
  <2>3. jobs' \in Seq(Job)
    BY <1>2, <2>2, RunLaterTyped DEF PostTimer
  <2>10. FlagsTyped'
    BY <1>2, <2>3 DEF PostTimer
  <2>11. MainTyped'
    BY <1>2, <2>3 DEF PostTimer
  <2>12. ViewTyped'
    BY <1>2, <2>3 DEF PostTimer
  <2>4. posted' = [posted EXCEPT !.timer = posted.timer + 1]
    BY <1>2 DEF PostTimer
  <2>5. posted' \in [flight : 0..MaxFlights, timer : 0..MaxTimers,
                    event : 0..MaxEvents]
    BY <2>1, <2>4
  <2>13. QueueTyped'
    <3>1. job' = job
      BY <1>2 DEF PostTimer
    <3> QED
      BY <2>3, <2>5, <3>1
  <2> QED
    <3>1. pendingCalls' \in Int
      BY <1>2 DEF PostTimer
    <3> QED
      BY <2>10, <2>11, <2>12, <2>13, <3>1, Zenon
<1>3. ASSUME NEW p \in Part, Gesture(p) PROVE Typed'
  <2>1. << <<"Mouse", p>> >> \in Seq(Job)
    BY JobKinds
  <2>2. jobs' \in Seq(Job)
    BY <1>3, <2>1, RunLaterTyped DEF Gesture
  <2>10. FlagsTyped'
    BY <1>3, <2>2 DEF Gesture, Event, InEventLoop
  <2>11. MainTyped'
    BY <1>3, <2>2 DEF Gesture, Event, InEventLoop
  <2>12. ViewTyped'
    BY <1>3, <2>2 DEF Gesture, Event, InEventLoop
  <2>13. QueueTyped'
    <3>1. posted' = [posted EXCEPT !.event = posted.event + 1] /\ posted.event < MaxEvents
      BY <1>3 DEF Gesture, Event
    <3>2. posted' \in [flight : 0..MaxFlights, timer : 0..MaxTimers, event : 0..MaxEvents]
      BY <3>1, CountTyped, Zenon
    <3>3. job' = job
      BY <1>3 DEF Gesture
    <3> QED
      BY <2>2, <3>2, <3>3
  <2>14. pendingCalls' \in Int
    BY <1>3 DEF Gesture
  <2> QED
    BY <2>10, <2>11, <2>12, <2>13, <2>14, Zenon
<1> QED
  BY <1>1, <1>2, <1>3

(* The worker.                                                             *)

LEMMA TypedTake == Typed /\ Take => Typed'
<1> SUFFICES ASSUME Typed, Take PROVE Typed'
  OBVIOUS
<1> USE DEF Typed, FlagsTyped, MainTyped, ViewTyped, QueueTyped
<1>1. Head(jobs) \in Job /\ Tail(jobs) \in Seq(Job)
  BY HeadTailProperties DEF Take
<1>2. jobs' \in Seq(Job) /\ job' \in Job \cup {NoJob}
  BY <1>1 DEF Take
<1> QED
  BY <1>2 DEF Take, main, flags, objs, view, lvgl

LEMMA JobParts ==
    ASSUME Typed
    PROVE  /\ job[1] \in {"Painter", "Resize", "Redraw", "Mouse"} => job[2] \in Part
           /\ job[1] = "AppSelect" => job[2] \in Apps
           /\ job[1] = "Timer" => job[2] \in 1..MaxTimers
           /\ job[1] # "none" => job \in Job
BY DEF Typed, QueueTyped, Job, NoJob

LEMMA DoTyped ==
    ASSUME Typed, NEW k, Do(k), ViewTyped', jobs' \in Seq(Job),
           shouldClose' \in BOOLEAN, pendingCalls' \in Int
    PROVE  Typed'
<1> USE DEF Do, Typed, main, flags, objs
<1>1. FlagsTyped'
  BY DEF FlagsTyped
<1>2. MainTyped'
  BY DEF MainTyped
<1>3. QueueTyped'
  BY DEF QueueTyped
<1> QED
  BY <1>1, <1>2, <1>3

LEMMA ActivateAppTyped ==
    ASSUME Typed, NEW a \in Apps, NEW mode \in Apps, NEW ps \in Seq(Part),
           ActivateApp(a, mode, ps)
    PROVE  /\ screens' \subseteq Apps /\ highlight' \in Apps
           /\ tools' \in [pending : Apps \cup {NoApp}, active : Apps \cup {NoApp},
                          painted : Apps \cup {NoApp}]
           /\ jobs' \in Seq(Job) /\ dirty' \subseteq Part
<1> DEFINE ms == IF highlight # mode /\ "MODEBAR" \in sized
                 THEN <<"MODEBAR">> ELSE <<>>
           rs == <<"TOOLBAR">> \o ms \o ps
<1>0. <<"TOOLBAR">> \in Seq(Part) /\ ms \in Seq(Part)
  <2>1. <<>> \in Seq(Part) /\ <<"TOOLBAR">> \in Seq(Part)
           /\ <<"MODEBAR">> \in Seq(Part)
    BY DEF Part
  <2> QED
    BY <2>1
<1>1. rs \in Seq(Part)
  <2> HIDE DEF ms
  <2>1. <<"TOOLBAR">> \o ms \in Seq(Part)
    BY <1>0, ConcatProperties
  <2> QED
    BY <2>1, ConcatProperties
<1>2. Invalidate(rs)
  BY DEF ActivateApp
<1>3. jobs' \in Seq(Job) /\ dirty' \subseteq Part
  BY <1>1, <1>2, InvalidateTyped
<1>4. PICK overlap \in BOOLEAN :
         tools' = RepaintTools([tools EXCEPT !.pending = a], overlap)
  BY DEF ActivateApp
<1>5. tools' \in [pending : Apps \cup {NoApp}, active : Apps \cup {NoApp},
                  painted : Apps \cup {NoApp}]
  BY <1>4 DEF RepaintTools, Typed, ViewTyped
<1> QED
  BY <1>3, <1>5 DEF ActivateApp, Typed, ViewTyped

LEMMA TypedRunJob == Typed /\ RunJob => Typed'
<1> SUFFICES ASSUME Typed, RunJob PROVE Typed'
  OBVIOUS
<1> USE DEF Typed
<1>1. CASE DoPainter
  <2>1. ViewTyped'
    BY <1>1, JobParts DEF DoPainter, Do, ViewTyped, objs
  <2> QED
    BY <1>1, <2>1, DoTyped DEF DoPainter, FlagsTyped, QueueTyped
<1>2. CASE DoResizeCanvas
  <2>1. sized' \subseteq Part /\ stale' \subseteq Part
    BY <1>2 DEF DoResizeCanvas, ViewTyped, Part
  <2>2. CASE FirstResize
    <3>1. activeApp \in Apps
      BY <1>2, <2>2, AppsAssumption DEF DoResizeCanvas, Do, Safe, UsesActiveApp, ViewTyped
    <3>2. ActivateApp(activeApp, About, <<"CANVAS">>)
      BY <1>2, <2>2 DEF DoResizeCanvas
    <3>3. <<"CANVAS">> \in Seq(Part)
      BY DEF Part
    <3>4. ViewTyped' /\ jobs' \in Seq(Job)
      BY <1>2, <2>1, <3>1, <3>2, <3>3, ActivateAppTyped, AppsAssumption
         DEF DoResizeCanvas, Do, ViewTyped, objs
    <3> QED
      BY <1>2, <3>4, DoTyped DEF DoResizeCanvas, FlagsTyped
  <2>3. CASE ~FirstResize
    <3>1. <<"CANVAS">> \in Seq(Part)
      BY DEF Part
    <3>2. jobs' \in Seq(Job) /\ dirty' \subseteq Part
      BY <1>2, <2>3, <3>1, InvalidateTyped DEF DoResizeCanvas
    <3>3. ViewTyped'
      BY <1>2, <2>1, <2>3, <3>2 DEF DoResizeCanvas, Do, ViewTyped, objs
    <3> QED
      BY <1>2, <3>2, <3>3, DoTyped DEF DoResizeCanvas, FlagsTyped
  <2> QED
    BY <2>2, <2>3
<1>3. CASE DoResizeToolbar
  <2>1. ViewTyped'
    BY <1>3 DEF DoResizeToolbar, Do, ViewTyped, Part, objs
  <2> QED
    BY <1>3, <2>1, DoTyped DEF DoResizeToolbar, FlagsTyped, QueueTyped
<1>4. CASE DoResizeOther
  <2>1. jobs' \in Seq(Job) /\ dirty' \subseteq Part
    <3>1. CASE job[2] = "KEYPAD"
      BY <1>4, <3>1 DEF DoResizeOther, ViewTyped, QueueTyped
    <3>2. CASE job[2] # "KEYPAD"
      <4>1. <<job[2]>> \in Seq(Part)
        BY <1>4 DEF DoResizeOther, Part
      <4> QED
        BY <1>4, <3>2, <4>1, InvalidateTyped DEF DoResizeOther
    <3> QED
      BY <3>1, <3>2
  <2>2. ViewTyped'
    BY <1>4, <2>1 DEF DoResizeOther, Do, ViewTyped, Part, objs
  <2> QED
    BY <1>4, <2>1, <2>2, DoTyped DEF DoResizeOther, FlagsTyped
<1>5. CASE DoRedraw
  <2>1. ViewTyped'
    BY <1>5, JobParts DEF DoRedraw, Do, ViewTyped, objs
  <2> QED
    BY <1>5, <2>1, DoTyped DEF DoRedraw, FlagsTyped, QueueTyped
<1>6. CASE DoMouse
  <2>1. Clicks(job[2]) \subseteq Job
    BY JobKinds DEF Clicks, Tools
  <2>2. jobs' \in Seq(Job)
    <3>1. ASSUME NEW c \in Job, RunLater(<<c>>) PROVE jobs' \in Seq(Job)
      <4>1. <<c>> \in Seq(Job)
        OBVIOUS
      <4> QED
        BY <3>1, <4>1, RunLaterTyped DEF QueueTyped
    <3>2. CASE UNCHANGED jobs
      BY <3>2 DEF QueueTyped
    <3>3. CASE \E c \in Clicks(job[2]) : RunLater(<<c>>)
      BY <2>1, <3>1, <3>3
    <3>4. CASE RunLater(<< <<"CanvasMouse">> >>)
      <4>1. << <<"CanvasMouse">> >> \in Seq(Job)
        BY JobKinds
      <4> QED
        BY <3>4, <4>1, RunLaterTyped DEF QueueTyped
    <3>5. \/ UNCHANGED jobs
          \/ \E c \in Clicks(job[2]) : RunLater(<<c>>)
          \/ RunLater(<< <<"CanvasMouse">> >>)
      <4> HIDE DEF Typed
      <4> QED
        BY <1>6, Zenon DEF DoMouse
    <3> QED
      BY <3>2, <3>3, <3>4, <3>5
  <2>3. ViewTyped'
    BY <1>6 DEF DoMouse, Do, ViewTyped, objs, view
  <2> QED
    BY <1>6, <2>2, <2>3, DoTyped DEF DoMouse, FlagsTyped
<1>7. CASE DoToolClick
  <2>1. ViewTyped'
    BY <1>7 DEF DoToolClick, Do, ViewTyped, objs, view
  <2>2. shouldClose' \in BOOLEAN
    BY <1>7 DEF DoToolClick
  <2> QED
    BY <1>7, <2>1, <2>2, DoTyped DEF DoToolClick, QueueTyped
<1>8. CASE DoAppSelect
  <2>1. job[2] \in Apps
    BY <1>8, JobParts DEF DoAppSelect, Do
  <2>2. CASE FindApp(job[2]) = activeApp
    <3>1. ViewTyped'
      BY <1>8, <2>2 DEF DoAppSelect, Do, ViewTyped, objs, view
    <3> QED
      BY <1>8, <2>2, <3>1, DoTyped DEF DoAppSelect, FlagsTyped, QueueTyped
  <2>3. CASE FindApp(job[2]) # activeApp
    <3>1. ActivateApp(job[2], job[2], <<>>)
      BY <1>8, <2>3 DEF DoAppSelect
    <3>2. <<>> \in Seq(Part)
      OBVIOUS
    <3>3. ViewTyped' /\ jobs' \in Seq(Job)
      BY <1>8, <2>1, <2>3, <3>1, <3>2, ActivateAppTyped
         DEF DoAppSelect, Do, ViewTyped, objs, Part
    <3> QED
      BY <1>8, <3>3, DoTyped DEF DoAppSelect, FlagsTyped
  <2> QED
    BY <2>2, <2>3
<1>9. CASE DoFlight
  <2>1. jobs' \in Seq(Job) /\ dirty' \subseteq Part
    <3>1. <<"CANVAS">> \in Seq(Part)
      BY DEF Part
    <3> QED
      BY <1>9, <3>1, InvalidateTyped DEF DoFlight, ViewTyped, QueueTyped
  <2>2. ViewTyped'
    BY <1>9, <2>1 DEF DoFlight, Do, ViewTyped, Part, objs
  <2> QED
    BY <1>9, <2>1, <2>2, DoTyped DEF DoFlight, FlagsTyped
<1>10. CASE DoTimer
  <2>1. jobs' \in Seq(Job) /\ dirty' \subseteq Part
    <3> DEFINE cs == IF "CANVAS" \in stale THEN <<"CANVAS">> ELSE <<>>
               ts == IF "TOOLBAR" \in stale THEN <<"TOOLBAR">> ELSE <<>>
               ps == cs \o ts
    <3>0. cs \in Seq(Part) /\ ts \in Seq(Part)
      <4>1. <<>> \in Seq(Part) /\ <<"CANVAS">> \in Seq(Part)
               /\ <<"TOOLBAR">> \in Seq(Part)
        BY DEF Part
      <4> QED
        BY <4>1
    <3>1. ps \in Seq(Part)
      BY <3>0, ConcatProperties
    <3>2. Invalidate(ps) \/ UNCHANGED <<dirty, jobs>>
      BY <1>10 DEF DoTimer
    <3> QED
      BY <3>1, <3>2, InvalidateTyped DEF ViewTyped, QueueTyped
  <2>2. tools' \in [pending : Apps \cup {NoApp}, active : Apps \cup {NoApp},
                    painted : Apps \cup {NoApp}]
    BY <1>10 DEF DoTimer, RepaintTools, ViewTyped
  <2>3. ViewTyped' /\ pendingCalls' \in Int
    BY <1>10, <2>1, <2>2 DEF DoTimer, Do, ViewTyped, objs
  <2> QED
    BY <1>10, <2>1, <2>3, DoTyped DEF DoTimer, FlagsTyped
<1>11. CASE DoNothing
  <2>1. ASSUME NEW k, Do(k) PROVE Typed'
    <3>1. ViewTyped'
      BY <1>11, <2>1 DEF DoNothing, Do, ViewTyped, objs, view
    <3> QED
      BY <1>11, <2>1, <3>1, DoTyped DEF DoNothing, FlagsTyped, QueueTyped
  <2> QED
    BY <1>11, <2>1 DEF DoNothing
<1> QED
  BY <1>1, <1>2, <1>3, <1>4, <1>5, <1>6, <1>7, <1>8, <1>9, <1>10, <1>11
     DEF RunJob

LEMMA TypedStep == Typed /\ [Next]_vars => Typed'
<1> SUFFICES ASSUME Typed, [Next]_vars PROVE Typed'
  OBVIOUS
<1>1. CASE Fault
  BY <1>1 DEF Fault, Typed, FlagsTyped, MainTyped, ViewTyped, QueueTyped,
              main, flags, objs, view, lvgl, queue
<1>2. CASE UNCHANGED vars
  BY <1>2 DEF Typed, FlagsTyped, MainTyped, ViewTyped, QueueTyped,
              vars, main, flags, objs, view, lvgl, queue
<1> QED
  BY <1>1, <1>2, TypedScript, TypedStop, TypedPosts, TypedTake, TypedRunJob
     DEF Next, Finished

-----------------------------------------------------------------------------
(* The LVGL manager and its timer jobs.  The jobs are told apart by their  *)
(* ordinals: each is queued or running at most once, and none is newer     *)
(* than the last one posted.                                               *)

IsTimer(j) == j[1] = "Timer"

TimersOnce ==
    /\ \A i \in DOMAIN jobs : IsTimer(jobs[i]) =>
          jobs[i][2] <= posted.timer /\ jobs[i] # job
    /\ IsTimer(job) => job[2] <= posted.timer
    /\ \A i, k \in DOMAIN jobs : IsTimer(jobs[i]) /\ jobs[i] = jobs[k] => i = k

TimerInv == TimersOnce /\ TimerJobsHaveManager

(* Queueing jobs that are no timer jobs leaves the outstanding ones.       *)
LEMMA OthersQueued ==
    ASSUME Typed, NEW js \in Seq(Job), RunLater(js), posted'.timer = posted.timer,
           \A i \in DOMAIN js : ~IsTimer(js[i]),
           job' = job \/ (~IsTimer(job) /\ job' = NoJob),
           mgr' = mgr, pendingCalls' = pendingCalls, TimerInv
    PROVE  TimerInv'
<1>1. jobs \in Seq(Job) /\ posted.timer \in Nat
  BY BoundsAssumption DEF Typed, QueueTyped
<1>2. /\ DOMAIN jobs' = 1..(Len(jobs) + Len(js)) /\ DOMAIN jobs = 1..Len(jobs)
      /\ \A i \in 1..Len(jobs) : jobs'[i] = jobs[i]
      /\ \A i \in 1..(Len(jobs) + Len(js)) : i > Len(jobs) => ~IsTimer(jobs'[i])
  BY <1>1 DEF RunLater
<1>3. \A i \in DOMAIN jobs' : IsTimer(jobs'[i]) =>
         i \in DOMAIN jobs /\ jobs'[i] = jobs[i]
  BY <1>1, <1>2
<1>4. TimersOnce'
  BY <1>1, <1>2, <1>3 DEF TimerInv, TimersOnce, IsTimer, NoJob
<1>5. TimersOutstanding' = TimersOutstanding
  <2>1. ASSUME NEW n \in 1..posted.timer
        PROVE  /\ job' = <<"Timer", n>> <=> job = <<"Timer", n>>
               /\ (\E i \in DOMAIN jobs' : jobs'[i] = <<"Timer", n>>)
                    <=> \E i \in DOMAIN jobs : jobs[i] = <<"Timer", n>>
    <3>1. job' = <<"Timer", n>> <=> job = <<"Timer", n>>
      BY DEF IsTimer, NoJob
    <3>2. IsTimer(<<"Timer", n>>)
      BY DEF IsTimer
    <3>3. DOMAIN jobs \subseteq DOMAIN jobs'
      BY <1>1, <1>2
    <3>4. \A i \in DOMAIN jobs : jobs'[i] = jobs[i]
      BY <1>2
    <3> QED
      BY <1>3, <3>1, <3>2, <3>3, <3>4
  <2> QED
    BY <2>1 DEF TimersOutstanding
<1> QED
  BY <1>4, <1>5 DEF TimerInv, TimerJobsHaveManager

LEMMA TimerPosted == Typed /\ TimerInv /\ PostTimer => TimerInv'
<1> SUFFICES ASSUME Typed, TimerInv, PostTimer PROVE TimerInv'
  OBVIOUS
<1> DEFINE n == posted.timer + 1
<1>1. jobs \in Seq(Job) /\ posted.timer \in Nat /\ pendingCalls \in Int
  BY BoundsAssumption DEF Typed, QueueTyped
<1>2. job' = job /\ mgr = "up" /\ mgr' = "up" /\ pendingCalls' = pendingCalls + 1
  BY DEF PostTimer
<1>3. posted'.timer = n
  BY DEF PostTimer, Typed, QueueTyped
<1>4. /\ DOMAIN jobs' = 1..(Len(jobs) + 1) /\ DOMAIN jobs = 1..Len(jobs)
      /\ \A i \in 1..Len(jobs) : jobs'[i] = jobs[i]
      /\ jobs'[Len(jobs) + 1] = <<"Timer", n>>
  BY <1>1 DEF PostTimer, RunLater
<1>5. Len(jobs) \in Nat
  BY <1>1
<1>6. \A i \in DOMAIN jobs' :
         \/ i \in DOMAIN jobs /\ jobs'[i] = jobs[i]
         \/ i = Len(jobs) + 1 /\ jobs'[i] = <<"Timer", n>>
  BY <1>4, <1>5
<1>7. job # <<"Timer", n>> /\ \A i \in DOMAIN jobs : jobs[i] # <<"Timer", n>>
  BY <1>1 DEF TimerInv, TimersOnce, IsTimer
<1>8. TimersOnce'
  <2>1. ASSUME NEW i \in DOMAIN jobs', IsTimer(jobs'[i])
        PROVE  jobs'[i][2] <= n /\ jobs'[i] # job
    <3>1. CASE jobs'[i] = <<"Timer", n>>
      BY <1>1, <1>7, <3>1
    <3>2. CASE i \in DOMAIN jobs /\ jobs'[i] = jobs[i]
      <4>1. jobs[i] \in Job
        BY <1>1, <1>4, <3>2
      <4>2. jobs[i][2] \in Int
        BY <2>1, <3>2, <4>1 DEF Job, IsTimer
      <4> QED
        BY <1>1, <2>1, <3>2, <4>2 DEF TimerInv, TimersOnce
    <3> QED
      BY <1>6, <3>1, <3>2
  <2>2. IsTimer(job) => job[2] <= n
    <3>1. IsTimer(job) => job[2] \in Int
      BY JobParts DEF IsTimer
    <3> QED
      BY <1>1, <3>1 DEF TimerInv, TimersOnce
  <2>3. ASSUME NEW i \in DOMAIN jobs', NEW k \in DOMAIN jobs',
               IsTimer(jobs'[i]), jobs'[i] = jobs'[k]
        PROVE  i = k
    BY <1>6, <1>7, <2>3 DEF TimerInv, TimersOnce
  <2> QED
    BY <1>2, <1>3, <2>1, <2>2, <2>3 DEF TimersOnce, IsTimer
<1>9. TimersOutstanding' = TimersOutstanding \cup {n}
  <2>1. \A m \in 1..n : m = n \/ m \in 1..posted.timer
    BY <1>1
  <2>2. 1..posted.timer \subseteq 1..n /\ n \in 1..n
    BY <1>1
  <2>3. \E i \in DOMAIN jobs' : jobs'[i] = <<"Timer", n>>
    BY <1>4, <1>5
  <2>4. DOMAIN jobs \subseteq DOMAIN jobs'
    BY <1>4, <1>5
  <2>5. \A m \in 1..posted.timer : <<"Timer", m>> # <<"Timer", n>>
    BY <1>1
  <2>6. TimersOutstanding' = {m \in 1..n : job = <<"Timer", m>>
                                \/ \E i \in DOMAIN jobs' : jobs'[i] = <<"Timer", m>>}
    BY <1>2, <1>3 DEF TimersOutstanding
  <2>7. ASSUME NEW m \in 1..posted.timer
        PROVE  (\E i \in DOMAIN jobs' : jobs'[i] = <<"Timer", m>>)
                  <=> \E i \in DOMAIN jobs : jobs[i] = <<"Timer", m>>
    BY <1>4, <1>6, <2>4, <2>5
  <2> QED
    BY <2>1, <2>2, <2>3, <2>6, <2>7 DEF TimersOutstanding
<1>10. n \notin TimersOutstanding /\ IsFiniteSet(TimersOutstanding)
  <2>1. TimersOutstanding \subseteq 1..posted.timer
    BY DEF TimersOutstanding
  <2>2. n \notin 1..posted.timer
    BY <1>1
  <2>3. IsFiniteSet(1..posted.timer)
    BY <1>1, FS_Interval
  <2> QED
    BY <2>1, <2>2, <2>3, FS_Subset
<1>11. Cardinality(TimersOutstanding') = Cardinality(TimersOutstanding) + 1
  BY <1>9, <1>10, FS_AddElement
<1> QED
  BY <1>2, <1>8, <1>11 DEF TimerInv, TimerJobsHaveManager

LEMMA TimerTaken == Typed /\ TimerInv /\ Take => TimerInv'
<1> SUFFICES ASSUME Typed, TimerInv, Take PROVE TimerInv'
  OBVIOUS
<1>1. jobs \in Seq(Job) /\ jobs # <<>> /\ job = NoJob /\ jobs' = Tail(jobs)
  BY DEF Take, Typed, QueueTyped
<1>2. posted' = posted /\ mgr' = mgr /\ pendingCalls' = pendingCalls
  BY DEF Take, lvgl
<1>3. \/ job' = Head(jobs)
      \/ job' = NoJob /\ ~IsTimer(Head(jobs))
  BY DEF Take, Ignored, IsTimer
<1>4. /\ Len(jobs) \in Nat /\ Len(jobs) > 0 /\ Head(jobs) = jobs[1]
      /\ DOMAIN jobs = 1..Len(jobs) /\ DOMAIN jobs' = 1..(Len(jobs) - 1)
      /\ \A i \in 1..(Len(jobs) - 1) : jobs'[i] = jobs[i + 1]
  BY <1>1
<1>5. \A i \in DOMAIN jobs' : i + 1 \in DOMAIN jobs /\ jobs'[i] = jobs[i + 1]
                              /\ i + 1 # 1
  BY <1>4
<1>6. \A k \in DOMAIN jobs :
         \/ k = 1
         \/ k - 1 \in DOMAIN jobs' /\ jobs'[k - 1] = jobs[k]
  BY <1>4
<1>7. 1 \in DOMAIN jobs
  BY <1>4
<1>8. TimersOnce'
  <2>1. ASSUME NEW i \in DOMAIN jobs', IsTimer(jobs'[i])
        PROVE  jobs'[i][2] <= posted.timer /\ jobs'[i] # job'
    <3>1. jobs'[i] = jobs[i + 1] /\ i + 1 \in DOMAIN jobs /\ i + 1 # 1
      BY <1>5
    <3>2. jobs[i + 1][2] <= posted.timer /\ jobs[i + 1] # jobs[1]
      BY <1>7, <2>1, <3>1 DEF TimerInv, TimersOnce
    <3>3. jobs[i + 1] # NoJob
      BY <2>1, <3>1 DEF IsTimer, NoJob
    <3> QED
      BY <1>3, <1>4, <3>1, <3>2, <3>3
  <2>2. IsTimer(job') => job'[2] <= posted.timer
    BY <1>3, <1>4, <1>7 DEF TimerInv, TimersOnce, IsTimer, NoJob
  <2>3. ASSUME NEW i \in DOMAIN jobs', NEW k \in DOMAIN jobs',
               IsTimer(jobs'[i]), jobs'[i] = jobs'[k]
        PROVE  i = k
    <3>1. i + 1 = k + 1
      BY <1>5, <2>3 DEF TimerInv, TimersOnce
    <3>2. i \in Int /\ k \in Int
      BY <1>4
    <3> QED
      BY <3>1, <3>2
  <2> QED
    BY <1>2, <2>1, <2>2, <2>3 DEF TimersOnce, IsTimer
<1>9. TimersOutstanding' = TimersOutstanding
  <2>1. ASSUME NEW n \in 1..posted.timer
        PROVE  (job' = <<"Timer", n>>
                  \/ \E i \in DOMAIN jobs' : jobs'[i] = <<"Timer", n>>)
               <=> (job = <<"Timer", n>>
                      \/ \E i \in DOMAIN jobs : jobs[i] = <<"Timer", n>>)
    <3>1. job # <<"Timer", n>> /\ NoJob # <<"Timer", n>> /\ IsTimer(<<"Timer", n>>)
      BY <1>1 DEF NoJob, IsTimer
    <3>2. job' = <<"Timer", n>> <=> jobs[1] = <<"Timer", n>>
      BY <1>3, <1>4, <3>1
    <3> QED
      BY <1>5, <1>6, <1>7, <3>1, <3>2
  <2> QED
    BY <1>2, <2>1 DEF TimersOutstanding
<1> QED
  BY <1>2, <1>8, <1>9 DEF TimerInv, TimerJobsHaveManager

LEMMA TimerRun == Typed /\ TimerInv /\ DoTimer => TimerInv'
<1> SUFFICES ASSUME Typed, TimerInv, DoTimer PROVE TimerInv'
  OBVIOUS
<1> DEFINE n == job[2]
<1>1. jobs \in Seq(Job) /\ posted.timer \in Nat /\ pendingCalls \in Int
  BY BoundsAssumption DEF Typed, QueueTyped
<1>2. /\ IsTimer(job) /\ job' = NoJob /\ mgr' = mgr /\ posted' = posted
      /\ pendingCalls' = pendingCalls - 1
  BY DEF DoTimer, Do, IsTimer
<1>3. job = <<"Timer", n>> /\ n \in 1..posted.timer
  <2>1. job \in Job /\ n \in 1..MaxTimers
    BY <1>2, JobParts DEF IsTimer
  <2>2. job = <<"Timer", n>>
    BY <1>2, <2>1 DEF Job, IsTimer
  <2> QED
    BY <1>1, <1>2, <2>1, <2>2 DEF TimerInv, TimersOnce
<1> DEFINE cs == IF "CANVAS" \in stale THEN <<"CANVAS">> ELSE <<>>
           ts == IF "TOOLBAR" \in stale THEN <<"TOOLBAR">> ELSE <<>>
           ps == cs \o ts
<1>4. PICK js \in Seq(Job) : RunLater(js) /\ \A i \in DOMAIN js : ~IsTimer(js[i])
  <2>1. ps \in Seq(Part)
    <3>1. <<>> \in Seq(Part) /\ <<"CANVAS">> \in Seq(Part)
             /\ <<"TOOLBAR">> \in Seq(Part)
      BY DEF Part
    <3>2. cs \in Seq(Part) /\ ts \in Seq(Part)
      BY <3>1
    <3> QED
      BY <3>2, ConcatProperties
  <2> HIDE DEF ps
  <2>2. CASE RunLater(Redraws(ps))
    <3>1. \A i \in DOMAIN Redraws(ps) : ~IsTimer(Redraws(ps)[i])
      BY <2>1, RedrawsTyped DEF IsTimer
    <3> QED
      BY <2>1, <2>2, <3>1, RedrawsTyped
  <2>3. CASE UNCHANGED jobs
    <3>1. <<>> \in Seq(Job) /\ RunLater(<<>>) /\ DOMAIN <<>> = {}
      BY <1>1, <2>3 DEF RunLater
    <3> QED
      BY <3>1
  <2> QED
    BY <2>2, <2>3 DEF DoTimer, Invalidate, ps
<1>5. /\ Len(jobs) \in Nat /\ Len(js) \in Nat
      /\ DOMAIN jobs' = 1..(Len(jobs) + Len(js)) /\ DOMAIN jobs = 1..Len(jobs)
      /\ \A i \in 1..Len(jobs) : jobs'[i] = jobs[i]
      /\ \A i \in 1..(Len(jobs) + Len(js)) : i > Len(jobs) => ~IsTimer(jobs'[i])
  BY <1>1, <1>4 DEF RunLater
<1>6. \A i \in DOMAIN jobs' : IsTimer(jobs'[i]) =>
         i \in DOMAIN jobs /\ jobs'[i] = jobs[i]
  BY <1>5
<1>7. \A i \in DOMAIN jobs : i \in DOMAIN jobs' /\ jobs'[i] = jobs[i]
  BY <1>5
<1>8. TimersOnce'
  BY <1>2, <1>6 DEF TimerInv, TimersOnce, IsTimer, NoJob
<1>9. TimersOutstanding' = TimersOutstanding \ {n}
  <2>1. ASSUME NEW m \in 1..posted.timer
        PROVE  (job' = <<"Timer", m>>
                  \/ \E i \in DOMAIN jobs' : jobs'[i] = <<"Timer", m>>)
               <=> (m # n /\ \/ job = <<"Timer", m>>
                             \/ \E i \in DOMAIN jobs : jobs[i] = <<"Timer", m>>)
    <3>1. NoJob # <<"Timer", m>> /\ IsTimer(<<"Timer", m>>)
      BY DEF NoJob, IsTimer
    <3>2. <<"Timer", m>> = <<"Timer", n>> <=> m = n
      OBVIOUS
    <3>3. \A i \in DOMAIN jobs : jobs[i] # <<"Timer", n>>
      BY <1>2, <1>3 DEF TimerInv, TimersOnce
    <3>4. (\E i \in DOMAIN jobs' : jobs'[i] = <<"Timer", m>>)
             <=> \E i \in DOMAIN jobs : jobs[i] = <<"Timer", m>>
      BY <1>6, <1>7, <3>1
    <3> QED
      BY <1>2, <1>3, <3>1, <3>2, <3>3, <3>4
  <2> QED
    BY <1>2, <2>1 DEF TimersOutstanding
<1>10. n \in TimersOutstanding /\ IsFiniteSet(TimersOutstanding)
  <2>1. TimersOutstanding \subseteq 1..posted.timer
    BY DEF TimersOutstanding
  <2>2. IsFiniteSet(1..posted.timer)
    BY <1>1, FS_Interval
  <2> QED
    BY <1>3, <2>1, <2>2, FS_Subset DEF TimersOutstanding
<1>11. Cardinality(TimersOutstanding') = Cardinality(TimersOutstanding) - 1
  BY <1>9, <1>10, FS_RemoveElement
<1> QED
  BY <1>2, <1>8, <1>9, <1>11 DEF TimerInv, TimerJobsHaveManager

(* An action that neither posts nor runs a job.                            *)
LEMMA OthersIdle ==
    ASSUME Typed, jobs' = jobs, posted'.timer = posted.timer,
           job' = job \/ (~IsTimer(job) /\ job' = NoJob),
           mgr' = mgr, pendingCalls' = pendingCalls, TimerInv
    PROVE  TimerInv'
<1>1. <<>> \in Seq(Job) /\ RunLater(<<>>) /\ DOMAIN <<>> = {}
  BY DEF RunLater, Typed, QueueTyped
<1> QED
  BY <1>1, OthersQueued

LEMMA RedrawsQueued ==
    ASSUME Typed, NEW ps \in Seq(Part), Invalidate(ps), posted'.timer = posted.timer,
           job' = job \/ (~IsTimer(job) /\ job' = NoJob),
           mgr' = mgr, pendingCalls' = pendingCalls, TimerInv
    PROVE  TimerInv'
<1>1. Redraws(ps) \in Seq(Job) /\ RunLater(Redraws(ps))
  BY RedrawsTyped DEF Invalidate
<1>2. \A i \in DOMAIN Redraws(ps) : ~IsTimer(Redraws(ps)[i])
  BY RedrawsTyped DEF IsTimer
<1> QED
  BY <1>1, <1>2, OthersQueued

LEMMA OneQueued ==
    ASSUME Typed, NEW j \in Job, ~IsTimer(j), RunLater(<<j>>),
           posted'.timer = posted.timer,
           job' = job \/ (~IsTimer(job) /\ job' = NoJob),
           mgr' = mgr, pendingCalls' = pendingCalls, TimerInv
    PROVE  TimerInv'
<1>1. <<j>> \in Seq(Job)
  OBVIOUS
<1>2. \A i \in DOMAIN <<j>> : ~IsTimer(<<j>>[i])
  OBVIOUS
<1> QED
  BY <1>1, <1>2, OthersQueued

LEMMA TimerManager ==
    ASSUME Typed, TimerInv, Start \/ JoinLooper \/ AwaitCalls
    PROVE  TimerInv'
<1>1. UNCHANGED <<jobs, job, posted, pendingCalls>>
  BY DEF Start, JoinLooper, AwaitCalls, queue
<1>2. TimersOutstanding' = TimersOutstanding /\ TimersOnce'
  BY <1>1 DEF TimersOutstanding, TimerInv, TimersOnce, IsTimer
<1>3. mgr' = "gone" => TimersOutstanding = {}
  <2>1. CASE AwaitCalls
    <3>1. Cardinality(TimersOutstanding) = 0
      BY <2>1 DEF AwaitCalls, TimerInv, TimerJobsHaveManager
    <3>2. IsFiniteSet(TimersOutstanding)
      <4>1. TimersOutstanding \subseteq 1..posted.timer
        BY DEF TimersOutstanding
      <4>2. IsFiniteSet(1..posted.timer)
        BY FS_Interval, BoundsAssumption DEF Typed, QueueTyped
      <4> QED
        BY <4>1, <4>2, FS_Subset
    <3> QED
      BY <3>1, <3>2, FS_EmptySet
  <2>2. CASE Start \/ JoinLooper
    BY <2>2 DEF Start, JoinLooper
  <2> QED
    BY <2>1, <2>2
<1> QED
  BY <1>1, <1>2, <1>3 DEF TimerInv, TimerJobsHaveManager

LEMMA TimerMain ==
    ASSUME Typed, TimerInv,
           \/ SimConnect \/ MakePart \/ CreateWindow
           \/ CreateWindowFails \/ NotifyResize \/ Activate
           \/ WindowResized \/ EventLoopReturns \/ Deactivate \/ SimDisconnect
           \/ DropPart \/ DropActive \/ DropApps \/ DropProviders \/ DropDocs
           \/ StopWorker \/ JoinWorker
           \/ PostSimUpdates \/ \E p \in Part : Gesture(p)
    PROVE  TimerInv'
<1>1. /\ job' = job /\ posted'.timer = posted.timer
      /\ mgr' = mgr /\ pendingCalls' = pendingCalls
  BY DEF SimConnect, MakePart, CreateWindow, CreateWindowFails, NotifyResize,
         Activate, WindowResized, EventLoopReturns, Deactivate, SimDisconnect,
         DropPart, DropActive, DropApps, DropProviders, DropDocs, StopWorker, JoinWorker, PostSimUpdates,
         Gesture, Event, queue, lvgl, Typed, QueueTyped
<1>2. CASE UNCHANGED jobs
  BY <1>1, <1>2, OthersIdle
<1>3. CASE MakePart
  <2>1. Head(todo) \in Part
    BY <1>3, HeadTailProperties DEF MakePart, Typed, MainTyped
  <2>2. <<"Painter", Head(todo)>> \in Job
         /\ ~IsTimer(<<"Painter", Head(todo)>>)
    BY <2>1, JobKinds DEF IsTimer
  <2> QED
    BY <1>1, <1>3, <2>2, OneQueued DEF MakePart
<1>4. CASE NotifyResize
  <2>1. Head(todo) \in Part
    BY <1>4, HeadTailProperties DEF NotifyResize, Typed, MainTyped
  <2>2. <<"Resize", Head(todo)>> \in Job
         /\ ~IsTimer(<<"Resize", Head(todo)>>)
    BY <2>1, JobKinds DEF IsTimer
  <2> QED
    BY <1>1, <1>4, <2>2, OneQueued DEF NotifyResize
<1>5. CASE StopWorker
  <2>1. <<"Null">> \in Job /\ ~IsTimer(<<"Null">>)
    BY JobKinds DEF IsTimer
  <2> QED
    BY <1>1, <1>5, <2>1, OneQueued DEF StopWorker
<1>6. CASE PostSimUpdates
  <2>1. <<"Flight">> \in Job /\ ~IsTimer(<<"Flight">>)
    BY JobKinds DEF IsTimer
  <2> QED
    BY <1>1, <1>6, <2>1, OneQueued DEF PostSimUpdates
<1>7. ASSUME NEW p \in Part, Gesture(p) PROVE TimerInv'
  <2>1. <<"Mouse", p>> \in Job /\ ~IsTimer(<<"Mouse", p>>)
    BY JobKinds DEF IsTimer
  <2> QED
    BY <1>1, <1>7, <2>1, OneQueued DEF Gesture
<1>8. \/ UNCHANGED jobs \/ MakePart \/ NotifyResize \/ StopWorker
      \/ PostSimUpdates \/ \E p \in Part : Gesture(p)
  BY DEF SimConnect, CreateWindow, CreateWindowFails, Activate, WindowResized,
         EventLoopReturns, Deactivate, SimDisconnect, DropPart, DropActive,
         DropApps, DropProviders, DropDocs, JoinWorker, queue
<1> QED
  BY <1>2, <1>3, <1>4, <1>5, <1>6, <1>7, <1>8

LEMMA TimerRunJob == Typed /\ TimerInv /\ RunJob => TimerInv'
<1> SUFFICES ASSUME Typed, TimerInv, RunJob, ~DoTimer PROVE TimerInv'
  BY TimerRun
<1>1. /\ ~IsTimer(job) /\ job' = NoJob /\ posted'.timer = posted.timer
      /\ mgr' = mgr /\ pendingCalls' = pendingCalls
  BY DEF RunJob, DoPainter, DoResizeCanvas, DoResizeToolbar, DoResizeOther,
         DoRedraw, DoMouse, DoToolClick, DoAppSelect, DoFlight, DoNothing, Do,
         IsTimer
<1>2. CASE UNCHANGED jobs
  BY <1>1, <1>2, OthersIdle
<1>3. ASSUME NEW ps \in Seq(Part), Invalidate(ps) PROVE TimerInv'
  BY <1>1, <1>3, RedrawsQueued
<1>4. ASSUME NEW a, NEW mode, NEW ps \in Seq(Part), ActivateApp(a, mode, ps)
      PROVE  TimerInv'
  <2> DEFINE ms == IF highlight # mode /\ "MODEBAR" \in sized
                   THEN <<"MODEBAR">> ELSE <<>>
             rs == <<"TOOLBAR">> \o ms \o ps
  <2>1. <<"TOOLBAR">> \in Seq(Part) /\ ms \in Seq(Part)
    <3>1. <<>> \in Seq(Part) /\ <<"TOOLBAR">> \in Seq(Part)
             /\ <<"MODEBAR">> \in Seq(Part)
      BY DEF Part
    <3> QED
      BY <3>1
  <2>2. Invalidate(rs)
    BY <1>4 DEF ActivateApp
  <2> HIDE DEF ms
  <2>3. rs \in Seq(Part)
    <3>1. <<"TOOLBAR">> \o ms \in Seq(Part)
      BY <2>1, ConcatProperties
    <3> QED
      BY <3>1, ConcatProperties
  <2> QED
    BY <1>3, <2>2, <2>3
<1>5. <<>> \in Seq(Part) /\ \A p \in Part : <<p>> \in Seq(Part)
  OBVIOUS
<1>6. "CANVAS" \in Part /\ "TOOLBAR" \in Part
  BY DEF Part
<1>7. CASE DoPainter \/ DoResizeToolbar \/ DoRedraw \/ DoToolClick \/ DoNothing
  BY <1>2, <1>7 DEF DoPainter, DoResizeToolbar, DoRedraw, DoToolClick, DoNothing
<1>8. CASE DoResizeCanvas
  BY <1>3, <1>4, <1>5, <1>6, <1>8 DEF DoResizeCanvas
<1>9. CASE DoResizeOther
  <2>1. job[2] \in Part
    BY <1>9 DEF DoResizeOther, Part
  <2> QED
    BY <1>2, <1>3, <1>5, <1>9, <2>1 DEF DoResizeOther
<1>10. CASE DoMouse
  <2>1. ASSUME NEW c \in Job, ~IsTimer(c), RunLater(<<c>>) PROVE TimerInv'
    BY <1>1, <2>1, OneQueued
  <2>2. \A c \in Clicks(job[2]) : c \in Job /\ ~IsTimer(c)
    BY JobKinds DEF Clicks, Tools, IsTimer
  <2>3. CASE \E c \in Clicks(job[2]) : RunLater(<<c>>)
    BY <2>1, <2>2, <2>3
  <2>4. CASE RunLater(<< <<"CanvasMouse">> >>)
    BY <2>1, <2>4, JobKinds DEF IsTimer
  <2>5. \/ UNCHANGED jobs
        \/ \E c \in Clicks(job[2]) : RunLater(<<c>>)
        \/ RunLater(<< <<"CanvasMouse">> >>)
    BY <1>10, Zenon DEF DoMouse
  <2> QED
    BY <1>2, <2>3, <2>4, <2>5
<1>11. CASE DoAppSelect
  BY <1>2, <1>4, <1>5, <1>11 DEF DoAppSelect
<1>12. CASE DoFlight
  BY <1>2, <1>3, <1>5, <1>6, <1>12 DEF DoFlight
<1> QED
  BY <1>7, <1>8, <1>9, <1>10, <1>11, <1>12 DEF RunJob

LEMMA TimerStep == Typed /\ TimerInv /\ [Next]_vars => TimerInv'
<1> SUFFICES ASSUME Typed, TimerInv, [Next]_vars PROVE TimerInv'
  OBVIOUS
<1>1. CASE Fault
  BY <1>1, OthersIdle DEF Fault, queue, lvgl
<1>2. CASE UNCHANGED vars
  BY <1>2, OthersIdle DEF vars, queue, lvgl
<1> QED
  BY <1>1, <1>2, TimerManager, TimerMain, TimerPosted, TimerTaken, TimerRunJob
     DEF Next, Stop, StopStep, Finished

LEMMA TimerInit == Init => TimerInv
<1> SUFFICES ASSUME Init PROVE TimerInv
  OBVIOUS
<1>1. DOMAIN jobs = {}
  BY DEF Init
<1>2. TimersOutstanding = {}
  BY <1>1 DEF Init, TimersOutstanding
<1>3. TimersOnce
  BY <1>1 DEF Init, TimersOnce, IsTimer, NoJob
<1> QED
  BY <1>2, <1>3, FS_EmptySet DEF Init, TimerInv, TimerJobsHaveManager

LEMMA TypedAndTimers == SafeSpec => [](Typed /\ TimerInv)
<1>1. Init => Typed /\ TimerInv
  BY TypedInit, TimerInit
<1>2. Typed /\ TimerInv /\ [Next]_vars => (Typed /\ TimerInv)'
  BY TypedStep, TimerStep
<1> QED
  BY <1>1, <1>2, PTL DEF SafeSpec

(* TimerJobsHaveManager: ~Manager (toolkit.cpp:30) returns only when no    *)
(* timer job is queued or running, and none comes after it, whatever the   *)
(* looper posted before it was joined.                                     *)
THEOREM ManagerOutlivesTimers == SafeSpec => []TimerJobsHaveManager
<1>1. Typed /\ TimerInv => TimerJobsHaveManager
  BY DEF TimerInv
<1> QED
  BY <1>1, TypedAndTimers, PTL

(* TypeOK: every field keeps its type; in particular the job in the        *)
(* worker's hands and the queue hold only the closures that the code       *)
(* posts, and pendingCalls, counted down by a job (toolkit.cpp:82), is     *)
(* never negative.                                                         *)
THEOREM CoreTypeCorrect == SafeSpec => []TypeOK
<1>1. Typed /\ TimerInv => TypeOK
  <2> SUFFICES ASSUME Typed, TimerInv PROVE TypeOK
    OBVIOUS
  <2>1. TimersOutstanding \subseteq 1..posted.timer
    BY DEF TimersOutstanding
  <2>2. IsFiniteSet(1..posted.timer)
    BY FS_Interval, BoundsAssumption DEF Typed, QueueTyped
  <2>3. Cardinality(TimersOutstanding) \in Nat
    BY <2>1, <2>2, FS_Subset, FS_CardinalityType
  <2> QED
    BY <2>3 DEF Typed, TypeOK, TimerInv, TimerJobsHaveManager
<1> QED
  BY <1>1, TypedAndTimers, PTL

-----------------------------------------------------------------------------
(* Painters before dirty bits.  Until the last SetPainter has run, nothing *)
(* has an image, a stale display or a dirty bit, and the jobs that could   *)
(* change that are queued behind the SetPainters.                          *)

Opening == pc \in {"new", "started", "connect"}

EarlyJob(j) == j[1] \in {"Painter", "Flight", "Timer"}

Quiet == sized = {} /\ stale = {} /\ dirty = {} /\ (job = NoJob \/ EarlyJob(job))

PainterQueued(p) ==
    \E i \in DOMAIN jobs : /\ jobs[i] = <<"Painter", p>>
                           /\ \A k \in 1..i : EarlyJob(jobs[k])

PainterOwed(p) ==
    \/ pc \in {"new", "started"}
    \/ pc = "connect" /\ \E k \in DOMAIN todo : todo[k] = p
    \/ job = <<"Painter", p>>
    \/ PainterQueued(p)

PainterInv ==
    /\ Opening \/ painter # Part => Quiet
    /\ Opening => \A i \in DOMAIN jobs : EarlyJob(jobs[i])
    /\ \A p \in Part \ painter : PainterOwed(p)

LEMMA PainterInit == Init => PainterInv
<1>1. Init => DOMAIN jobs = {}
  BY DEF Init
<1> QED
  BY <1>1 DEF Init, PainterInv, Opening, Quiet, PainterOwed

(* Once every part has its painter and the window is there, the invariant  *)
(* has nothing more to say.                                                *)
LEMMA PaintersKept == Typed /\ [Next]_vars => painter \subseteq painter'
<1> SUFFICES ASSUME Typed, [Next]_vars PROVE painter \subseteq painter'
  OBVIOUS
<1>1. CASE RunJob
  BY <1>1 DEF RunJob, DoPainter, DoResizeCanvas, DoResizeToolbar, DoResizeOther,
              DoRedraw, DoMouse, DoToolClick, DoAppSelect, DoFlight, DoTimer,
              DoNothing, view
<1>2. CASE Stop
  BY <1>2 DEF Stop, StopStep, DropPart, DropActive, DropApps, JoinLooper, AwaitCalls,
              DropProviders, DropDocs, StopWorker, JoinWorker, view
<1>3. CASE UNCHANGED vars
  BY <1>3 DEF vars, view
<1> QED
  BY <1>1, <1>2, <1>3
     DEF Next, Finished, Start, SimConnect, MakePart, CreateWindow,
         CreateWindowFails, NotifyResize, Activate, WindowResized, Gesture,
         EventLoopReturns, Deactivate, SimDisconnect, PostSimUpdates, PostTimer,
         Take, Fault, view

LEMMA NeverReopens == [Next]_vars /\ ~Opening => ~Opening'
<1> SUFFICES ASSUME [Next]_vars, ~Opening PROVE ~Opening'
  OBVIOUS
<1>1. CASE RunJob
  BY <1>1 DEF RunJob, DoPainter, DoResizeCanvas, DoResizeToolbar, DoResizeOther,
              DoRedraw, DoMouse, DoToolClick, DoAppSelect, DoFlight, DoTimer,
              DoNothing, Do, main, Opening
<1>2. CASE Stop
  BY <1>2 DEF Stop, StopStep, DropPart, DropActive, DropApps, JoinLooper, AwaitCalls,
              DropProviders, DropDocs, StopWorker, JoinWorker, Script, Opening
<1>3. CASE UNCHANGED vars
  BY <1>3 DEF vars, main, Opening
<1> QED
  BY <1>1, <1>2, <1>3
     DEF Next, Finished, Start, SimConnect, MakePart, CreateWindow,
         CreateWindowFails, NotifyResize, Activate, WindowResized, Gesture,
         EventLoopReturns, Deactivate, SimDisconnect, PostSimUpdates, PostTimer,
         Take, Fault, Script, Event, main, Opening

LEMMA PaintersDone ==
    ASSUME Typed, [Next]_vars, PainterInv, ~Opening, painter = Part
    PROVE  PainterInv'
<1>1. painter' = Part
  BY PaintersKept, TypedStep DEF Typed, ViewTyped
<1> QED
  BY <1>1, NeverReopens DEF PainterInv

(* A step that queues jobs behind those that are there.                    *)
LEMMA PainterQueueGrows ==
    ASSUME Typed, PainterInv, Opening \/ painter # Part,
           NEW js \in Seq(Job), RunLater(js),
           UNCHANGED <<job, painter, sized, dirty>>, stale' \subseteq stale,
           Opening' => Opening /\ \A i \in DOMAIN js : EarlyJob(js[i]),
           \A p \in Part : PainterOwed(p) /\ ~PainterQueued(p) => PainterOwed(p)'
    PROVE  PainterInv'
<1>1. jobs \in Seq(Job)
  BY DEF Typed, QueueTyped
<1>2. Quiet'
  BY DEF PainterInv, Quiet, EarlyJob
<1>3. ASSUME Opening', NEW i \in DOMAIN jobs' PROVE EarlyJob(jobs'[i])
  <2>1. DOMAIN jobs' = 1..(Len(jobs) + Len(js)) /\ DOMAIN jobs = 1..Len(jobs)
           /\ DOMAIN js = 1..Len(js)
           /\ jobs'[i] = IF i <= Len(jobs) THEN jobs[i] ELSE js[i - Len(jobs)]
    BY <1>1, ConcatProperties DEF RunLater
  <2>2. CASE i <= Len(jobs)
    BY <1>1, <1>3, <2>1, <2>2 DEF PainterInv
  <2>3. CASE i > Len(jobs)
    <3>1. i - Len(jobs) \in DOMAIN js
      BY <1>1, <2>1, <2>3
    <3> QED
      BY <1>1, <1>3, <2>1, <2>3, <3>1
  <2> QED
    BY <1>1, <2>1, <2>2, <2>3
<1>4. ASSUME NEW p \in Part, PainterQueued(p) PROVE PainterQueued(p)'
  <2>1. PICK i \in DOMAIN jobs : /\ jobs[i] = <<"Painter", p>>
                                 /\ \A k \in 1..i : EarlyJob(jobs[k])
    BY <1>4 DEF PainterQueued
  <2>2. /\ i \in 1..Len(jobs) /\ Len(jobs) \in Nat
        /\ DOMAIN jobs \subseteq DOMAIN jobs'
        /\ \A k \in 1..Len(jobs) : jobs'[k] = jobs[k]
    BY <1>1, ConcatProperties DEF RunLater
  <2>3. \A k \in 1..i : EarlyJob(jobs[k])' 
    BY <2>1, <2>2 DEF EarlyJob
  <2> QED
    BY <2>1, <2>2, <2>3 DEF PainterQueued, EarlyJob
<1> QED
  BY <1>2, <1>3, <1>4 DEF PainterInv, PainterOwed, EarlyJob

LEMMA PainterMain ==
    ASSUME Typed, PainterInv, Opening \/ painter # Part,
           \/ Start \/ SimConnect \/ MakePart \/ CreateWindow
           \/ CreateWindowFails \/ NotifyResize \/ Activate
           \/ WindowResized \/ EventLoopReturns \/ Deactivate \/ SimDisconnect
           \/ Stop
           \/ PostSimUpdates \/ PostTimer \/ \E p \in Part : Gesture(p)
    PROVE  PainterInv'
<1>0. jobs \in Seq(Job) /\ <<>> \in Seq(Job) /\ todo \in Seq(Part)
  BY DEF Typed, QueueTyped, MainTyped
<1>1. ASSUME UNCHANGED <<jobs, job, painter, sized, dirty>>, stale' \subseteq stale,
             Opening' => Opening,
             \A p \in Part : PainterOwed(p) /\ ~PainterQueued(p) => PainterOwed(p)'
      PROVE  PainterInv'
  <2>1. RunLater(<<>>) /\ DOMAIN <<>> = {}
    BY <1>0, <1>1 DEF RunLater
  <2> QED
    BY <1>0, <1>1, <2>1, PainterQueueGrows
<1>2. ASSUME NEW j \in Job, RunLater(<<j>>), Opening' => Opening /\ EarlyJob(j),
             UNCHANGED <<job, painter, sized, dirty, stale>>,
             \A p \in Part : PainterOwed(p) /\ ~PainterQueued(p) => PainterOwed(p)'
      PROVE  PainterInv'
  <2>1. <<j>> \in Seq(Job) /\ \A i \in DOMAIN <<j>> : <<j>>[i] = j
    OBVIOUS
  <2> QED
    BY <1>2, <2>1, PainterQueueGrows
<1>3. CASE Start
  BY <1>1, <1>3 DEF Start, Script, Opening, PainterOwed, view, queue
<1>4. CASE SimConnect
  <2>1. \A p \in Part : \E k \in DOMAIN todo' : todo'[k] = p
    BY <1>4 DEF SimConnect, ConnectOrder, Part
  <2> QED
    BY <1>1, <1>4, <2>1 DEF SimConnect, Script, Opening, PainterOwed, view, queue
<1>5. CASE MakePart
  <2>0. Head(todo) \in Part
    BY <1>0, <1>5, HeadTailProperties DEF MakePart
  <2> PICK q \in Part : q = Head(todo)
    BY <2>0
  <2>1. /\ pc = "connect" /\ pc' = "connect" /\ todo' = Tail(todo)
        /\ RunLater(<< <<"Painter", q>> >>)
        /\ UNCHANGED <<job, painter, sized, dirty, stale>>
    BY <1>5 DEF MakePart, Script, view
  <2>2. /\ DOMAIN todo = 1..Len(todo) /\ Len(todo) \in Nat /\ q = todo[1]
        /\ DOMAIN todo' = 1..(Len(todo) - 1)
        /\ \A k \in 1..(Len(todo) - 1) : todo'[k] = todo[k + 1]
    BY <1>0, <1>5 DEF MakePart, Script
  <2>3. <<"Painter", q>> \in Job /\ EarlyJob(<<"Painter", q>>)
    BY JobKinds DEF EarlyJob
  <2>4. PainterQueued(q)'
    <3>1. /\ DOMAIN jobs' = 1..(Len(jobs) + 1) /\ Len(jobs) \in Nat
          /\ DOMAIN jobs = 1..Len(jobs)
          /\ \A i \in 1..Len(jobs) : jobs'[i] = jobs[i]
          /\ jobs'[Len(jobs) + 1] = <<"Painter", q>>
      BY <1>0, <2>1 DEF RunLater
    <3>2. \A i \in DOMAIN jobs : EarlyJob(jobs[i])
      BY <2>1 DEF PainterInv, Opening
    <3>3. \A i \in 1..(Len(jobs) + 1) : EarlyJob(jobs'[i])
      BY <2>3, <3>1, <3>2 DEF EarlyJob
    <3>4. Len(jobs) + 1 \in DOMAIN jobs'
      BY <3>1
    <3> QED
      BY <3>1, <3>3, <3>4 DEF PainterQueued, EarlyJob
  <2>5. ASSUME NEW p \in Part, PainterOwed(p), ~PainterQueued(p) PROVE PainterOwed(p)'
    <3>1. CASE p = q
      BY <2>4, <3>1 DEF PainterOwed
    <3>2. CASE p # q
      <4>1. CASE job = <<"Painter", p>>
        BY <2>1, <4>1 DEF PainterOwed
      <4>2. ASSUME NEW k \in DOMAIN todo, todo[k] = p PROVE PainterOwed(p)'
        <5>1. k - 1 \in DOMAIN todo' /\ todo'[k - 1] = p
          BY <2>2, <3>2, <4>2
        <5> QED
          BY <2>1, <5>1 DEF PainterOwed
      <4> QED
        BY <2>1, <2>5, <4>1, <4>2 DEF PainterOwed
    <3> QED
      BY <3>1, <3>2
  <2> QED
    BY <1>2, <2>1, <2>3, <2>5 DEF Opening
<1>6. CASE CreateWindow
  <2>1. DOMAIN todo = {}
    BY <1>6 DEF CreateWindow
  <2> QED
    BY <1>1, <1>6, <2>1 DEF CreateWindow, Script, Opening, PainterOwed, view, queue
<1>7. CASE CreateWindowFails
  BY <1>1, <1>7 DEF CreateWindowFails, Opening, PainterOwed, PainterQueued, main,
                    view, queue
<1>8. CASE NotifyResize
  <2>1. Head(todo) \in Part
    BY <1>0, <1>8, HeadTailProperties DEF NotifyResize
  <2>2. <<"Resize", Head(todo)>> \in Job
    BY <2>1, JobKinds
  <2>3. \A p \in Part : PainterOwed(p) /\ ~PainterQueued(p) => PainterOwed(p)'
    BY <1>8 DEF NotifyResize, PainterOwed
  <2> QED
    BY <1>2, <1>8, <2>2, <2>3 DEF NotifyResize, Opening, view
<1>9. CASE Activate \/ EventLoopReturns \/ Deactivate \/ SimDisconnect
  BY <1>1, <1>9 DEF Activate, EventLoopReturns, Deactivate, SimDisconnect,
                    Script, Opening, PainterOwed, view, queue
<1>10. CASE WindowResized
  BY <1>1, <1>10 DEF WindowResized, Event, InEventLoop, Opening, PainterOwed, view, queue
<1>11. CASE DropPart \/ DropActive \/ DropApps \/ JoinLooper \/ AwaitCalls \/ JoinWorker
           \/ DropProviders \/ DropDocs
  BY <1>1, <1>11 DEF DropPart, DropActive, DropApps, JoinLooper, AwaitCalls,
                     JoinWorker, DropProviders, DropDocs, Script, Opening, PainterOwed, view, queue
<1>12. CASE StopWorker
  BY <1>2, <1>12, JobKinds DEF StopWorker, Script, Opening, PainterOwed, view
<1>13. CASE PostSimUpdates
  <2>1. EarlyJob(<<"Flight">>)
    BY DEF EarlyJob
  <2> QED
    BY <1>2, <1>13, <2>1, JobKinds DEF PostSimUpdates, Opening, PainterOwed, main, view
<1>14. CASE PostTimer
  <2> DEFINE j == <<"Timer", posted.timer + 1>>
  <2>1. posted.timer + 1 \in 1..MaxTimers
    BY <1>14, BoundsAssumption DEF PostTimer, Typed, QueueTyped
  <2>2. j \in Job /\ EarlyJob(j)
    BY <2>1, JobKinds DEF EarlyJob
  <2> QED
    BY <1>2, <1>14, <2>2 DEF PostTimer, Opening, PainterOwed, main, view
<1>15. ASSUME NEW q \in Part, Gesture(q) PROVE PainterInv'
  <2>1. ~Opening /\ ~Opening' /\ job' = job
    BY <1>15 DEF Gesture, Event, InEventLoop, Opening, main
  <2>2. \A p \in Part : PainterOwed(p) /\ ~PainterQueued(p) => PainterOwed(p)'
    BY <2>1 DEF PainterOwed, Opening
  <2> QED
    BY <1>2, <1>15, <2>1, <2>2, JobKinds DEF Gesture, view
<1> QED
  BY <1>3, <1>4, <1>5, <1>6, <1>7, <1>8, <1>9, <1>10, <1>11, <1>12, <1>13, <1>14,
     <1>15 DEF Stop, StopStep

LEMMA PainterTaken ==
    ASSUME Typed, PainterInv, Opening \/ painter # Part, Take
    PROVE  PainterInv'
<1>1. jobs \in Seq(Job) /\ jobs # <<>> /\ job = NoJob /\ jobs' = Tail(jobs)
  BY DEF Take, Typed, QueueTyped
<1>2. UNCHANGED <<pc, todo, painter, sized, dirty, stale>>
  BY DEF Take, main, view
<1>3. /\ Len(jobs) \in Nat /\ Len(jobs) > 0 /\ Head(jobs) = jobs[1]
      /\ DOMAIN jobs = 1..Len(jobs) /\ DOMAIN jobs' = 1..(Len(jobs) - 1)
      /\ \A i \in 1..(Len(jobs) - 1) : jobs'[i] = jobs[i + 1]
  BY <1>1
<1>4. job' = NoJob \/ job' = jobs[1]
  BY <1>3 DEF Take
<1>5. EarlyJob(jobs[1])
  <2>1. CASE Opening
    BY <1>3, <2>1 DEF PainterInv
  <2>2. ASSUME NEW p \in Part \ painter, ~Opening PROVE EarlyJob(jobs[1])
    <3>1. PainterQueued(p)
      BY <1>1, <2>2 DEF PainterInv, PainterOwed, Opening, NoJob
    <3> QED
      BY <1>3, <3>1 DEF PainterQueued
  <2>3. Opening \/ \E p \in Part : p \notin painter
    BY DEF Typed, ViewTyped
  <2> QED
    BY <2>1, <2>2, <2>3
<1>6. Quiet'
  BY <1>2, <1>4, <1>5 DEF PainterInv, Quiet, EarlyJob
<1>7. Opening' => \A i \in DOMAIN jobs' : EarlyJob(jobs'[i])
  BY <1>2, <1>3 DEF PainterInv, Opening
<1>8. ASSUME NEW p \in Part \ painter PROVE PainterOwed(p)'
  <2>1. CASE PainterQueued(p)
    <3>1. PICK i \in DOMAIN jobs : /\ jobs[i] = <<"Painter", p>>
                                   /\ \A k \in 1..i : EarlyJob(jobs[k])
      BY <2>1 DEF PainterQueued
    <3>2. CASE i = 1
      BY <1>3, <3>1, <3>2 DEF Take, Ignored, PainterOwed
    <3>3. CASE i # 1
      <4>1. /\ i - 1 \in DOMAIN jobs' /\ jobs'[i - 1] = <<"Painter", p>>
            /\ \A k \in 1..(i - 1) : EarlyJob(jobs'[k])
        BY <1>3, <3>1, <3>3
      <4> QED
        BY <4>1 DEF PainterOwed, PainterQueued, EarlyJob
    <3> QED
      BY <3>2, <3>3
  <2>2. CASE ~PainterQueued(p)
    BY <1>1, <1>2, <2>2 DEF PainterInv, PainterOwed, NoJob
  <2> QED
    BY <2>1, <2>2
<1> QED
  BY <1>2, <1>6, <1>7, <1>8 DEF PainterInv, EarlyJob

LEMMA PainterRunJob ==
    ASSUME Typed, PainterInv, Opening \/ painter # Part, RunJob
    PROVE  PainterInv'
<1>1. Quiet /\ job[1] \in {"none", "Painter", "Flight", "Timer"}
  BY DEF PainterInv, Quiet, EarlyJob, NoJob
<1>2. DoPainter \/ DoTimer
  BY <1>1 DEF RunJob, DoResizeCanvas, DoResizeToolbar, DoResizeOther, DoRedraw,
              DoMouse, DoToolClick, DoAppSelect, DoFlight, DoNothing, Do, Safe, Quiet
<1>3. UNCHANGED <<pc, todo, sized>> /\ job' = NoJob
  BY <1>2 DEF DoPainter, DoTimer, Do, main
<1>4. jobs' = jobs /\ dirty' = {} /\ stale' = {}
  <2>1. CASE DoPainter
    BY <1>1, <2>1 DEF DoPainter, Quiet
  <2>2. CASE DoTimer
    <3>1. \/ Invalidate(<<>> \o <<>>)
          \/ UNCHANGED <<dirty, jobs>>
      BY <1>1, <2>2 DEF DoTimer, Quiet
    <3>2. <<>> \o <<>> = <<>> /\ DOMAIN <<>> = {}
      OBVIOUS
    <3>3. Redraws(<<>>) = <<>>
      BY <3>2 DEF Redraws
    <3>4. jobs' = jobs /\ dirty' = dirty
      <4>1. CASE Invalidate(<<>>)
        <5>1. dirty' = dirty
          BY <3>2, <4>1 DEF Invalidate
        <5>2. jobs' = jobs \o <<>>
          BY <3>3, <4>1 DEF Invalidate, RunLater
        <5> QED
          BY <5>1, <5>2 DEF Typed, QueueTyped
      <4> QED
        BY <3>1, <3>2, <4>1
    <3> QED
      BY <1>1, <2>2, <3>4 DEF DoTimer, Quiet
  <2> QED
    BY <1>2, <2>1, <2>2
<1>5. Quiet'
  BY <1>1, <1>3, <1>4 DEF Quiet
<1>6. Opening' => \A i \in DOMAIN jobs' : EarlyJob(jobs'[i])
  BY <1>3, <1>4 DEF PainterInv, Opening
<1>7. ASSUME NEW p \in Part \ painter' PROVE PainterOwed(p)'
  <2>1. job # <<"Painter", p>> /\ p \notin painter
    BY <1>2 DEF DoPainter, DoTimer, Do
  <2>2. PainterOwed(p)
    BY <2>1 DEF PainterInv
  <2>3. PainterQueued(p) => PainterQueued(p)'
    BY <1>4 DEF PainterQueued, EarlyJob
  <2> QED
    BY <1>3, <2>1, <2>2, <2>3 DEF PainterOwed
<1> QED
  BY <1>5, <1>6, <1>7 DEF PainterInv, EarlyJob

LEMMA PainterStep == Typed /\ PainterInv /\ [Next]_vars => PainterInv'
<1> SUFFICES ASSUME Typed, PainterInv, [Next]_vars, Opening \/ painter # Part
             PROVE  PainterInv'
  BY PaintersDone
<1>1. CASE Fault \/ UNCHANGED vars
  <2>1. UNCHANGED <<pc, todo, job, jobs, painter, sized, dirty, stale>>
    BY <1>1 DEF Fault, vars, main, view, queue
  <2> QED
    BY <2>1 DEF PainterInv, Quiet, Opening, EarlyJob, PainterOwed, PainterQueued
<1> QED
  BY <1>1, PainterMain, PainterTaken, PainterRunJob DEF Next, Finished

(* PaintersFirst: a part is never asked to redraw a dirty image without    *)
(* the painter it redraws with (window.h:236 dereferences it unchecked),   *)
(* although the parts are made, sized and invalidated by jobs that two     *)
(* other threads' jobs may come between.                                   *)
THEOREM PaintersBeforeDirt == SafeSpec => []PaintersFirst
<1>1. Init => PainterInv
  BY PainterInit
<1>2. Typed /\ PainterInv /\ [Next]_vars => PainterInv'
  BY PainterStep
<1>3. Typed /\ PainterInv => PaintersFirst
  BY DEF PainterInv, Quiet, PaintersFirst, Typed, ViewTyped
<1>4. Init => Typed
  BY TypedInit
<1>5. Typed /\ [Next]_vars => Typed'
  BY TypedStep
<1> QED
  BY <1>1, <1>2, <1>3, <1>4, <1>5, PTL DEF SafeSpec

-----------------------------------------------------------------------------
(* Redraws.  The invariant is inductive: jobs are only appended, a Redraw  *)
(* taken becomes the job, and the job that ends clears its part's bits.    *)

LEMMA RedrawsAppended ==
    ASSUME Typed, DirtyIsRedrawn, NEW js \in Seq(Job), RunLater(js),
           \A p \in dirty' :
              \/ p \in dirty /\ (job' = job \/ job # <<"Redraw", p>>)
              \/ \E k \in DOMAIN js : js[k] = <<"Redraw", p>>
    PROVE  DirtyIsRedrawn'
<1>1. jobs \in Seq(Job) /\ jobs' = jobs \o js
  BY DEF Typed, QueueTyped, RunLater
<1>2. /\ Len(jobs) \in Nat /\ Len(js) \in Nat
      /\ DOMAIN jobs = 1..Len(jobs) /\ DOMAIN js = 1..Len(js)
      /\ DOMAIN jobs' = 1..(Len(jobs) + Len(js))
      /\ \A i \in 1..Len(jobs) : jobs'[i] = jobs[i]
      /\ \A k \in 1..Len(js) : jobs'[Len(jobs) + k] = js[k]
  BY <1>1, ConcatProperties
<1>3. ASSUME NEW p \in dirty'
      PROVE  job' = <<"Redraw", p>> \/ \E i \in DOMAIN jobs' : jobs'[i] = <<"Redraw", p>>
  <2>1. ASSUME NEW k \in DOMAIN js, js[k] = <<"Redraw", p>>
        PROVE  \E i \in DOMAIN jobs' : jobs'[i] = <<"Redraw", p>>
    <3>1. Len(jobs) + k \in DOMAIN jobs' /\ jobs'[Len(jobs) + k] = <<"Redraw", p>>
      BY <1>2, <2>1
    <3> QED
      BY <3>1
  <2>2. ASSUME NEW i \in DOMAIN jobs, jobs[i] = <<"Redraw", p>>
        PROVE  \E k \in DOMAIN jobs' : jobs'[k] = <<"Redraw", p>>
    <3>1. i \in DOMAIN jobs' /\ jobs'[i] = <<"Redraw", p>>
      BY <1>2, <2>2
    <3> QED
      BY <3>1
  <2>3. CASE p \in dirty /\ (job' = job \/ job # <<"Redraw", p>>)
    BY <2>2, <2>3 DEF DirtyIsRedrawn
  <2> QED
    BY <1>3, <2>1, <2>3
<1> QED
  BY <1>3 DEF DirtyIsRedrawn

LEMMA NothingAppended ==
    ASSUME Typed, DirtyIsRedrawn, jobs' = jobs,
           \A p \in dirty' : p \in dirty /\ (job' = job \/ job # <<"Redraw", p>>)
    PROVE  DirtyIsRedrawn'
<1>1. <<>> \in Seq(Job) /\ jobs \o <<>> = jobs
  BY DEF Typed, QueueTyped
<1> QED
  BY <1>1, RedrawsAppended DEF RunLater

LEMMA InvalidateRedraws ==
    ASSUME Typed, DirtyIsRedrawn, NEW ps \in Seq(Part), Invalidate(ps),
           job' = job \/ job[1] # "Redraw"
    PROVE  DirtyIsRedrawn'
<1>1. Redraws(ps) \in Seq(Job) /\ DOMAIN Redraws(ps) = DOMAIN ps
  BY RedrawsTyped DEF Redraws
<1>2. \A i \in DOMAIN ps : Redraws(ps)[i] = <<"Redraw", ps[i]>>
  BY DEF Redraws
<1>3. ASSUME NEW p \in dirty'
      PROVE  \/ p \in dirty /\ (job' = job \/ job # <<"Redraw", p>>)
             \/ \E k \in DOMAIN Redraws(ps) : Redraws(ps)[k] = <<"Redraw", p>>
  <2>1. p \in dirty \/ \E i \in DOMAIN ps : p = ps[i]
    BY <1>3 DEF Invalidate
  <2>2. job' = job \/ job # <<"Redraw", p>>
    <3>1. <<"Redraw", p>>[1] = "Redraw"
      OBVIOUS
    <3> QED
      BY <3>1
  <2> QED
    BY <1>1, <1>2, <2>1, <2>2
<1> QED
  BY <1>1, <1>3, RedrawsAppended DEF Invalidate

LEMMA ActivateAppInvalidates ==
    ASSUME NEW a, NEW mode, NEW ps \in Seq(Part), ActivateApp(a, mode, ps)
    PROVE  \E rs \in Seq(Part) : Invalidate(rs)
<1> DEFINE ms == IF highlight # mode /\ "MODEBAR" \in sized
                 THEN <<"MODEBAR">> ELSE <<>>
           rs == <<"TOOLBAR">> \o ms \o ps
<1>1. <<"TOOLBAR">> \in Seq(Part) /\ ms \in Seq(Part)
  <2>1. <<>> \in Seq(Part) /\ <<"TOOLBAR">> \in Seq(Part)
           /\ <<"MODEBAR">> \in Seq(Part)
    BY DEF Part
  <2> QED
    BY <2>1
<1>2. rs \in Seq(Part)
  <2> HIDE DEF ms
  <2>1. <<"TOOLBAR">> \o ms \in Seq(Part)
    BY <1>1, ConcatProperties
  <2> QED
    BY <2>1, ConcatProperties
<1>3. Invalidate(rs)
  BY DEF ActivateApp
<1> HIDE DEF rs
<1> QED
  BY <1>2, <1>3

LEMMA RedrawMain ==
    ASSUME Typed, DirtyIsRedrawn,
           \/ Start \/ SimConnect \/ MakePart \/ CreateWindow
           \/ CreateWindowFails \/ NotifyResize \/ Activate
           \/ WindowResized \/ EventLoopReturns \/ Deactivate \/ SimDisconnect
           \/ Stop
           \/ PostSimUpdates \/ PostTimer \/ \E p \in Part : Gesture(p)
    PROVE  DirtyIsRedrawn'
<1>0. todo \in Seq(Part)
  BY DEF Typed, MainTyped
<1>1. ASSUME NEW j \in Job, RunLater(<<j>>), UNCHANGED <<job, dirty>>
      PROVE  DirtyIsRedrawn'
  <2>1. <<j>> \in Seq(Job)
    OBVIOUS
  <2> QED
    BY <1>1, <2>1, RedrawsAppended
<1>2. ASSUME UNCHANGED <<jobs, job, dirty>> PROVE DirtyIsRedrawn'
  BY <1>2, NothingAppended
<1>3. CASE \/ Start \/ SimConnect \/ CreateWindow \/ CreateWindowFails
           \/ Activate \/ WindowResized \/ EventLoopReturns \/ Deactivate
           \/ SimDisconnect
  BY <1>2, <1>3 DEF Start, SimConnect, CreateWindow, CreateWindowFails, Activate,
                    WindowResized, EventLoopReturns, Deactivate, SimDisconnect,
                    view, queue
<1>4. CASE MakePart
  <2>1. <<"Painter", Head(todo)>> \in Job
    BY <1>0, <1>4, HeadTailProperties, JobKinds DEF MakePart
  <2> QED
    BY <1>1, <1>4, <2>1 DEF MakePart, view
<1>5. CASE NotifyResize
  <2>1. <<"Resize", Head(todo)>> \in Job
    BY <1>0, <1>5, HeadTailProperties, JobKinds DEF NotifyResize
  <2> QED
    BY <1>1, <1>5, <2>1 DEF NotifyResize, view
<1>6. CASE DropPart \/ DropActive \/ DropApps \/ JoinLooper \/ AwaitCalls \/ JoinWorker
           \/ DropProviders \/ DropDocs
  BY <1>2, <1>6 DEF DropPart, DropActive, DropApps, JoinLooper, AwaitCalls,
                    JoinWorker, DropProviders, DropDocs, view, queue
<1>7. CASE StopWorker
  BY <1>1, <1>7, JobKinds DEF StopWorker, view
<1>8. CASE PostSimUpdates
  BY <1>1, <1>8, JobKinds DEF PostSimUpdates, view
<1>9. CASE PostTimer
  <2>1. posted.timer + 1 \in 1..MaxTimers
    BY <1>9, BoundsAssumption DEF PostTimer, Typed, QueueTyped
  <2>2. <<"Timer", posted.timer + 1>> \in Job
    BY <2>1, JobKinds
  <2> QED
    BY <1>1, <1>9, <2>2 DEF PostTimer, view
<1>10. ASSUME NEW q \in Part, Gesture(q) PROVE DirtyIsRedrawn'
  BY <1>1, <1>10, JobKinds DEF Gesture, view
<1> QED
  BY <1>3, <1>4, <1>5, <1>6, <1>7, <1>8, <1>9, <1>10 DEF Stop, StopStep

LEMMA RedrawTaken == Typed /\ DirtyIsRedrawn /\ Take => DirtyIsRedrawn'
<1> SUFFICES ASSUME Typed, DirtyIsRedrawn, Take, NEW p \in dirty'
             PROVE  job' = <<"Redraw", p>>
                    \/ \E i \in DOMAIN jobs' : jobs'[i] = <<"Redraw", p>>
  BY DEF DirtyIsRedrawn
<1>1. jobs \in Seq(Job) /\ jobs # <<>> /\ job = NoJob /\ jobs' = Tail(jobs)
  BY DEF Take, Typed, QueueTyped
<1>2. /\ Len(jobs) \in Nat /\ Len(jobs) > 0 /\ Head(jobs) = jobs[1]
      /\ DOMAIN jobs = 1..Len(jobs) /\ DOMAIN jobs' = 1..(Len(jobs) - 1)
      /\ \A i \in 1..(Len(jobs) - 1) : jobs'[i] = jobs[i + 1]
  BY <1>1
<1>3. p \in dirty
  BY DEF Take, view
<1>4. PICK i \in DOMAIN jobs : jobs[i] = <<"Redraw", p>>
  BY <1>1, <1>3 DEF DirtyIsRedrawn, NoJob
<1>5. CASE i = 1
  BY <1>2, <1>4, <1>5 DEF Take, Ignored
<1>6. CASE i # 1
  <2>1. i - 1 \in DOMAIN jobs' /\ jobs'[i - 1] = <<"Redraw", p>>
    BY <1>2, <1>4, <1>6
  <2> QED
    BY <2>1
<1> QED
  BY <1>5, <1>6

LEMMA RedrawRunJob ==
    ASSUME Typed, DirtyIsRedrawn, RunJob
    PROVE  DirtyIsRedrawn'
<1>0. \A p : <<"Redraw", p>>[1] = "Redraw" /\ <<"Redraw", p>>[2] = p
  OBVIOUS
<1>1. ASSUME job[1] # "Redraw", UNCHANGED <<jobs, dirty>> PROVE DirtyIsRedrawn'
  BY <1>0, <1>1, NothingAppended
<1>2. ASSUME job[1] # "Redraw", NEW js \in Seq(Job), RunLater(js), dirty' = dirty
      PROVE  DirtyIsRedrawn'
  BY <1>0, <1>2, RedrawsAppended
<1>3. ASSUME job[1] # "Redraw", NEW ps \in Seq(Part), Invalidate(ps)
      PROVE  DirtyIsRedrawn'
  BY <1>3, InvalidateRedraws
<1>4. \A p \in Part : <<p>> \in Seq(Part)
  OBVIOUS
<1>5. CASE DoPainter \/ DoToolClick \/ DoNothing \/ DoResizeToolbar
  BY <1>1, <1>5 DEF DoPainter, DoToolClick, DoNothing, DoResizeToolbar, Do, view
<1>6. CASE DoResizeCanvas
  <2>1. job[1] # "Redraw" /\ <<"CANVAS">> \in Seq(Part)
    BY <1>4, <1>6 DEF DoResizeCanvas, Do, Part
  <2>2. \E rs \in Seq(Part) : Invalidate(rs)
    BY <1>6, <2>1, ActivateAppInvalidates DEF DoResizeCanvas
  <2> QED
    BY <1>3, <2>1, <2>2
<1>7. CASE DoResizeOther
  <2>1. job[1] # "Redraw" /\ <<job[2]>> \in Seq(Part)
    BY <1>4, <1>7 DEF DoResizeOther, Do, Part
  <2> QED
    BY <1>1, <1>3, <1>7, <2>1 DEF DoResizeOther
<1>8. CASE DoRedraw
  <2>1. job[1] = "Redraw" /\ dirty' = dirty \ {job[2]} /\ jobs' = jobs
    BY <1>8 DEF DoRedraw, Do
  <2>2. \A p \in dirty' : p \in dirty /\ job # <<"Redraw", p>>
    BY <1>0, <2>1
  <2> QED
    BY <2>1, <2>2, NothingAppended
<1>9. CASE DoMouse
  <2>1. job[1] # "Redraw" /\ dirty' = dirty
    BY <1>9 DEF DoMouse, Do, view
  <2>2. ASSUME NEW c \in Clicks(job[2]) PROVE c \in Job
    BY <2>2, JobKinds DEF Clicks, Job, Tools
  <2>3. \A j \in Job : <<j>> \in Seq(Job)
    OBVIOUS
  <2> QED
    BY <1>1, <1>2, <1>9, <2>1, <2>2, <2>3, JobKinds DEF DoMouse
<1>10. CASE DoAppSelect
  <2>1. job[1] # "Redraw" /\ <<>> \in Seq(Part)
    BY <1>10 DEF DoAppSelect, Do
  <2>2. CASE FindApp(job[2]) = activeApp
    BY <1>1, <1>10, <2>1, <2>2 DEF DoAppSelect, view
  <2>3. CASE FindApp(job[2]) # activeApp
    <3>1. \E rs \in Seq(Part) : Invalidate(rs)
      BY <1>10, <2>1, <2>3, ActivateAppInvalidates DEF DoAppSelect
    <3> QED
      BY <1>3, <2>1, <3>1
  <2> QED
    BY <2>2, <2>3
<1>11. CASE DoFlight
  <2>1. job[1] # "Redraw" /\ <<"CANVAS">> \in Seq(Part)
    BY <1>4, <1>11 DEF DoFlight, Do, Part
  <2> QED
    BY <1>1, <1>3, <1>11, <2>1 DEF DoFlight
<1>12. CASE DoTimer
  <2> DEFINE cs == IF "CANVAS" \in stale THEN <<"CANVAS">> ELSE <<>>
             ts == IF "TOOLBAR" \in stale THEN <<"TOOLBAR">> ELSE <<>>
  <2>1. job[1] # "Redraw" /\ (Invalidate(cs \o ts) \/ UNCHANGED <<jobs, dirty>>)
    BY <1>12 DEF DoTimer, Do
  <2>2. cs \in Seq(Part) /\ ts \in Seq(Part)
    <3>1. <<>> \in Seq(Part) /\ <<"CANVAS">> \in Seq(Part) /\ <<"TOOLBAR">> \in Seq(Part)
      BY DEF Part
    <3> QED
      BY <3>1
  <2> HIDE DEF cs, ts
  <2>3. cs \o ts \in Seq(Part)
    BY <2>2, ConcatProperties
  <2> QED
    BY <1>1, <1>3, <2>1, <2>3
<1> QED
  BY <1>5, <1>6, <1>7, <1>8, <1>9, <1>10, <1>11, <1>12 DEF RunJob

(* DirtyIsRedrawn: whatever invalidates a part, at whatever point of the   *)
(* start, the clicks or the stop, a Redraw of it is still to come          *)
(* (window.h:229-237), however many apps, flight loops and gestures.       *)
THEOREM DirtAlwaysQueued == SafeSpec => []DirtyIsRedrawn
<1>1. Init => DirtyIsRedrawn
  BY DEF Init, DirtyIsRedrawn
<1>2. Typed /\ DirtyIsRedrawn /\ [Next]_vars => DirtyIsRedrawn'
  <2> SUFFICES ASSUME Typed, DirtyIsRedrawn, [Next]_vars PROVE DirtyIsRedrawn'
    OBVIOUS
  <2>1. CASE Fault \/ UNCHANGED vars
    BY <2>1, NothingAppended DEF Fault, vars, view, queue
  <2> QED
    BY <2>1, RedrawMain, RedrawTaken, RedrawRunJob DEF Next, Finished
<1>3. Init => Typed
  BY TypedInit
<1>4. Typed /\ [Next]_vars => Typed'
  BY TypedStep
<1> QED
  BY <1>1, <1>2, <1>3, <1>4, PTL DEF SafeSpec

-----------------------------------------------------------------------------
(* Tools.  Whenever the toolbar has an image, the image shows the tools    *)
(* that RepaintTools believes to be active; and those are the pending ones *)
(* unless a flush is owed.                                                 *)

Current == tools.painted = tools.pending \/ "TOOLBAR" \in stale

ToolsInv ==
    "TOOLBAR" \in sized =>
        /\ tools.painted = tools.active
        /\ ("TOOLBAR" \in made \/ Opening) => Current

ToolsFields ==
    [pending : Apps \cup {NoApp}, active : Apps \cup {NoApp},
     painted : Apps \cup {NoApp}]

LEMMA Repainted ==
    ASSUME NEW t \in ToolsFields, NEW overlap \in BOOLEAN,
           "TOOLBAR" \in sized, t.painted = t.active
    PROVE  LET u == RepaintTools(t, overlap)
           IN  u.painted = u.active /\ u.painted = u.pending
<1>1. CASE t.active = t.pending /\ ~overlap
  BY <1>1 DEF RepaintTools
<1>2. CASE ~(t.active = t.pending /\ ~overlap)
  <2>1. RepaintTools(t, overlap) =
           [t EXCEPT !.active = t.pending, !.painted = t.pending]
    BY <1>2 DEF RepaintTools
  <2> QED
    BY <2>1 DEF ToolsFields
<1> QED
  BY <1>1, <1>2

LEMMA ActivatedTools ==
    ASSUME Typed, ToolsInv, NEW a \in Apps, NEW mode, NEW ps,
           ActivateApp(a, mode, ps), "TOOLBAR" \in sized
    PROVE  tools'.painted = tools'.active /\ tools'.painted = tools'.pending
<1> DEFINE t == [tools EXCEPT !.pending = a]
<1>1. tools \in ToolsFields
  BY DEF Typed, ViewTyped, ToolsFields
<1>2. t \in ToolsFields /\ t.painted = t.active
  BY <1>1 DEF ToolsFields, ToolsInv
<1>3. PICK overlap \in BOOLEAN : tools' = RepaintTools(t, overlap)
  BY DEF ActivateApp
<1> HIDE DEF t
<1> QED
  BY <1>2, <1>3, Repainted

LEMMA ToolsMain ==
    ASSUME Typed, ToolsInv,
           \/ Start \/ SimConnect \/ MakePart \/ CreateWindow
           \/ CreateWindowFails \/ NotifyResize \/ Activate
           \/ WindowResized \/ EventLoopReturns \/ Deactivate \/ SimDisconnect
           \/ Stop
           \/ PostSimUpdates \/ PostTimer \/ (\E p \in Part : Gesture(p))
           \/ Take \/ Fault \/ UNCHANGED vars
    PROVE  ToolsInv'
<1>1. ASSUME UNCHANGED <<tools, sized>>,
             "TOOLBAR" \in made' \/ Opening' =>
                /\ "TOOLBAR" \in made \/ Opening
                /\ "TOOLBAR" \in stale => "TOOLBAR" \in stale'
      PROVE  ToolsInv'
  BY <1>1 DEF ToolsInv, Current
<1>2. CASE MakePart
  BY <1>1, <1>2 DEF MakePart, Script, view, Opening
<1>3. CASE DropPart
  BY <1>1, <1>3 DEF DropPart, Script, Opening
<1>4. CASE DropApps
  BY <1>1, <1>4 DEF DropApps, Script, Opening
<1>5. CASE \/ Start \/ SimConnect \/ CreateWindow
           \/ CreateWindowFails \/ NotifyResize \/ Activate
           \/ WindowResized \/ EventLoopReturns \/ Deactivate \/ SimDisconnect
           \/ DropActive \/ JoinLooper \/ AwaitCalls \/ DropProviders \/ DropDocs
           \/ StopWorker \/ JoinWorker
  BY <1>1, <1>5
     DEF Start, SimConnect, CreateWindow, CreateWindowFails, NotifyResize, Activate,
         WindowResized, EventLoopReturns, Deactivate, SimDisconnect, DropActive,
         JoinLooper, AwaitCalls, DropProviders, DropDocs, StopWorker, JoinWorker, Script, Event,
         InEventLoop, main, objs, view, Opening
<1>6. CASE PostSimUpdates \/ PostTimer \/ Take \/ Fault \/ UNCHANGED vars
  BY <1>1, <1>6 DEF PostSimUpdates, PostTimer, Take, Fault, vars, main, objs, view,
                    Opening
<1>7. ASSUME NEW q \in Part, Gesture(q) PROVE ToolsInv'
  BY <1>1, <1>7 DEF Gesture, main, objs, view, Opening
<1> QED
  BY <1>2, <1>3, <1>4, <1>5, <1>6, <1>7 DEF Stop, StopStep

LEMMA ToolsRunJob ==
    ASSUME Typed, ToolsInv, RunJob
    PROVE  ToolsInv'
<1>0. UNCHANGED <<pc, made>> /\ (Opening' <=> Opening)
  BY DEF RunJob, DoPainter, DoResizeCanvas, DoResizeToolbar, DoResizeOther,
         DoRedraw, DoMouse, DoToolClick, DoAppSelect, DoFlight, DoTimer,
         DoNothing, Do, main, objs, Opening
<1>1. ASSUME tools' = tools, "TOOLBAR" \in sized' => "TOOLBAR" \in sized,
             stale \subseteq stale'
      PROVE  ToolsInv'
  BY <1>0, <1>1 DEF ToolsInv, Current
<1>2. ASSUME NEW a \in Apps, NEW mode, NEW ps, ActivateApp(a, mode, ps),
             "TOOLBAR" \in sized' => "TOOLBAR" \in sized
      PROVE  ToolsInv'
  BY <1>2, ActivatedTools DEF ToolsInv, Current
<1>3. CASE DoPainter \/ DoToolClick \/ DoNothing \/ DoRedraw \/ DoMouse \/ DoFlight
  BY <1>1, <1>3 DEF DoPainter, DoToolClick, DoNothing, DoRedraw, DoMouse, DoFlight,
                    view
<1>4. CASE DoResizeCanvas
  <2>1. "TOOLBAR" \in sized' => "TOOLBAR" \in sized
    BY <1>4 DEF DoResizeCanvas
  <2>2. CASE FirstResize
    <3>1. ActivateApp(activeApp, About, <<"CANVAS">>) /\ activeApp \in Apps
      BY <1>4, <2>2 DEF DoResizeCanvas, Do, Safe, UsesActiveApp, Typed, ViewTyped
    <3> QED
      BY <1>2, <2>1, <3>1
  <2>3. CASE ~FirstResize
    BY <1>1, <1>4, <2>1, <2>3 DEF DoResizeCanvas
  <2> QED
    BY <2>2, <2>3
<1>5. CASE DoResizeToolbar
  <2>1. tools'.painted = tools'.active /\ "TOOLBAR" \in stale'
    BY <1>5 DEF DoResizeToolbar, Typed, ViewTyped
  <2> QED
    BY <2>1 DEF ToolsInv, Current
<1>6. CASE DoResizeOther
  BY <1>1, <1>6 DEF DoResizeOther
<1>7. CASE DoAppSelect
  <2>1. CASE FindApp(job[2]) = activeApp
    BY <1>1, <1>7, <2>1 DEF DoAppSelect, view
  <2>2. CASE FindApp(job[2]) # activeApp
    <3>1. ActivateApp(job[2], job[2], <<>>) /\ sized' = sized
      BY <1>7, <2>2 DEF DoAppSelect
    <3>2. job[2] \in Apps
      BY <1>7, JobParts DEF DoAppSelect, Do
    <3> QED
      BY <1>2, <3>1, <3>2
  <2> QED
    BY <2>1, <2>2
<1>8. CASE DoTimer
  <2>1. sized' = sized /\ tools \in ToolsFields
    BY <1>8 DEF DoTimer, Typed, ViewTyped, ToolsFields
  <2>2. CASE tools' = tools /\ "TOOLBAR" \notin stale
    BY <1>0, <2>1, <2>2 DEF ToolsInv, Current
  <2>3. ASSUME NEW overlap \in BOOLEAN, tools' = RepaintTools(tools, overlap)
        PROVE  ToolsInv'
    BY <2>1, <2>3, Repainted DEF ToolsInv, Current
  <2>4. CASE UNCHANGED <<stale, tools>>
    BY <1>1, <2>1, <2>4
  <2>5. \/ \E overlap \in BOOLEAN :
              tools' = IF "TOOLBAR" \in stale
                       THEN RepaintTools(tools, overlap) ELSE tools
        \/ UNCHANGED <<stale, tools>>
    BY <1>8 DEF DoTimer
  <2> QED
    BY <2>2, <2>3, <2>4, <2>5
<1> QED
  BY <1>3, <1>4, <1>5, <1>6, <1>7, <1>8 DEF RunJob

(* ToolsCurrent: the toolbar never keeps showing the tools of an app that  *)
(* is no longer the last one activated (coretoolbar.cpp:63-123, 125-141),   *)
(* whether the app was activated before the toolbar had an image, or the   *)
(* image was made anew after that.                                         *)
THEOREM ToolsFollowApp == SafeSpec => []ToolsCurrent
<1>1. Init => ToolsInv
  BY DEF Init, ToolsInv
<1>2. Typed /\ ToolsInv /\ [Next]_vars => ToolsInv'
  BY ToolsMain, ToolsRunJob DEF Next, Finished
<1>3. ToolsInv => ToolsCurrent
  BY DEF ToolsInv, Current, ToolsCurrent
<1>4. Init => Typed
  BY TypedInit
<1>5. Typed /\ [Next]_vars => Typed'
  BY TypedStep
<1> QED
  BY <1>1, <1>2, <1>3, <1>4, <1>5, PTL DEF SafeSpec

-----------------------------------------------------------------------------
(* Faults.  Until Stop the core has every app, and an active one; it has   *)
(* every part once the window is there, and before that nothing is queued  *)
(* but flight loops, which are ignored, timers, which find nothing stale,  *)
(* and SetPainters of parts that were made before they were posted.        *)

PainterJob(p) ==
    job = <<"Painter", p>> \/ \E i \in DOMAIN jobs : jobs[i] = <<"Painter", p>>

EquippedInv ==
    /\ pc = "connect" => \A p \in Part : p \in made \/ \E k \in DOMAIN todo : todo[k] = p
    /\ ~Opening /\ pc \notin StopPC => made = Part
    /\ pc # "new" /\ pc \notin StopPC => apps = Apps /\ activeApp \in Apps
    /\ Opening => /\ ~activated /\ job[1] # "Flight"
                  /\ \A p \in Part : PainterJob(p) => p \in made

FaultInv == EquippedInv /\ FaultsOnlyKnown

LEMMA FaultInit == Init => FaultInv
<1> SUFFICES ASSUME Init PROVE FaultInv
  OBVIOUS
<1>1. pc = "new" /\ jobs = <<>> /\ job = NoJob /\ ~activated /\ ~crashed
  BY DEF Init
<1>2. DOMAIN jobs = {} /\ job[1] = "none"
  BY <1>1 DEF NoJob
<1> QED
  BY <1>1, <1>2 DEF FaultInv, EquippedInv, FaultsOnlyKnown, Opening, PainterJob, StopPC

(* A step that leaves alone what the invariant is about, but for jobs that *)
(* are no SetPainters.                                                     *)
LEMMA EquippedStays ==
    ASSUME Typed, EquippedInv, UNCHANGED <<pc, todo, made, apps, activated>>,
           activeApp' = activeApp \/ activeApp' \in Apps,
           Opening => job' = NoJob \/ job' = job,
           NEW js \in Seq(Job), RunLater(js),
           Opening => \A k \in DOMAIN js : js[k][1] # "Painter"
    PROVE  EquippedInv'
<1>1. jobs \in Seq(Job) /\ jobs' = jobs \o js
  BY DEF Typed, QueueTyped, RunLater
<1>2. /\ Len(jobs) \in Nat /\ Len(js) \in Nat
      /\ DOMAIN jobs = 1..Len(jobs) /\ DOMAIN js = 1..Len(js)
      /\ DOMAIN jobs' = 1..(Len(jobs) + Len(js))
      /\ \A i \in DOMAIN jobs' :
            jobs'[i] = IF i <= Len(jobs) THEN jobs[i] ELSE js[i - Len(jobs)]
  BY <1>1, ConcatProperties
<1>3. ASSUME NEW p \in Part, Opening, PainterJob(p)' PROVE PainterJob(p)
  <2>1. CASE job' = <<"Painter", p>>
    BY <1>3, <2>1 DEF PainterJob, NoJob
  <2>2. ASSUME NEW i \in DOMAIN jobs', jobs'[i] = <<"Painter", p>> PROVE PainterJob(p)
    <3>1. CASE i <= Len(jobs)
      BY <1>2, <2>2, <3>1 DEF PainterJob
    <3>2. CASE i > Len(jobs)
      <4>1. i - Len(jobs) \in DOMAIN js /\ js[i - Len(jobs)] = <<"Painter", p>>
        BY <1>2, <2>2, <3>2
      <4> QED
        BY <1>3, <4>1
    <3> QED
      BY <1>2, <2>2, <3>1, <3>2
  <2> QED
    BY <1>3, <2>1, <2>2 DEF PainterJob
<1>4. Opening => job'[1] # "Flight"
  BY DEF EquippedInv, NoJob
<1> QED
  BY <1>3, <1>4 DEF EquippedInv, Opening, StopPC

LEMMA EquippedMain ==
    ASSUME Typed, EquippedInv,
           \/ Start \/ SimConnect \/ MakePart \/ CreateWindow
           \/ CreateWindowFails \/ NotifyResize \/ Activate
           \/ WindowResized \/ EventLoopReturns \/ Deactivate \/ SimDisconnect
           \/ Stop
           \/ PostSimUpdates \/ PostTimer \/ \E p \in Part : Gesture(p)
    PROVE  EquippedInv'
<1>0. jobs \in Seq(Job) /\ todo \in Seq(Part)
  BY DEF Typed, QueueTyped, MainTyped
<1>1. CASE Start
  <2>1. pc = "new" /\ pc' = "started" /\ apps' = Apps /\ activeApp' \in Apps
    BY <1>1, AppsAssumption DEF Start, Script
  <2>2. UNCHANGED <<made, activated, job, jobs>>
    BY <1>1 DEF Start, queue
  <2> QED
    BY <2>1, <2>2 DEF EquippedInv, Opening, StopPC, PainterJob
<1>2. CASE SimConnect
  <2>1. \A p \in Part : \E k \in DOMAIN todo' : todo'[k] = p
    BY <1>2 DEF SimConnect, ConnectOrder, Part
  <2>2. /\ pc = "started" /\ pc' = "connect"
        /\ UNCHANGED <<made, apps, activeApp, activated, job, jobs>>
    BY <1>2 DEF SimConnect, Script, objs, queue
  <2> QED
    BY <2>1, <2>2 DEF EquippedInv, Opening, StopPC, PainterJob
<1>3. CASE MakePart
  <2>1. PICK q \in Part : q = Head(todo)
    BY <1>0, <1>3, HeadTailProperties DEF MakePart
  <2>2. /\ pc = "connect" /\ pc' = "connect" /\ made' = made \cup {q}
        /\ jobs' = Append(jobs, <<"Painter", q>>)
        /\ UNCHANGED <<apps, activeApp, activated, job>>
    BY <1>0, <1>3, <2>1 DEF MakePart, Script, RunLater, flags
  <2>3. /\ DOMAIN todo = 1..Len(todo) /\ Len(todo) \in Nat /\ q = todo[1]
        /\ DOMAIN todo' = 1..(Len(todo) - 1)
        /\ \A k \in 1..(Len(todo) - 1) : todo'[k] = todo[k + 1]
    BY <1>0, <1>3, <2>1 DEF MakePart
  <2>4. ASSUME NEW p \in Part PROVE p \in made' \/ \E k \in DOMAIN todo' : todo'[k] = p
    <3>1. ASSUME NEW k \in DOMAIN todo, todo[k] = p, p # q
          PROVE  \E l \in DOMAIN todo' : todo'[l] = p
      <4>1. k - 1 \in DOMAIN todo' /\ todo'[k - 1] = p
        BY <2>3, <3>1
      <4> QED
        BY <4>1
    <3> QED
      BY <2>2, <3>1 DEF EquippedInv
  <2>5. ASSUME NEW p \in Part, PainterJob(p)' PROVE p \in made'
    <3>1. /\ DOMAIN jobs' = 1..(Len(jobs) + 1) /\ Len(jobs) \in Nat
          /\ DOMAIN jobs = 1..Len(jobs)
          /\ \A i \in 1..Len(jobs) : jobs'[i] = jobs[i]
          /\ jobs'[Len(jobs) + 1] = <<"Painter", q>>
      BY <1>0, <2>2
    <3>2. p = q \/ PainterJob(p)
      BY <2>2, <2>5, <3>1 DEF PainterJob
    <3> QED
      BY <2>2, <3>2 DEF EquippedInv, Opening
  <2> QED
    BY <2>2, <2>4, <2>5 DEF EquippedInv, Opening, StopPC
<1>4. CASE CreateWindow
  <2>1. DOMAIN todo = {} /\ pc = "connect" /\ pc' = "window"
    BY <1>4 DEF CreateWindow, Script
  <2>2. UNCHANGED <<made, apps, activeApp>>
    BY <1>4 DEF CreateWindow, objs
  <2>3. made = Part
    BY <2>1 DEF EquippedInv, Typed, ViewTyped
  <2> QED
    BY <2>1, <2>2, <2>3 DEF EquippedInv, Opening, StopPC
<1>5. CASE CreateWindowFails
  BY <1>5 DEF CreateWindowFails, EquippedInv, Opening, PainterJob, main, flags, objs, queue
<1>6. CASE NotifyResize
  BY <1>6 DEF NotifyResize, EquippedInv, Opening, objs
<1>7. CASE Activate \/ EventLoopReturns \/ Deactivate \/ WindowResized
  BY <1>7 DEF Activate, EventLoopReturns, Deactivate, WindowResized, Event, InEventLoop,
              Script, EquippedInv, Opening, StopPC, objs
<1>8. CASE SimDisconnect \/ Stop
  <2>1. pc' \in StopPC
    BY <1>8 DEF SimDisconnect, Stop, StopStep, DropPart, DropActive, DropApps, JoinLooper, AwaitCalls,
                DropProviders, DropDocs, StopWorker, JoinWorker, Script, StopPC
  <2> QED
    BY <2>1 DEF EquippedInv, Opening, StopPC
<1>9. CASE PostSimUpdates
  <2>1. <<"Flight">> \in Job
    BY JobKinds
  <2>2. <<<<"Flight">>>> \in Seq(Job) /\ \A k \in DOMAIN <<<<"Flight">>>> : <<<<"Flight">>>>[k][1] # "Painter"
    BY <2>1
  <2>3. UNCHANGED <<pc, todo, made, apps, activated, activeApp, job>> /\ RunLater(<< <<"Flight">> >>)
    BY <1>9 DEF PostSimUpdates, main, objs, flags
  <2> QED
    BY <2>2, <2>3, EquippedStays
<1>10. CASE PostTimer
  <2> DEFINE j == <<"Timer", posted.timer + 1>>
  <2>1. posted.timer + 1 \in 1..MaxTimers
    BY <1>10, BoundsAssumption DEF PostTimer, Typed, QueueTyped
  <2>2. j \in Job
    BY <2>1, JobKinds
  <2>3. <<j>> \in Seq(Job) /\ \A k \in DOMAIN <<j>> : <<j>>[k][1] # "Painter"
    BY <2>2
  <2>4. UNCHANGED <<pc, todo, made, apps, activated, activeApp, job>> /\ RunLater(<<j>>)
    BY <1>10 DEF PostTimer, main, objs, flags
  <2> QED
    BY <2>3, <2>4, EquippedStays
<1>11. ASSUME NEW p \in Part, Gesture(p) PROVE EquippedInv'
  BY <1>11 DEF Gesture, Event, InEventLoop, EquippedInv, Opening, main, objs
<1> QED
  BY <1>1, <1>2, <1>3, <1>4, <1>5, <1>6, <1>7, <1>8, <1>9, <1>10, <1>11

LEMMA EquippedTaken == ASSUME Typed, EquippedInv, Take PROVE EquippedInv'
<1>1. jobs \in Seq(Job) /\ jobs # <<>> /\ jobs' = Tail(jobs)
  BY DEF Take, Typed, QueueTyped
<1>2. UNCHANGED <<pc, todo, made, apps, activated, activeApp>>
  BY DEF Take, main, objs, flags
<1>3. /\ Len(jobs) \in Nat /\ Len(jobs) > 0 /\ Head(jobs) = jobs[1]
      /\ DOMAIN jobs = 1..Len(jobs) /\ DOMAIN jobs' = 1..(Len(jobs) - 1)
      /\ \A i \in 1..(Len(jobs) - 1) : jobs'[i] = jobs[i + 1]
  BY <1>1
<1>4. job' = NoJob \/ (job' = jobs[1] /\ ~Ignored(jobs[1]))
  BY <1>3 DEF Take
<1>5. ASSUME NEW p \in Part, PainterJob(p)' PROVE PainterJob(p)
  BY <1>3, <1>4, <1>5 DEF PainterJob, NoJob
<1>6. Opening => job'[1] # "Flight"
  BY <1>4 DEF EquippedInv, Ignored, NoJob
<1> QED
  BY <1>2, <1>5, <1>6 DEF EquippedInv, Opening, StopPC

LEMMA EquippedRunJob == ASSUME Typed, PainterInv, EquippedInv, RunJob PROVE EquippedInv'
<1>1. UNCHANGED <<pc, todo, made, apps, activated>> /\ job' = NoJob
  BY DEF RunJob, DoPainter, DoResizeCanvas, DoResizeToolbar, DoResizeOther, DoRedraw, DoMouse,
         DoToolClick, DoAppSelect, DoFlight, DoTimer, DoNothing, Do, main, objs, flags
<1>2. activeApp' = activeApp \/ activeApp' \in Apps
  <2>1. CASE DoAppSelect
    BY <2>1, JobParts DEF DoAppSelect, Do, Typed, QueueTyped
  <2> QED
    BY <2>1 DEF RunJob, DoPainter, DoResizeCanvas, DoResizeToolbar, DoResizeOther, DoRedraw, DoMouse,
         DoToolClick, DoFlight, DoTimer, DoNothing, view
<1>3. CASE Opening
  <2>1. Quiet /\ job[1] \in {"none", "Painter", "Timer"}
    BY <1>3 DEF PainterInv, Quiet, EarlyJob, NoJob, EquippedInv
  <2>2. DoPainter \/ DoTimer
    BY <2>1 DEF RunJob, DoResizeCanvas, DoResizeToolbar, DoResizeOther, DoRedraw,
              DoMouse, DoToolClick, DoAppSelect, DoFlight, DoNothing, Do
  <2>3. UNCHANGED jobs \/ Invalidate(<<>> \o <<>>)
    BY <2>1, <2>2 DEF DoPainter, DoTimer, Quiet
  <2>4. <<>> \o <<>> = <<>> /\ Redraws(<<>>) = <<>> /\ <<>> \in Seq(Job) /\ DOMAIN <<>> = {}
    BY DEF Redraws
  <2>5. RunLater(<<>>)
    BY <2>3, <2>4 DEF Invalidate, RunLater, Typed, QueueTyped
  <2> QED
    BY <1>1, <1>2, <2>4, <2>5, EquippedStays
<1>4. CASE ~Opening
  BY <1>1, <1>2, <1>4 DEF EquippedInv, Opening, StopPC
<1> QED
  BY <1>3, <1>4

(* Outside Stop, the only job that is not safe is the flight loop that     *)
(* finds the toolbar without its widgets, and there is none in the opening.*)
LEMMA JobsSafe ==
    ASSUME Typed, PainterInv, EquippedInv, pc \notin StopPC, job # NoJob
    PROVE  Safe \/ (~Opening /\ job[1] = "Flight" /\ "TOOLBAR" \notin sized)
<1>1. job \in Job
  BY DEF Typed, QueueTyped
<1>2. CASE Opening
  <2>1. Quiet /\ job[1] \in {"Painter", "Timer"}
    BY <1>2 DEF PainterInv, Quiet, EarlyJob, EquippedInv
  <2>2. PartsUsed \subseteq made
    <3>1. CASE job[1] = "Painter"
      <4>1. PICK p \in Part : job = <<"Painter", p>>
        BY <1>1, <3>1 DEF Job
      <4>2. p \in made
        BY <1>2, <4>1 DEF EquippedInv, PainterJob
      <4> QED
        BY <4>1, <4>2 DEF PartsUsed, FirstResize
    <3>2. CASE job[1] = "Timer"
      BY <2>1, <3>2 DEF PartsUsed, FirstResize, Quiet
    <3> QED
      BY <2>1, <3>1, <3>2
  <2> QED
    BY <2>1, <2>2 DEF Safe, UsesActiveApp, FirstResize
<1>3. CASE ~Opening
  <2>1. made = Part /\ apps = Apps /\ activeApp \in Apps
    BY <1>3 DEF EquippedInv, Opening
  <2>2. PartsUsed \subseteq made
    <3>1. job[1] \in {"Painter", "Resize", "Redraw", "Mouse"} => job[2] \in Part
      BY <1>1, JobParts
    <3> QED
      BY <2>1, <3>1 DEF PartsUsed, Typed, ViewTyped, Part
  <2>3. activeApp # NoApp
    BY <2>1, AppsAssumption
  <2>4. job[1] = "AppSelect" => FindApp(job[2]) \in {activeApp} \cup Apps
    BY <1>1, <2>1, JobParts DEF FindApp
  <2>5. job[1] = "Redraw" /\ job[2] \in dirty => job[2] \in painter
    BY DEF PainterInv, Quiet, Typed, ViewTyped
  <2>6. pc \notin {"dropDocs", "clearRunning", "join", "stopped"}
    BY DEF StopPC
  <2> QED
    BY <1>3, <2>2, <2>3, <2>4, <2>5, <2>6 DEF Safe
<1> QED
  BY <1>2, <1>3

LEMMA FaultStep == Typed /\ PainterInv /\ FaultInv /\ [Next]_vars => FaultInv'
<1> SUFFICES ASSUME Typed, PainterInv, FaultInv, [Next]_vars PROVE FaultInv'
  OBVIOUS
<1>1. CASE UNCHANGED vars
  BY <1>1 DEF vars, main, flags, objs, view, queue, lvgl, FaultInv, EquippedInv,
              FaultsOnlyKnown, Opening, PainterJob, Safe, PartsUsed, UsesActiveApp, FirstResize, FindApp
<1>2. EquippedInv'
  <2>1. CASE Fault
    BY <2>1 DEF Fault, FaultInv, EquippedInv, Opening, PainterJob, main, flags, objs, queue
  <2> QED
    BY <1>1, <2>1, EquippedMain, EquippedTaken, EquippedRunJob DEF Next, Finished, FaultInv
<1>3. CASE Fault
  <2>1. pc \in StopPC \/ (job[1] = "Flight" /\ "TOOLBAR" \notin sized)
    BY <1>3, JobsSafe DEF Fault, FaultInv
  <2>2. UNCHANGED <<pc, job, sized>>
    BY <1>3 DEF Fault, main, view, queue
  <2> QED
    BY <1>2, <2>1, <2>2 DEF FaultInv, FaultsOnlyKnown
<1>4. CASE CreateWindowFails
  <2>1. pc = "connect" /\ UNCHANGED <<pc, job, made, apps, activeApp, sized, dirty, stale, painter>>
    BY <1>4 DEF CreateWindowFails, main, objs, view, queue
  <2>2. pc \notin StopPC /\ Opening
    BY <2>1 DEF StopPC, Opening
  <2>3. job # NoJob => Safe
    BY <2>2, JobsSafe DEF FaultInv
  <2>4. Safe' <=> Safe
    BY <2>1 DEF Safe, PartsUsed, UsesActiveApp, FirstResize, FindApp
  <2> QED
    BY <1>2, <2>1, <2>3, <2>4 DEF FaultInv, FaultsOnlyKnown
<1>5. CASE ~crashed /\ crashed' = crashed
  BY <1>2, <1>5 DEF FaultInv, FaultsOnlyKnown
<1>6. \/ Fault \/ CreateWindowFails \/ UNCHANGED vars
      \/ (~crashed /\ crashed' = crashed)
  <2>1. CASE RunJob
    BY <2>1 DEF RunJob, DoPainter, DoResizeCanvas, DoResizeToolbar, DoResizeOther, DoRedraw,
                DoMouse, DoToolClick, DoAppSelect, DoFlight, DoTimer, DoNothing, Do
  <2>2. CASE Stop
    BY <2>2 DEF Stop, StopStep, DropPart, DropActive, DropApps, JoinLooper, AwaitCalls,
                DropProviders, DropDocs, StopWorker, JoinWorker, Script
  <2> QED
    BY <2>1, <2>2 DEF Next, Finished, Start, SimConnect, MakePart, CreateWindow, NotifyResize,
         Activate, WindowResized, Gesture, EventLoopReturns, Deactivate, SimDisconnect,
         PostSimUpdates, PostTimer, Take, Script, Event, InEventLoop
<1> QED
  BY <1>1, <1>3, <1>4, <1>5, <1>6

(* FaultsOnlyKnown: whatever the user clicks, and however clicks, resizes, *)
(* selections, timers and flight loops fall between each other, no job     *)
(* uses a part, an app or a painter that is missing (navitab.cpp:296,      *)
(* 329-345), but in the two ways of a start that fails and during Stop.    *)
THEOREM JobsFindWhatTheyUse == SafeSpec => []FaultsOnlyKnown
<1>1. Init => Typed /\ PainterInv /\ FaultInv
  BY TypedInit, PainterInit, FaultInit
<1>2. Typed /\ PainterInv /\ FaultInv /\ [Next]_vars => (Typed /\ PainterInv /\ FaultInv)'
  BY TypedStep, PainterStep, FaultStep
<1>3. FaultInv => FaultsOnlyKnown
  BY DEF FaultInv
<1> QED
  BY <1>1, <1>2, <1>3, PTL DEF SafeSpec
=============================================================================
