------------------------ MODULE WindowPointerProofs ------------------------
(* That the window never takes a device that is up for one that is down,   *)
(* that a gesture belongs to one part, and what of a gesture is a click,   *)
(* for every geometry of the window and any number of events.              *)
EXTENDS WindowPointer, FiniteSetTheorems, WellFoundedInduction, TLAPS

IInv == WindowTyped /\ PointerConsistent

(* What the worker and a stopped process do leaves the window's own state  *)
(* alone.                                                                  *)
LEMMA WorkerKeepsWindow ==
    ASSUME Worker \/ Aborted
    PROVE  /\ UNCHANGED <<at, mouse, presses, events, latestPointer, latestPen,
                          activePart>>
           /\ shown' \in {shown, shown \cup {"DOODLER"}}
<1>1. CASE DoMouseToolbar
  BY <1>1 DEF DoMouseToolbar, Do, devices, window
<1>2. CASE DoMouseModebar
  BY <1>2 DEF DoMouseModebar, Do, devices, window
<1>3. CASE DoMouseOther
  BY <1>3 DEF DoMouseOther, Do, devices, window
<1>4. CASE DoAppSelect
  BY <1>4 DEF DoAppSelect, Do, devices, window
<1>5. CASE DoRedraw
  BY <1>5 DEF DoRedraw, Do, devices, window
<1>6. CASE DoOther
  BY <1>6 DEF DoOther, Do, devices, window
<1>7. CASE Aborted
  BY <1>7 DEF Aborted, vars, devices, window
<1> QED
  BY <1>1, <1>2, <1>3, <1>4, <1>5, <1>6, <1>7 DEF Worker

(* The last event, once another has been queued, is that one.              *)
LEMMA QueuedIsLast ==
    ASSUME WindowTyped, NEW p \in Points, NEW b \in BOOLEAN,
           NEW wasPen \in BOOLEAN, Queue(p, b, wasPen)
    PROVE  /\ events' \in Seq(Event)
           /\ presses' \in 0..MaxPresses
           /\ LastEvent'.b = b /\ LastEvent'.wasPen = wasPen
<1> DEFINE e == [p |-> p, b |-> b, wasPen |-> wasPen]
<1>1. events \in Seq(Event) /\ e \in Event
  BY DEF WindowTyped, Event
<1>2. events' = Append(events, e)
  BY DEF Queue
<1>3. events' \in Seq(Event) /\ events' # <<>> /\ events'[Len(events')] = e
  BY <1>1, <1>2
<1>4. presses' \in 0..MaxPresses
  <2>1. presses \in 0..MaxPresses /\ MaxPresses \in Nat
    BY BoundsAssumption DEF WindowTyped
  <2>2. CASE b
    BY <2>1, <2>2 DEF Queue
  <2>3. CASE ~b
    BY <2>1, <2>3 DEF Queue
  <2> QED
    BY <2>2, <2>3
<1> QED
  BY <1>3, <1>4 DEF LastEvent

LEMMA Initially == Init => IInv
<1> SUFFICES ASSUME Init PROVE IInv
  OBVIOUS
<1>1. (CHOOSE p \in PenPoints : TRUE) \in PenPoints
  BY GeometryAssumption
<1>2. presses \in 0..MaxPresses
  BY BoundsAssumption DEF Init
<1>3. events \in Seq(Event)
  BY DEF Init
<1>4. latestPen \in [p : PenPoints, pressed : BOOLEAN]
  BY <1>1 DEF Init
<1>5. WindowTyped
  BY <1>2, <1>3, <1>4 DEF Init, WindowTyped, Part
<1>6. PointerConsistent
  BY DEF Init, PointerConsistent, LastEvent, Part, NoPart
<1> QED
  BY <1>5, <1>6 DEF IInv

LEMMA MousePreserves ==
    ASSUME IInv, NEW p \in Points, onMouse(p)
    PROVE  IInv'
<1> USE DEF IInv
<1>1. mouse \in BOOLEAN /\ mouse' = ~mouse /\ mouse' \in BOOLEAN
  BY DEF onMouse, WindowTyped
<1>2. Queue(p, ~mouse, FALSE)
  BY Zenon DEF onMouse
<1>3. /\ events' \in Seq(Event) /\ presses' \in 0..MaxPresses
      /\ LastEvent'.b = ~mouse /\ LastEvent'.wasPen = FALSE
  <2>1. (~mouse) \in BOOLEAN
    BY <1>1
  <2> QED
    BY <1>2, <2>1, QueuedIsLast, Zenon
<1>4. WindowTyped'
  BY <1>1, <1>3 DEF onMouse, Polling, WindowTyped
<1>5. PointerConsistent'
  BY <1>1, <1>3 DEF onMouse, Polling, PointerConsistent
<1> QED
  BY <1>4, <1>5

LEMMA PenPreserves ==
    ASSUME IInv, PollPenEvents
    PROVE  IInv'
<1> USE DEF IInv
<1>1. CASE PenAway
  <2>1. WindowTyped'
    BY <1>1 DEF PollPenEvents, Polling, PenAway, devices, WindowTyped
  <2>2. PointerConsistent'
    BY <1>1 DEF PollPenEvents, Polling, PenAway, devices, PointerConsistent,
                LastEvent
  <2> QED
    BY <2>1, <2>2
<1>2. ASSUME NEW p \in PenPoints, NEW hard \in BOOLEAN, PenNear(p, hard)
      PROVE  IInv'
  <2>1. /\ latestPen' = [p |-> p, pressed |-> hard]
        /\ latestPen' \in [p : PenPoints, pressed : BOOLEAN]
        /\ latestPen \in [p : PenPoints, pressed : BOOLEAN]
        /\ mouse' = mouse /\ at' = "handle"
    BY <1>2 DEF PenNear, WindowTyped
  <2>2. CASE hard # latestPen.pressed
    <3>1. p \in Points /\ Queue(p, hard, TRUE)
      BY <1>2, <2>2, GeometryAssumption DEF PenNear
    <3>2. /\ events' \in Seq(Event) /\ presses' \in 0..MaxPresses
          /\ LastEvent'.b = hard /\ LastEvent'.wasPen = TRUE
      BY <3>1, QueuedIsLast
    <3>3. WindowTyped'
      BY <2>1, <3>2 DEF PollPenEvents, Polling, WindowTyped
    <3>4. PointerConsistent'
      BY <2>1, <3>2 DEF PollPenEvents, Polling, PointerConsistent
    <3> QED
      BY <3>3, <3>4
  <2>3. CASE hard = latestPen.pressed
    <3>1. UNCHANGED <<presses, events>> /\ latestPen'.pressed = latestPen.pressed
      BY <1>2, <2>1, <2>3 DEF PenNear
    <3>2. WindowTyped'
      BY <2>1, <3>1 DEF PollPenEvents, Polling, WindowTyped
    <3>3. PointerConsistent'
      BY <2>1, <3>1 DEF PollPenEvents, Polling, PointerConsistent, LastEvent
    <3> QED
      BY <3>2, <3>3
  <2> QED
    BY <2>2, <2>3
<1> QED
  BY <1>1, <1>2 DEF PollPenEvents

(* The events that remain after the first one has been handled end in the  *)
(* same event, the one that is now latestPointer if none remain.           *)
LEMMA HandledKeepsLast ==
    ASSUME WindowTyped, HandleEvent
    PROVE  /\ events' \in Seq(Event)
           /\ latestPointer' \in [b : BOOLEAN, wasPen : BOOLEAN]
           /\ LastEvent'.b = LastEvent.b /\ LastEvent'.wasPen = LastEvent.wasPen
<1>1. events \in Seq(Event) /\ events # <<>> /\ events' = Tail(events)
  BY DEF HandleEvent, WindowTyped
<1>2. Len(events) \in Nat \ {0} /\ Head(events) = events[1] /\ events[1] \in Event
  BY <1>1
<1>3. events' \in Seq(Event) /\ Len(events') = Len(events) - 1
  BY <1>1
<1>4. latestPointer' = [b |-> events[1].b, wasPen |-> events[1].wasPen]
  BY <1>2 DEF HandleEvent
<1>5. CASE Len(events) = 1
  <2>1. events' = <<>>
    BY <1>1, <1>3, <1>5
  <2> QED
    BY <1>1, <1>2, <1>3, <1>4, <1>5, <2>1 DEF LastEvent, Event
<1>6. CASE Len(events) # 1
  <2>1. events' # <<>> /\ Len(events') \in 1..Len(events')
    <3>1. Len(events') \in Nat \ {0}
      BY <1>2, <1>3, <1>6
    <3> QED
      BY <3>1
  <2>2. events'[Len(events')] = events[Len(events)]
    BY <1>1, <1>2, <1>3, <1>6
  <2> QED
    BY <1>1, <1>2, <1>3, <1>4, <2>1, <2>2 DEF LastEvent, Event
<1> QED
  BY <1>5, <1>6

LEMMA LocatedIsPart == ASSUME NEW p PROVE LocateWinPart(p) \in Part /\ LocateWinPart(p) # NoPart
BY DEF LocateWinPart, Part, NoPart

LEMMA HandlePreserves ==
    ASSUME IInv, HandlePointer
    PROVE  IInv'
<1> USE DEF IInv
<1>1. UNCHANGED <<mouse, presses, latestPen, shown>> /\ at' = "poll"
  BY DEF HandlePointer, devices
<1>2. CASE HandleEvent
  <2> DEFINE m1 == Head(events)
  <2>1. /\ events' \in Seq(Event)
        /\ latestPointer' \in [b : BOOLEAN, wasPen : BOOLEAN]
        /\ LastEvent'.b = LastEvent.b /\ LastEvent'.wasPen = LastEvent.wasPen
    BY <1>2, HandledKeepsLast
  <2>2. latestPointer'.b = m1.b
    BY <1>2 DEF HandleEvent
  <2>3. m1.b \in BOOLEAN /\ latestPointer.b \in BOOLEAN
    <3>1. events \in Seq(Event) /\ events # <<>>
      BY <1>2 DEF HandleEvent, WindowTyped
    <3>2. m1 \in Event
      BY <3>1
    <3> QED
      BY <3>2 DEF WindowTyped, Event
  <2>4. /\ activePart' \in Part \cup {NoPart}
        /\ latestPointer'.b <=> activePart' # NoPart
    <3>1. CASE Press(m1)
      BY <2>2, <3>1, LocatedIsPart DEF Press
    <3>2. CASE Release(m1)
      BY <2>2, <3>2 DEF Release
    <3>3. CASE Overtaken(m1)
      BY <2>2, <2>3, <3>3 DEF Overtaken, WindowTyped, PointerConsistent
    <3> QED
      BY <1>2, <3>1, <3>2, <3>3 DEF HandleEvent
  <2>5. WindowTyped'
    BY <1>1, <2>1, <2>4 DEF WindowTyped
  <2>6. PointerConsistent'
    BY <1>1, <2>1, <2>4 DEF PointerConsistent
  <2> QED
    BY <2>5, <2>6
<1>3. CASE HandleHeld
  <2>1. WindowTyped'
    BY <1>1, <1>3 DEF HandleHeld, WindowTyped
  <2>2. PointerConsistent'
    BY <1>1, <1>3 DEF HandleHeld, PointerConsistent, LastEvent
  <2> QED
    BY <2>1, <2>2
<1> QED
  BY <1>2, <1>3 DEF HandlePointer

LEMMA StepPreserves == IInv /\ [Next]_vars => IInv'
<1> SUFFICES ASSUME IInv, [Next]_vars PROVE IInv'
  OBVIOUS
<1>1. ASSUME NEW p \in Points, onMouse(p) PROVE IInv'
  BY <1>1, MousePreserves
<1>2. CASE PollPenEvents
  BY <1>2, PenPreserves
<1>3. CASE HandlePointer
  BY <1>3, HandlePreserves
<1>4. CASE Worker \/ Aborted
  <2>1. /\ UNCHANGED <<at, mouse, presses, events, latestPointer, latestPen,
                       activePart>>
        /\ shown' \in {shown, shown \cup {"DOODLER"}}
    BY <1>4, WorkerKeepsWindow
  <2>2. WindowTyped'
    BY <2>1 DEF IInv, WindowTyped, Part
  <2>3. PointerConsistent'
    BY <2>1 DEF IInv, PointerConsistent, LastEvent
  <2> QED
    BY <2>2, <2>3 DEF IInv
<1>5. CASE UNCHANGED vars
  BY <1>5 DEF IInv, WindowTyped, PointerConsistent, LastEvent, vars, devices,
              window
<1> QED
  BY <1>1, <1>2, <1>3, <1>4, <1>5 DEF Next

(* However mouse and pen take turns, an up device is never taken for one   *)
(* that is down, and the assertion of winglfw.cpp:181 holds.               *)
THEOREM PointerTracksDevices == SafeSpec => []PointerConsistent
<1>1. IInv => PointerConsistent
  BY DEF IInv
<1> QED
  BY Initially, StepPreserves, <1>1, PTL DEF SafeSpec

-----------------------------------------------------------------------------
(* One part held.  Between a press of a part and a mouse event of another  *)
(* part that follows it, in the queue or in what has been run, there is a  *)
(* release of the first; and once the window has no part active the last   *)
(* press has its release.                                                  *)

IsSequence(s) == \E S : s \in Seq(S)

Mice(s) == {i \in DOMAIN s : s[i].kind = "Mouse"}

Released(s, q, lo, hi) ==
    \E m \in Mice(s) : lo < m /\ m < hi /\ ~s[m].l /\ s[m].part = q

Tidy(s, held, active) ==
    /\ held \subseteq Part
    /\ \A i \in Mice(s) : s[i].part \in Part
    /\ \A q \in held, r \in held : q = r
    /\ \A q \in held, i \in Mice(s) :
          s[i].part = q \/ Released(s, q, 0, i)
    /\ \A k \in Mice(s), i \in Mice(s) :
          s[k].l /\ k < i => s[i].part = s[k].part \/ Released(s, s[k].part, k, i)
    /\ \A q \in held : q = active \/ Released(s, q, 0, Len(s) + 1)
    /\ \A k \in Mice(s) :
          s[k].l => s[k].part = active \/ Released(s, s[k].part, k, Len(s) + 1)

LEMMA Tails ==
    ASSUME NEW s, IsSequence(s), s # <<>>
    PROVE  /\ IsSequence(Tail(s)) /\ Head(s) = s[1]
           /\ Len(s) \in Nat \ {0} /\ Len(Tail(s)) = Len(s) - 1
           /\ Mice(s) \subseteq 1..Len(s)
           /\ Mice(Tail(s)) = {i \in 1..(Len(s) - 1) : i + 1 \in Mice(s)}
           /\ \A i \in 1..(Len(s) - 1) : Tail(s)[i] = s[i + 1]
<1>1. PICK S : s \in Seq(S)
  BY DEF IsSequence
<1>2. /\ Tail(s) \in Seq(S) /\ Head(s) = s[1]
      /\ Len(s) \in Nat \ {0} /\ Len(Tail(s)) = Len(s) - 1
      /\ DOMAIN s = 1..Len(s) /\ DOMAIN Tail(s) = 1..(Len(s) - 1)
      /\ \A i \in 1..(Len(s) - 1) : Tail(s)[i] = s[i + 1]
  BY <1>1
<1>3. IsSequence(Tail(s))
  BY <1>2 DEF IsSequence
<1>4. Mice(Tail(s)) = {i \in 1..(Len(s) - 1) : i + 1 \in Mice(s)}
  BY <1>2 DEF Mice
<1> QED
  BY <1>2, <1>3, <1>4 DEF Mice

LEMMA Appends ==
    ASSUME NEW s, IsSequence(s), NEW j
    PROVE  /\ IsSequence(Append(s, j))
           /\ Len(s) \in Nat /\ Len(Append(s, j)) = Len(s) + 1
           /\ Mice(s) \subseteq 1..Len(s)
           /\ Mice(Append(s, j)) =
                 Mice(s) \cup {i \in {Len(s) + 1} : j.kind = "Mouse"}
           /\ \A i \in 1..Len(s) : Append(s, j)[i] = s[i]
           /\ Append(s, j)[Len(s) + 1] = j
<1>1. PICK S : s \in Seq(S)
  BY DEF IsSequence
<1>2. s \in Seq(S \cup {j}) /\ j \in S \cup {j}
  BY <1>1
<1>3. /\ Append(s, j) \in Seq(S \cup {j})
      /\ Len(s) \in Nat /\ Len(Append(s, j)) = Len(s) + 1
      /\ DOMAIN s = 1..Len(s) /\ DOMAIN Append(s, j) = 1..(Len(s) + 1)
      /\ \A i \in 1..Len(s) : Append(s, j)[i] = s[i]
      /\ Append(s, j)[Len(s) + 1] = j
  BY <1>2
<1>4. IsSequence(Append(s, j))
  BY <1>3 DEF IsSequence
<1>5. Mice(Append(s, j)) = Mice(s) \cup {i \in {Len(s) + 1} : j.kind = "Mouse"}
  BY <1>3 DEF Mice
<1> QED
  BY <1>3, <1>4, <1>5 DEF Mice

(* A job that is no mouse event is queued.                                 *)
LEMMA TidyAppendOther ==
    ASSUME NEW s, IsSequence(s), NEW j, j.kind # "Mouse",
           NEW held, NEW active, Tidy(s, held, active)
    PROVE  Tidy(Append(s, j), held, active)
<1> DEFINE t == Append(s, j)
<1>1. /\ Len(s) \in Nat /\ Len(t) = Len(s) + 1 /\ Mice(s) \subseteq 1..Len(s)
      /\ Mice(t) = Mice(s) /\ \A i \in 1..Len(s) : t[i] = s[i]
  <2>1. Mice(t) = Mice(s) \cup {i \in {Len(s) + 1} : j.kind = "Mouse"}
    BY Appends
  <2>2. {i \in {Len(s) + 1} : j.kind = "Mouse"} = {}
    OBVIOUS
  <2>3. /\ Len(s) \in Nat /\ Len(t) = Len(s) + 1 /\ Mice(s) \subseteq 1..Len(s)
        /\ \A i \in 1..Len(s) : t[i] = s[i]
    BY Appends
  <2> QED
    BY <2>1, <2>2, <2>3
<1> HIDE DEF t
<1>2. ASSUME NEW q, NEW lo, NEW hi
      PROVE  Released(s, q, lo, hi) => Released(t, q, lo, hi)
  BY <1>1 DEF Released
<1>3. ASSUME NEW q, NEW lo, Released(s, q, lo, Len(s) + 1)
      PROVE  Released(t, q, lo, Len(t) + 1)
  BY <1>1, <1>3 DEF Released
<1>4. Tidy(t, held, active)
  BY <1>1, <1>2, <1>3 DEF Tidy
<1> QED
  BY <1>4 DEF t

(* The window posts a mouse event to the part that is active, or makes the *)
(* part active by it; after a release none is.                             *)
LEMMA TidyAppendMouse ==
    ASSUME NEW s, IsSequence(s), NEW q \in Part, NEW x, NEW y, NEW l \in BOOLEAN,
           NEW held, NEW active \in {q, NoPart}, Tidy(s, held, active)
    PROVE  Tidy(Append(s, Mouse(q, x, y, l)), held, IF l THEN q ELSE NoPart)
<1> DEFINE j == Mouse(q, x, y, l)
           t == Append(s, j)
           n == Len(s) + 1
<1>0. j.kind = "Mouse" /\ j.part = q /\ j.l = l
  BY DEF Mouse
<1>1. /\ Len(s) \in Nat /\ Len(t) = n /\ Mice(s) \subseteq 1..Len(s)
      /\ Mice(t) = Mice(s) \cup {n} /\ \A i \in 1..Len(s) : t[i] = s[i]
      /\ t[n] = j
  BY <1>0, Appends
<1> HIDE DEF t, j
<1>2. ASSUME NEW r, NEW lo, NEW hi
      PROVE  Released(s, r, lo, hi) => Released(t, r, lo, hi)
  BY <1>1 DEF Released
<1>3. ASSUME NEW r, NEW lo, Released(s, r, lo, n)
      PROVE  Released(t, r, lo, n) /\ Released(t, r, lo, n + 1)
  BY <1>1, <1>3 DEF Released
<1>4. ASSUME ~l, NEW lo \in 0..Len(s) PROVE Released(t, q, lo, n + 1)
  BY <1>0, <1>1, <1>4 DEF Released
<1>5. NoPart \notin Part
  BY DEF NoPart, Part
<1>6. ASSUME NEW r \in held PROVE r = q \/ Released(s, r, 0, n)
  BY <1>5, <1>6 DEF Tidy
<1>7. ASSUME NEW k \in Mice(s), s[k].l PROVE s[k].part = q \/ Released(s, s[k].part, k, n)
  BY <1>5, <1>7 DEF Tidy
<1>8. \A r \in held, i \in Mice(t) : t[i].part = r \/ Released(t, r, 0, i)
  BY <1>0, <1>1, <1>2, <1>3, <1>6 DEF Tidy
<1>9. \A k \in Mice(t), i \in Mice(t) :
         t[k].l /\ k < i => t[i].part = t[k].part \/ Released(t, t[k].part, k, i)
  <2> SUFFICES ASSUME NEW k \in Mice(t), NEW i \in Mice(t), t[k].l, k < i
               PROVE  t[i].part = t[k].part \/ Released(t, t[k].part, k, i)
    OBVIOUS
  <2>1. k \in Mice(s) /\ t[k] = s[k]
    BY <1>1
  <2>2. CASE i = n
    BY <1>0, <1>1, <1>3, <1>7, <2>1, <2>2
  <2>3. CASE i # n
    BY <1>1, <1>2, <2>1, <2>3 DEF Tidy
  <2> QED
    BY <2>2, <2>3
<1>10. \A r \in held : r = (IF l THEN q ELSE NoPart) \/ Released(t, r, 0, n + 1)
  BY <1>1, <1>3, <1>4, <1>6
<1>11. \A k \in Mice(t) :
          t[k].l => \/ t[k].part = (IF l THEN q ELSE NoPart)
                    \/ Released(t, t[k].part, k, n + 1)
  <2> SUFFICES ASSUME NEW k \in Mice(t), t[k].l
               PROVE  \/ t[k].part = (IF l THEN q ELSE NoPart)
                      \/ Released(t, t[k].part, k, n + 1)
    OBVIOUS
  <2>1. CASE k = n
    BY <1>0, <1>1, <2>1
  <2>2. CASE k # n
    <3>1. k \in Mice(s) /\ t[k] = s[k] /\ k \in 0..Len(s)
      BY <1>1, <2>2
    <3> QED
      BY <1>3, <1>4, <1>7, <3>1
  <2> QED
    BY <2>1, <2>2
<1>12. \A i \in Mice(t) : t[i].part \in Part
  BY <1>0, <1>1 DEF Tidy
<1>13. Tidy(t, held, IF l THEN q ELSE NoPart)
  BY <1>1, <1>8, <1>9, <1>10, <1>11, <1>12 DEF Tidy
<1> QED
  BY <1>13 DEF t, j

(* The worker has run the job at the head.                                 *)
HeldAfter(held, j) ==
    IF j.kind # "Mouse" THEN held
    ELSE IF j.l THEN held \cup {j.part} ELSE held \ {j.part}

LEMMA TidyTail ==
    ASSUME NEW s, IsSequence(s), s # <<>>,
           NEW held, NEW active, Tidy(s, held, active)
    PROVE  Tidy(Tail(s), HeldAfter(held, Head(s)), active)
<1> DEFINE t == Tail(s)
           h == HeldAfter(held, s[1])
<1>1. /\ Head(s) = s[1] /\ Len(s) \in Nat \ {0} /\ Len(t) = Len(s) - 1
      /\ Mice(s) \subseteq 1..Len(s)
      /\ Mice(t) = {i \in 1..(Len(s) - 1) : i + 1 \in Mice(s)}
      /\ \A i \in 1..(Len(s) - 1) : t[i] = s[i + 1]
  BY Tails
<1> HIDE DEF t, h
<1>2. ASSUME NEW q, NEW lo \in Nat \ {0}, NEW hi \in Nat, Released(s, q, lo, hi)
      PROVE  Released(t, q, lo - 1, hi - 1)
  <2>1. PICK m \in Mice(s) : lo < m /\ m < hi /\ ~s[m].l /\ s[m].part = q
    BY <1>2 DEF Released
  <2>2. m - 1 \in Mice(t) /\ t[m - 1] = s[m] /\ lo - 1 < m - 1 /\ m - 1 < hi - 1
    BY <1>1, <2>1
  <2> QED
    BY <2>1, <2>2 DEF Released
<1>3. ASSUME NEW q, NEW hi \in Nat, Released(s, q, 0, hi),
             ~(1 \in Mice(s) /\ ~s[1].l /\ s[1].part = q)
      PROVE  Released(t, q, 0, hi - 1)
  <2>1. PICK m \in Mice(s) : 0 < m /\ m < hi /\ ~s[m].l /\ s[m].part = q
    BY <1>3 DEF Released
  <2>2. m # 1
    BY <1>3, <2>1
  <2>3. m - 1 \in Mice(t) /\ t[m - 1] = s[m] /\ 0 < m - 1 /\ m - 1 < hi - 1
    BY <1>1, <2>1, <2>2
  <2> QED
    BY <2>1, <2>3 DEF Released
<1>4. 1 \in Mice(s) <=> s[1].kind = "Mouse"
  <2>1. PICK S : s \in Seq(S)
    BY DEF IsSequence
  <2>2. 1 \in DOMAIN s
    BY <1>1, <2>1
  <2> QED
    BY <2>2 DEF Mice
<1>5. ASSUME NEW q \in held, 1 \in Mice(s) PROVE q = s[1].part
  <2>1. ~Released(s, q, 0, 1)
    BY <1>1 DEF Released
  <2> QED
    BY <1>5, <2>1 DEF Tidy
<1>6. h \subseteq Part /\ (\A q \in h, r \in h : q = r)
  BY <1>4, <1>5 DEF h, HeldAfter, Tidy
<1>7. ASSUME NEW q \in h
      PROVE  \/ q \in held /\ ~(1 \in Mice(s) /\ ~s[1].l /\ s[1].part = q)
             \/ 1 \in Mice(s) /\ s[1].l /\ q = s[1].part
  BY <1>4, <1>7 DEF h, HeldAfter
<1>8. ASSUME NEW q \in h, NEW i \in Mice(t)
      PROVE  t[i].part = q \/ Released(t, q, 0, i)
  <2>1. /\ i \in Nat /\ i + 1 \in Mice(s) /\ t[i] = s[i + 1]
        /\ i + 1 \in Nat /\ 1 < i + 1 /\ (i + 1) - 1 = i /\ 1 - 1 = 0
    BY <1>1, <1>8
  <2>2. CASE q \in held /\ ~(1 \in Mice(s) /\ ~s[1].l /\ s[1].part = q)
    <3>1. s[i + 1].part = q \/ Released(s, q, 0, i + 1)
      BY <2>1, <2>2 DEF Tidy
    <3> QED
      BY <1>3, <2>1, <2>2, <3>1
  <2>3. CASE 1 \in Mice(s) /\ s[1].l /\ q = s[1].part
    <3>1. s[i + 1].part = q \/ Released(s, q, 1, i + 1)
      BY <2>1, <2>3 DEF Tidy
    <3>2. 1 \in Nat \ {0}
      OBVIOUS
    <3> QED
      BY <1>2, <2>1, <3>1, <3>2
  <2> QED
    BY <1>7, <2>2, <2>3
<1>9. ASSUME NEW q \in h PROVE q = active \/ Released(t, q, 0, Len(t) + 1)
  <2>1. Len(s) + 1 \in Nat /\ (Len(s) + 1) - 1 = Len(t) + 1 /\ 1 - 1 = 0 /\ 1 \in Nat \ {0}
    BY <1>1
  <2>2. CASE q \in held /\ ~(1 \in Mice(s) /\ ~s[1].l /\ s[1].part = q)
    <3>1. q = active \/ Released(s, q, 0, Len(s) + 1)
      BY <2>2 DEF Tidy
    <3>2. Released(s, q, 0, Len(s) + 1) => Released(t, q, 0, (Len(s) + 1) - 1)
      BY <1>3, <2>1, <2>2
    <3> QED
      BY <2>1, <3>1, <3>2
  <2>3. CASE 1 \in Mice(s) /\ s[1].l /\ q = s[1].part
    <3>1. q = active \/ Released(s, q, 1, Len(s) + 1)
      BY <2>3 DEF Tidy
    <3>2. Released(s, q, 1, Len(s) + 1) => Released(t, q, 1 - 1, (Len(s) + 1) - 1)
      BY <1>2, <2>1
    <3> QED
      BY <2>1, <3>1, <3>2
  <2> QED
    BY <1>7, <2>2, <2>3
<1>10. ASSUME NEW k \in Mice(t), NEW i \in Mice(t), t[k].l, k < i
       PROVE  t[i].part = t[k].part \/ Released(t, t[k].part, k, i)
  <2>1. /\ k + 1 \in Mice(s) /\ t[k] = s[k + 1] /\ k + 1 \in Nat \ {0}
        /\ i + 1 \in Mice(s) /\ t[i] = s[i + 1] /\ i + 1 \in Nat
        /\ (k + 1) - 1 = k /\ (i + 1) - 1 = i /\ k + 1 < i + 1
    BY <1>1, <1>10
  <2>2. s[i + 1].part = s[k + 1].part \/ Released(s, s[k + 1].part, k + 1, i + 1)
    BY <1>10, <2>1 DEF Tidy
  <2>3. Released(s, s[k + 1].part, k + 1, i + 1)
           => Released(t, s[k + 1].part, (k + 1) - 1, (i + 1) - 1)
    BY <1>2, <2>1
  <2> QED
    BY <2>1, <2>2, <2>3
<1>11. ASSUME NEW k \in Mice(t), t[k].l
       PROVE  t[k].part = active \/ Released(t, t[k].part, k, Len(t) + 1)
  <2>1. /\ k + 1 \in Mice(s) /\ t[k] = s[k + 1] /\ k + 1 \in Nat \ {0}
        /\ (k + 1) - 1 = k /\ Len(s) + 1 \in Nat /\ (Len(s) + 1) - 1 = Len(t) + 1
    BY <1>1, <1>11
  <2>2. s[k + 1].part = active \/ Released(s, s[k + 1].part, k + 1, Len(s) + 1)
    BY <1>11, <2>1 DEF Tidy
  <2>3. Released(s, s[k + 1].part, k + 1, Len(s) + 1)
           => Released(t, s[k + 1].part, (k + 1) - 1, (Len(s) + 1) - 1)
    BY <1>2, <2>1
  <2> QED
    BY <2>1, <2>2, <2>3
<1>12. \A i \in Mice(t) : t[i].part \in Part
  BY <1>1 DEF Tidy
<1>13. Tidy(t, h, active)
  BY <1>6, <1>8, <1>9, <1>10, <1>11, <1>12 DEF Tidy
<1> QED
  BY <1>1, <1>13 DEF t, h

HeldInv == IsSequence(jobs) /\ Tidy(jobs, seen.held, activePart)

LEMMA HeldInit == Init => HeldInv
<1> SUFFICES ASSUME Init PROVE HeldInv
  OBVIOUS
<1>1. jobs = <<Plain("Redraw")>> /\ jobs \in Seq({Plain("Redraw")})
  BY DEF Init
<1>2. DOMAIN jobs = {1} /\ jobs[1].kind = "Redraw"
  BY <1>1 DEF Plain
<1>3. Mice(jobs) = {}
  BY <1>2 DEF Mice
<1>4. seen.held = {}
  BY DEF Init
<1>5. IsSequence(jobs)
  BY <1>1 DEF IsSequence
<1> QED
  BY <1>3, <1>4, <1>5 DEF HeldInv, Tidy

LEMMA HeldMain ==
    ASSUME IInv, HeldInv, HandlePointer
    PROVE  HeldInv'
<1>0. seen' = seen /\ NoPart \notin Part
  BY DEF HandlePointer, handlers, NoPart, Part
<1>1. ASSUME NEW q \in Part, NEW p, NEW l \in BOOLEAN, PostMouseEvent(q, p, l),
             activePart \in {q, NoPart}, activePart' = IF l THEN q ELSE NoPart
      PROVE  HeldInv'
  <2>1. PICK x, y : jobs' = Append(jobs, Mouse(q, x, y, l))
    BY <1>1 DEF PostMouseEvent
  <2>2. IsSequence(jobs')
    BY <2>1, Appends DEF HeldInv
  <2>3. Tidy(jobs', seen.held, activePart')
    BY <1>1, <2>1, TidyAppendMouse DEF HeldInv
  <2> QED
    BY <1>0, <2>2, <2>3 DEF HeldInv
<1>2. ASSUME UNCHANGED <<jobs, activePart>> PROVE HeldInv'
  BY <1>0, <1>2 DEF HeldInv, Tidy, Released, Mice, IsSequence
<1>3. latestPointer.b <=> activePart # NoPart
  BY DEF IInv, PointerConsistent
<1>4. activePart \in Part \cup {NoPart}
  BY DEF IInv, WindowTyped
<1>5. CASE HandleEvent
  <2> DEFINE m1 == Head(events)
  <2>1. CASE Press(m1)
    <3>1. LocateWinPart(m1.p) \in Part /\ activePart = NoPart
      BY <1>3, <2>1, LocatedIsPart DEF Press
    <3> QED
      BY <1>1, <2>1, <3>1 DEF Press
  <2>2. CASE Release(m1)
    <3>1. activePart \in Part
      BY <1>3, <1>4, <2>2 DEF Release
    <3> QED
      BY <1>1, <2>2, <3>1 DEF Release
  <2>3. CASE Overtaken(m1)
    BY <1>2, <2>3 DEF Overtaken
  <2> QED
    BY <1>5, <2>1, <2>2, <2>3 DEF HandleEvent
<1>6. CASE HandleHeld
  <2>1. CASE latestPointer.b
    <3>1. activePart \in Part /\ activePart' = activePart
      BY <1>3, <1>4, <1>6, <2>1 DEF HandleHeld
    <3>2. \E p : PostMouseEvent(activePart, p, TRUE)
      BY <1>6, <2>1 DEF HandleHeld
    <3> QED
      BY <1>1, <3>1, <3>2
  <2>2. CASE ~latestPointer.b
    BY <1>2, <1>6, <2>2 DEF HandleHeld
  <2> QED
    BY <2>1, <2>2
<1> QED
  BY <1>5, <1>6 DEF HandlePointer

(* A handler takes the job at the head and posts at most a job that is no  *)
(* mouse event.                                                            *)
LEMMA HeldHandled ==
    ASSUME HeldInv, jobs # <<>>, activePart' = activePart,
           seen'.held = HeldAfter(seen.held, Head(jobs)),
           \/ jobs' = Tail(jobs)
           \/ \E j : j.kind # "Mouse" /\ jobs' = Append(Tail(jobs), j)
    PROVE  HeldInv'
<1>1. IsSequence(Tail(jobs)) /\ Tidy(Tail(jobs), seen'.held, activePart)
  BY Tails, TidyTail DEF HeldInv
<1>2. CASE jobs' = Tail(jobs)
  BY <1>1, <1>2 DEF HeldInv
<1>3. ASSUME NEW j, j.kind # "Mouse", jobs' = Append(Tail(jobs), j)
      PROVE  HeldInv'
  BY <1>1, <1>3, Appends, TidyAppendOther DEF HeldInv
<1> QED
  BY <1>2, <1>3

LEMMA SawHeld ==
    ASSUME NEW j, j.kind = "Mouse", NEW clicked, Saw(j, clicked)
    PROVE  seen'.held = HeldAfter(seen.held, j)
BY DEF Saw, HeldAfter

LEMMA HeldWorker ==
    ASSUME HeldInv, Worker
    PROVE  HeldInv'
<1>0. activePart' = activePart
  BY WorkerKeepsWindow
<1> DEFINE j == Head(jobs)
           i == ToolIdx(j)
<1>1. ASSUME jobs # <<>>, j.kind = "Mouse", NEW clicked, Saw(j, clicked),
             \/ jobs' = Tail(jobs)
             \/ \E k : k.kind # "Mouse" /\ jobs' = Append(Tail(jobs), k)
      PROVE  HeldInv'
  BY <1>0, <1>1, SawHeld, HeldHandled
<1>2. ASSUME jobs # <<>>, j.kind # "Mouse", seen' = seen, jobs' = Tail(jobs)
      PROVE  HeldInv'
  BY <1>0, <1>2, HeldHandled DEF HeldAfter
<1>3. CASE DoMouseToolbar
  <2>1. jobs # <<>> /\ j.kind = "Mouse"
    BY <1>3 DEF DoMouseToolbar, Do
  <2>2. ASSUME NoClick(j) PROVE HeldInv'
    BY <1>1, <2>1, <2>2 DEF NoClick
  <2>3. ASSUME Click(j, i) PROVE HeldInv'
    BY <1>1, <2>1, <2>3 DEF Click, ToolClick
  <2>4. CASE UNCHANGED <<jobs, seen>>
    BY <1>0, <2>4 DEF HeldInv, Tidy, Released, Mice, IsSequence
  <2>5. NoClick(j) \/ Click(j, i) \/ UNCHANGED <<jobs, seen>>
    BY <1>3 DEF DoMouseToolbar, PushTool, HoldTool, SlideOverTool, ReleaseTool
  <2> QED
    BY <2>2, <2>3, <2>4, <2>5
<1>4. CASE DoMouseModebar
  <2>1. jobs # <<>> /\ j.kind = "Mouse" /\ Saw(j, 0)
    BY <1>4 DEF DoMouseModebar, Do
  <2>2. \A m : ItemClicked(m).kind # "Mouse"
    BY DEF ItemClicked, Plain, AppSelect
  <2>3. \/ jobs' = Tail(jobs)
        \/ \E m : jobs' = Append(Tail(jobs), ItemClicked(m))
    BY <1>4 DEF DoMouseModebar, PressItem, ReleaseItem
  <2> QED
    BY <1>1, <2>1, <2>2, <2>3
<1>5. CASE DoMouseOther
  <2>1. jobs # <<>> /\ j.kind = "Mouse" /\ Saw(j, 0)
    BY <1>5 DEF DoMouseOther, Do
  <2>2. Plain("CanvasMouse").kind # "Mouse"
    BY DEF Plain
  <2>3. jobs' = Tail(jobs) \/ jobs' = Append(Tail(jobs), Plain("CanvasMouse"))
    BY <1>5 DEF DoMouseOther
  <2> QED
    BY <1>1, <2>1, <2>2, <2>3
<1>6. CASE DoAppSelect
  BY <1>2, <1>6 DEF DoAppSelect, Do
<1>7. CASE DoRedraw
  BY <1>2, <1>7 DEF DoRedraw, Do, handlers
<1>8. CASE DoOther
  BY <1>2, <1>8 DEF DoOther, Do, handlers, PlainKind
<1> QED
  BY <1>3, <1>4, <1>5, <1>6, <1>7, <1>8 DEF Worker

LEMMA HeldStep == IInv /\ HeldInv /\ [Next]_vars => HeldInv'
<1> SUFFICES ASSUME IInv, HeldInv, [Next]_vars PROVE HeldInv'
  OBVIOUS
<1>1. ASSUME UNCHANGED <<jobs, seen, activePart>> PROVE HeldInv'
  BY <1>1 DEF HeldInv, Tidy, Released, Mice, IsSequence
<1>2. CASE (\E p \in Points : onMouse(p)) \/ PollPenEvents
  BY <1>1, <1>2 DEF onMouse, PollPenEvents, Polling, handlers
<1>3. CASE Aborted \/ UNCHANGED vars
  BY <1>1, <1>3 DEF Aborted, vars, window, handlers
<1> QED
  BY <1>2, <1>3, HeldMain, HeldWorker DEF Next

(* OnePartHeld: a part that has seen a press sees the release before any   *)
(* other part sees a press (winglfw.cpp:157-181), however long the queue   *)
(* of mouse events gets and whatever the worker does in between.           *)
THEOREM GesturesDoNotMix == SafeSpec => []OnePartHeld
<1>1. HeldInv => OnePartHeld
  <2> SUFFICES ASSUME HeldInv PROVE Cardinality(seen.held) <= 1
    BY DEF OnePartHeld
  <2>1. CASE seen.held = {}
    BY <2>1, FS_EmptySet
  <2>2. ASSUME NEW q \in seen.held PROVE Cardinality(seen.held) <= 1
    <3>1. seen.held = {q}
      BY <2>2 DEF HeldInv, Tidy
    <3>2. Cardinality({q}) = 1
      BY FS_Singleton
    <3> QED
      BY <3>1, <3>2
  <2> QED
    BY <2>1, <2>2
<1> QED
  BY <1>1, Initially, StepPreserves, HeldInit, HeldStep, PTL DEF SafeSpec

-----------------------------------------------------------------------------
(* Arithmetic: division with a remainder, and what lies below a multiple.  *)

LEMMA DivMod ==
    ASSUME NEW a \in Int, NEW d \in Nat \ {0}
    PROVE  \E q \in Int, r \in 0..d - 1 : q = a \div d /\ r = a % d /\ a = d * q + r
<1>1. a \div d \in Int /\ a % d \in 0..d - 1
  OBVIOUS
<1>2. PICK q \in Int, r \in 0..d - 1 : q = a \div d /\ r = a % d
  BY <1>1
<1>3. a = d * q + r
  BY <1>2
<1> QED
  BY <1>2, <1>3

LEMMA DivBelow ==
    ASSUME NEW y \in Nat, NEW d \in Nat \ {0}, NEW n \in Nat, y < n * d
    PROVE  y \div d \in 0..n - 1
<1>1. PICK q \in Int, r \in 0..d - 1 : q = y \div d /\ y = d * q + r
  BY DivMod
<1>2. q >= 0
  BY <1>1
<1>3. q < n
  <2>1. CASE q >= n
    <3>1. q * d >= n * d
      BY <1>1, <2>1
    <3> QED
      BY <1>1, <3>1
  <2> QED
    BY <1>1, <2>1
<1> QED
  BY <1>1, <1>2, <1>3

-----------------------------------------------------------------------------
(* What is under the mouse, and the jobs the handlers take and post.       *)

Items == Apps \cup {"DOODLER", "KEYPAD"}

OverItem(x, y) == x \in 0..(ItemSize - 1) /\ y \in 0..(ModebarHeight - 1)

(* A point of the modebar is over an item, the last of which is lower than *)
(* the others (coremodebar.cpp:96).                                        *)
LEMMA ModeUnderMouse ==
    ASSUME NEW x \in Int, NEW y \in Int
    PROVE  IF OverItem(x, y) THEN GetModeUnderMouse(x, y) \in Items
                             ELSE GetModeUnderMouse(x, y) = NoMode
<1>1. CASE OverItem(x, y)
  <2>1. /\ Len(Modes) \in Nat /\ Len(Modes) - 1 \in Nat /\ ItemSize \in Nat \ {0}
        /\ KeypadHeight \in Nat /\ KeypadHeight <= ItemSize
    BY AppsAssumption, GeometryAssumption
  <2>2. PICK n \in Nat : n = Len(Modes) - 1
    BY <2>1
  <2>3. n * ItemSize \in Nat /\ (n + 1) * ItemSize = n * ItemSize + ItemSize
    BY <2>1
  <2>4. ModebarHeight = n * ItemSize + KeypadHeight
    BY <2>2 DEF ModebarHeight
  <2>5. y \in Nat /\ y < (n + 1) * ItemSize
    BY <1>1, <2>1, <2>3, <2>4 DEF OverItem
  <2>6. y \div ItemSize \in 0..(n + 1) - 1
    BY <2>1, <2>5, DivBelow
  <2>7. 1 + (y \div ItemSize) \in 1..Len(Modes)
    BY <2>1, <2>2, <2>6
  <2>8. Modes[1 + (y \div ItemSize)] \in Items
    BY <2>7, AppsAssumption DEF Items
  <2> QED
    BY <1>1, <2>8 DEF GetModeUnderMouse, OverItem
<1>2. CASE ~OverItem(x, y)
  BY <1>2 DEF GetModeUnderMouse, OverItem
<1> QED
  BY <1>1, <1>2

LEMMA JobsInJob ==
    /\ \A q \in Part, x \in Int, y \in Int, l \in BOOLEAN : Mouse(q, x, y, l) \in Job
    /\ \A t \in Tool : ToolClick(t) \in Job
    /\ \A a \in Apps \cup {NoMode} : AppSelect(a) \in Job
    /\ \A k \in PlainKind : Plain(k) \in Job
<1>1. \A q \in Part, x \in Int, y \in Int, l \in BOOLEAN : Mouse(q, x, y, l) \in Job
  BY DEF Mouse, Job
<1>2. \A t \in Tool : ToolClick(t) \in Job
  BY DEF ToolClick, Job
<1>3. \A a \in Apps \cup {NoMode} : AppSelect(a) \in Job
  BY DEF AppSelect, Job
<1>4. \A k \in PlainKind : Plain(k) \in Job
  BY DEF Plain, Job
<1> QED
  BY <1>1, <1>2, <1>3, <1>4

LEMMA MouseJobs ==
    ASSUME NEW j \in Job, j.kind = "Mouse"
    PROVE  j.part \in Part /\ j.x \in Int /\ j.y \in Int /\ j.l \in BOOLEAN
BY DEF Job, PlainKind

LEMMA SelectJobs ==
    ASSUME NEW j \in Job, j.kind = "AppSelect" PROVE j.mode \in Apps \cup {NoMode}
BY DEF Job, PlainKind

(* The tool under the mouse is at least the first.                         *)
LEMMA ToolUnderMouse ==
    ASSUME NEW j \in Job, j.kind = "Mouse", OverTools(j)
    PROVE  ToolIdx(j) \in Nat
<1>1. j.x \in Int /\ j.x < Width /\ Width \in Nat /\ IconWidth \in Nat \ {0}
  BY MouseJobs, GeometryAssumption DEF OverTools
<1>2. PICK a \in Nat : a = Width - j.x
  BY <1>1
<1>3. PICK q \in Int, r \in 0..IconWidth - 1 : q = a \div IconWidth /\ a = IconWidth * q + r
  BY <1>1, DivMod
<1>4. q >= 0
  BY <1>1, <1>2, <1>3
<1> QED
  BY <1>2, <1>3, <1>4 DEF ToolIdx

(* Of every release of part q that is queued the press is queued before    *)
(* it, or has been seen (DownAt).                                          *)
MiceOf(s, q) == {i \in Mice(s) : s[i].part = q}

DownAt(s, held, q, i) ==
    \E k \in 0..(i - 1) :
        /\ (k = 0 /\ q \in held) \/ (k \in MiceOf(s, q) /\ s[k].l)
        /\ \A m \in MiceOf(s, q) : k < m /\ m < i => s[m].l

Orderly(s, held, active, q) ==
    /\ \A i \in MiceOf(s, q) : ~s[i].l => DownAt(s, held, q, i)
    /\ active = q => DownAt(s, held, q, Len(s) + 1)

LEMMA DownAppend ==
    ASSUME NEW s, IsSequence(s), NEW j, NEW held, NEW q, NEW i \in 1..(Len(s) + 1),
           DownAt(s, held, q, i)
    PROVE  DownAt(Append(s, j), held, q, i)
<1> DEFINE t == Append(s, j)
<1>1. /\ Len(s) \in Nat /\ Mice(s) \subseteq 1..Len(s)
      /\ Mice(t) = Mice(s) \cup {n \in {Len(s) + 1} : j.kind = "Mouse"}
      /\ \A n \in 1..Len(s) : t[n] = s[n]
  BY Appends
<1> HIDE DEF t
<1>2. \A m \in 1..Len(s) : m \in MiceOf(t, q) <=> m \in MiceOf(s, q)
  BY <1>1 DEF MiceOf
<1>3. MiceOf(s, q) \subseteq 1..Len(s) /\ MiceOf(t, q) \subseteq 1..(Len(s) + 1)
  BY <1>1 DEF MiceOf
<1>4. PICK k \in 0..(i - 1) : /\ (k = 0 /\ q \in held) \/ (k \in MiceOf(s, q) /\ s[k].l)
                              /\ \A m \in MiceOf(s, q) : k < m /\ m < i => s[m].l
  BY DEF DownAt
<1>5. \A m \in MiceOf(t, q) : k < m /\ m < i => t[m].l
  BY <1>1, <1>2, <1>3, <1>4
<1>6. (k = 0 /\ q \in held) \/ (k \in MiceOf(t, q) /\ t[k].l)
  BY <1>1, <1>2, <1>3, <1>4
<1>7. DownAt(t, held, q, i)
  BY <1>5, <1>6 DEF DownAt
<1> QED
  BY <1>7 DEF t

(* Another job is queued: one that is not of part q leaves it as it was.   *)
LEMMA OrderlyAppendOther ==
    ASSUME NEW s, IsSequence(s), NEW j, NEW held, NEW active, NEW newly, NEW q,
           j.kind # "Mouse" \/ j.part # q, newly = q => active = q,
           Orderly(s, held, active, q)
    PROVE  Orderly(Append(s, j), held, newly, q)
<1> DEFINE t == Append(s, j)
<1>1. /\ Len(s) \in Nat /\ Len(t) = Len(s) + 1 /\ Mice(s) \subseteq 1..Len(s)
      /\ Mice(t) = Mice(s) \cup {n \in {Len(s) + 1} : j.kind = "Mouse"}
      /\ (\A n \in 1..Len(s) : t[n] = s[n]) /\ t[Len(s) + 1] = j
  BY Appends
<1>2. \A i \in 1..(Len(s) + 1) : DownAt(s, held, q, i) => DownAt(t, held, q, i)
  BY DownAppend
<1> HIDE DEF t
<1>3. MiceOf(t, q) = MiceOf(s, q) /\ MiceOf(s, q) \subseteq 1..Len(s)
  BY <1>1 DEF MiceOf
<1>4. ASSUME DownAt(s, held, q, Len(s) + 1) PROVE DownAt(t, held, q, Len(t) + 1)
  <2>1. DownAt(t, held, q, Len(s) + 1)
    BY <1>1, <1>2, <1>4
  <2>2. PICK k \in 0..Len(s) : /\ (k = 0 /\ q \in held) \/ (k \in MiceOf(t, q) /\ t[k].l)
                               /\ \A m \in MiceOf(t, q) : k < m /\ m < Len(s) + 1 => t[m].l
    BY <1>1, <2>1 DEF DownAt
  <2>3. k \in 0..((Len(t) + 1) - 1) /\ \A m \in MiceOf(t, q) : m < Len(s) + 1
    BY <1>1, <1>3
  <2> QED
    BY <2>2, <2>3 DEF DownAt
<1>5. Orderly(t, held, newly, q)
  BY <1>1, <1>2, <1>3, <1>4 DEF Orderly
<1> QED
  BY <1>5 DEF t

(* A press or a move is queued for part q; or a release, while the part is *)
(* the active one.                                                         *)
LEMMA OrderlyAppendMouse ==
    ASSUME NEW s, IsSequence(s), NEW j, NEW held, NEW active, NEW q, j.kind = "Mouse",
           j.part = q, j.l \in BOOLEAN, Orderly(s, held, active, q),
           active = q \/ j.l,
           NEW newly, newly = q => j.l
    PROVE  Orderly(Append(s, j), held, newly, q)
<1> DEFINE t == Append(s, j)
           n == Len(s) + 1
<1>1. /\ Len(s) \in Nat /\ Len(t) = n /\ Mice(s) \subseteq 1..Len(s)
      /\ Mice(t) = Mice(s) \cup {i \in {n} : j.kind = "Mouse"}
      /\ (\A i \in 1..Len(s) : t[i] = s[i]) /\ t[n] = j
  BY Appends
<1>2. \A i \in 1..n : DownAt(s, held, q, i) => DownAt(t, held, q, i)
  BY DownAppend
<1> HIDE DEF t
<1>3. MiceOf(t, q) = MiceOf(s, q) \cup {n} /\ MiceOf(s, q) \subseteq 1..Len(s)
  BY <1>1 DEF MiceOf
<1>4. ASSUME active = q PROVE DownAt(t, held, q, n)
  BY <1>1, <1>2, <1>4 DEF Orderly
<1>5. ASSUME j.l PROVE DownAt(t, held, q, Len(t) + 1)
  <2>1. n \in 0..((Len(t) + 1) - 1) /\ n \in MiceOf(t, q) /\ t[n].l
    BY <1>1, <1>3, <1>5
  <2>2. \A m \in MiceOf(t, q) : ~ (n < m)
    BY <1>1, <1>3
  <2> QED
    BY <2>1, <2>2 DEF DownAt
<1>7. \A i \in MiceOf(t, q) : ~t[i].l => DownAt(t, held, q, i)
  BY <1>1, <1>2, <1>3, <1>4 DEF Orderly
<1>8. Orderly(t, held, newly, q)
  BY <1>5, <1>7 DEF Orderly
<1> QED
  BY <1>8 DEF t

LEMMA OrderlyTail ==
    ASSUME NEW s, IsSequence(s), s # <<>>,
           NEW held, NEW active, NEW q, Orderly(s, held, active, q),
           1 \in Mice(s) => s[1].l \in BOOLEAN
    PROVE  Orderly(Tail(s), HeldAfter(held, Head(s)), active, q)
<1> DEFINE t == Tail(s)
           h == HeldAfter(held, s[1])
<1>1. /\ Head(s) = s[1] /\ Len(s) \in Nat \ {0} /\ Len(t) = Len(s) - 1
      /\ Mice(s) \subseteq 1..Len(s)
      /\ Mice(t) = {i \in 1..(Len(s) - 1) : i + 1 \in Mice(s)}
      /\ \A i \in 1..(Len(s) - 1) : t[i] = s[i + 1]
  BY Tails
<1>2. 1 \in Mice(s) <=> s[1].kind = "Mouse"
  <2>1. PICK S : s \in Seq(S)
    BY DEF IsSequence
  <2>2. 1 \in DOMAIN s
    BY <1>1, <2>1
  <2> QED
    BY <2>2 DEF Mice
<1> HIDE DEF t
<1>3. \A i \in 1..(Len(s) - 1) : i \in MiceOf(t, q) <=> i + 1 \in MiceOf(s, q)
  BY <1>1 DEF MiceOf
<1>4. MiceOf(t, q) \subseteq 1..(Len(s) - 1) /\ MiceOf(s, q) \subseteq 1..Len(s)
  BY <1>1 DEF MiceOf
<1>5. q \in h <=> IF 1 \in MiceOf(s, q) THEN s[1].l ELSE q \in held
  BY <1>2 DEF HeldAfter, MiceOf
<1> HIDE DEF h
<1>6. ASSUME NEW i \in 1..Len(s), DownAt(s, held, q, i + 1) PROVE DownAt(t, h, q, i)
  <2>1. PICK k \in 0..i : /\ (k = 0 /\ q \in held) \/ (k \in MiceOf(s, q) /\ s[k].l)
                          /\ \A m \in MiceOf(s, q) : k < m /\ m < i + 1 => s[m].l
    BY <1>1, <1>6 DEF DownAt
  <2>2. ASSUME NEW m \in MiceOf(t, q), m < i, k < m + 1 PROVE t[m].l
    <3>1. m + 1 \in MiceOf(s, q) /\ t[m] = s[m + 1] /\ m + 1 < i + 1
      BY <1>1, <1>3, <1>4, <2>2
    <3> QED
      BY <2>1, <2>2, <3>1
  <2>3. CASE k \in {0, 1}
    <3>1. q \in h
      <4>1. CASE 1 \in MiceOf(s, q)
        <5>1. s[1].l
          BY <1>4, <2>1, <2>3, <4>1
        <5> QED
          BY <1>5, <4>1, <5>1
      <4>2. CASE 1 \notin MiceOf(s, q)
        <5>1. q \in held
          BY <1>4, <2>1, <2>3, <4>2
        <5> QED
          BY <1>5, <4>2, <5>1
      <4> QED
        BY <4>1, <4>2
    <3>2. \A m \in MiceOf(t, q) : 0 < m /\ m < i => t[m].l
      BY <1>4, <2>2, <2>3
    <3>3. 0 \in 0..(i - 1)
      BY <1>1
    <3> QED
      BY <3>1, <3>2, <3>3 DEF DownAt
  <2>4. CASE k \notin {0, 1}
    <3>1. /\ k - 1 \in 0..(i - 1) /\ k - 1 \in 1..(Len(s) - 1) /\ (k - 1) + 1 = k
      BY <1>1, <2>1, <2>4
    <3>2. k - 1 \in MiceOf(t, q) /\ t[k - 1].l
      BY <1>1, <1>3, <2>1, <2>4, <3>1
    <3>3. \A m \in MiceOf(t, q) : k - 1 < m /\ m < i => t[m].l
      BY <1>4, <2>2, <3>1
    <3> QED
      BY <3>1, <3>2, <3>3 DEF DownAt
  <2> QED
    BY <2>3, <2>4
<1>7. ASSUME NEW i \in MiceOf(t, q)
      PROVE  ~t[i].l => DownAt(t, h, q, i)
  <2>1. i \in 1..Len(s) /\ i + 1 \in MiceOf(s, q) /\ t[i] = s[i + 1]
    BY <1>1, <1>3, <1>4
  <2> QED
    BY <1>6, <2>1 DEF Orderly
<1>8. active = q => DownAt(t, h, q, Len(t) + 1)
  <2>1. Len(s) \in 1..Len(s) /\ Len(t) + 1 = Len(s)
    BY <1>1
  <2> QED
    BY <1>6, <2>1 DEF Orderly
<1>9. Orderly(t, h, active, q)
  BY <1>7, <1>8 DEF Orderly
<1> QED
  BY <1>1, <1>9 DEF t, h


-----------------------------------------------------------------------------
(* What the handlers keep: the item that was pressed, if one was, is what  *)
(* the modebar remembers as long as it is held; and no tool has been clicked  *)
(* in a gesture before its long press.                                     *)

ItemInv ==
    /\ "MODEBAR" \in seen.held /\ seen.item # NoMode => mouseDownItem = seen.item
    /\ "MODEBAR" \notin seen.held => mouseDownItem = NoMode

ClickInv ==
    /\ pushed.idx < 0 => ~pushed.long
    /\ "TOOLBAR" \in seen.held /\ ~pushed.long => seen.clicks = 0

GestureInv ==
    /\ HandlersTyped /\ ItemInv /\ ClickInv
    /\ Orderly(jobs, seen.held, activePart, "MODEBAR")

LEMMA NoItem == NoMode \notin Items /\ NoMode \notin Apps
BY AppsAssumption DEF Items

LEMMA GestureInit == Init => GestureInv
<1> SUFFICES ASSUME Init PROVE GestureInv
  OBVIOUS
<1>1. jobs = <<Plain("Redraw")>> /\ jobs \in Seq(Job)
  BY JobsInJob DEF Init, PlainKind
<1>2. DOMAIN jobs = {1} /\ jobs[1].kind = "Redraw"
  BY <1>1 DEF Plain
<1>3. Mice(jobs) = {}
  BY <1>2 DEF Mice
<1>4. pushed \in [idx : Nat \cup {-1}, long : BOOLEAN]
  BY DEF Init
<1>5. /\ seen = [held |-> {}, clicks |-> 0, item |-> NoMode]
      /\ seen \in [held : SUBSET Part, clicks : 0..2,
                   item : Apps \cup {"DOODLER", "KEYPAD", NoMode}]
  BY DEF Init
<1>6. activeApp \in Apps /\ activeToolIds \in Seq(Tool) /\ mouseDownItem = NoMode /\ aborted = FALSE
  BY AppsAssumption DEF Init
<1>7. HandlersTyped
  BY <1>1, <1>4, <1>5, <1>6 DEF HandlersTyped
<1>9. Orderly(jobs, seen.held, activePart, "MODEBAR")
  BY <1>3 DEF Init, Orderly, MiceOf, NoPart
<1> QED
  BY <1>5, <1>6, <1>7, <1>9 DEF GestureInv, ItemInv, ClickInv, Init

LEMMA IsSeqOfJobs == HandlersTyped => IsSequence(jobs)
BY DEF HandlersTyped, IsSequence

(* What main does leaves the handlers alone.                               *)
LEMMA GestureMain ==
    ASSUME IInv, GestureInv, HandlePointer
    PROVE  GestureInv'
<1>0. /\ UNCHANGED <<activeApp, activeToolIds, pushed, mouseDownItem, aborted, seen>>
      /\ jobs \in Seq(Job) /\ IsSequence(jobs)
      /\ Orderly(jobs, seen.held, activePart, "MODEBAR")
  BY IsSeqOfJobs DEF HandlePointer, handlers, GestureInv, HandlersTyped
<1>1. ItemInv' /\ ClickInv'
  BY <1>0 DEF GestureInv, ItemInv, ClickInv
<1>2. events \in Seq(Event) /\ latestPen.p \in Points /\ Points \subseteq Int \X Int
  BY GeometryAssumption DEF IInv, WindowTyped
<1>4. ASSUME jobs' \in Seq(Job), Orderly(jobs', seen.held, activePart', "MODEBAR")
      PROVE  GestureInv'
  <2>1. HandlersTyped'
    BY <1>0, <1>4 DEF GestureInv, HandlersTyped
  <2> QED
    BY <1>0, <1>1, <1>4, <2>1 DEF GestureInv
<1>5. ASSUME UNCHANGED jobs, activePart' \in {activePart, NoPart} PROVE GestureInv'
  <2>1. Orderly(jobs, seen.held, activePart', "MODEBAR")
    BY <1>0, <1>5 DEF Orderly, NoPart
  <2> QED
    BY <1>0, <1>4, <1>5, <2>1
<1>6. ASSUME NEW q \in Part, NEW p \in Points, NEW l \in BOOLEAN, PostMouseEvent(q, p, l),
             activePart = q \/ l,
             activePart' = IF l THEN q ELSE NoPart, activePart \in {q, NoPart}
      PROVE  GestureInv'
  <2>1. p[1] \in Int /\ p[2] \in Int /\ BarHeight \in Int
    BY <1>2, <1>6, GeometryAssumption
  <2> DEFINE x == p[1]
             y == p[2] - (IF q = "TOOLBAR" THEN 0 ELSE BarHeight)
             j == Mouse(q, x, y, l)
  <2>2. x \in Int /\ y \in Int /\ jobs' = Append(jobs, j) /\ j \in Job
    BY <1>6, <2>1, JobsInJob DEF PostMouseEvent
  <2>3. jobs' \in Seq(Job)
    BY <1>0, <2>2
  <2>4. j.kind = "Mouse" /\ j.part = q /\ j.l = l /\ j.x = x /\ j.y = y
    BY DEF Mouse
  <2>5. CASE q = "MODEBAR"
    <3> HIDE DEF x, y, j
    <3>2. Orderly(Append(jobs, j), seen.held, activePart', "MODEBAR")
      BY <1>0, <1>6, <2>4, <2>5, OrderlyAppendMouse DEF NoPart
    <3> QED
      BY <1>4, <2>2, <2>3, <3>2
  <2>6. CASE q # "MODEBAR"
    <3> HIDE DEF x, y, j
    <3>1. Orderly(Append(jobs, j), seen.held, activePart', "MODEBAR")
      BY <1>0, <1>6, <2>4, <2>6, OrderlyAppendOther DEF NoPart
    <3> QED
      BY <1>4, <2>2, <2>3, <3>1
  <2> QED
    BY <2>5, <2>6
<1>7. (latestPointer.b <=> activePart # NoPart) /\ activePart \in Part \cup {NoPart}
  BY DEF IInv, PointerConsistent, WindowTyped
<1>8. CASE HandleEvent
  <2> DEFINE m1 == Head(events)
  <2>1. m1 \in Event /\ m1 = events[1] /\ 1 \in DOMAIN events
    BY <1>2, <1>8 DEF HandleEvent
  <2>2. m1.p \in Points
    BY <2>1 DEF Event
  <2> HIDE DEF m1
  <2>3. CASE Press(m1)
    <3>1. LocateWinPart(m1.p) \in Part /\ activePart = NoPart
      BY <1>7, <2>3, LocatedIsPart DEF Press
    <3>2. m1.b /\ PostMouseEvent(LocateWinPart(m1.p), m1.p, TRUE)
             /\ activePart' = LocateWinPart(m1.p)
      BY <2>3 DEF Press
    <3> QED
      BY <1>6, <2>2, <3>1, <3>2
  <2>4. CASE Release(m1)
    <3>1. activePart \in Part /\ PostMouseEvent(activePart, m1.p, FALSE) /\ activePart' = NoPart
      BY <1>7, <2>4 DEF Release
    <3> QED
      BY <1>6, <2>2, <3>1
  <2>5. CASE Overtaken(m1)
    BY <1>5, <2>5 DEF Overtaken
  <2> QED
    BY <1>8, <2>3, <2>4, <2>5 DEF HandleEvent, m1
<1>9. CASE HandleHeld
  <2>1. CASE latestPointer.b
    <3>1. activePart \in Part /\ activePart' = activePart
      BY <1>7, <1>9, <2>1 DEF HandleHeld
    <3>2. PICK p \in Points : PostMouseEvent(activePart, p, TRUE)
      BY <1>2, <1>9, <2>1 DEF HandleHeld
    <3> QED
      BY <1>6, <3>1, <3>2
  <2>2. CASE ~latestPointer.b
    BY <1>5, <1>9, <2>2 DEF HandleHeld
  <2> QED
    BY <2>1, <2>2
<1> QED
  BY <1>8, <1>9 DEF HandlePointer

(* What the worker leaves in the queue and the history is typed, and still *)
(* in order.                                                               *)
LEMMA GestureHandled ==
    ASSUME GestureInv, jobs # <<>>, UNCHANGED <<events, activePart>>,
           seen'.held = HeldAfter(seen.held, Head(jobs)),
           \/ jobs' = Tail(jobs)
           \/ \E k \in Job : k.kind # "Mouse" /\ jobs' = Append(Tail(jobs), k)
    PROVE  /\ jobs' \in Seq(Job)
           /\ Orderly(jobs', seen'.held, activePart', "MODEBAR")
<1>1. /\ jobs \in Seq(Job) /\ IsSequence(jobs)
      /\ Orderly(jobs, seen.held, activePart, "MODEBAR")
  BY IsSeqOfJobs DEF GestureInv, HandlersTyped
<1>2. 1 \in Mice(jobs) => jobs[1].l \in BOOLEAN
  <2>1. jobs[1] \in Job
    BY <1>1
  <2> QED
    BY <2>1, MouseJobs DEF Mice
<1>3. Orderly(Tail(jobs), seen'.held, activePart, "MODEBAR")
  BY <1>1, <1>2, OrderlyTail
<1>4. Tail(jobs) \in Seq(Job) /\ IsSequence(Tail(jobs))
  BY <1>1, Tails
<1>6. ASSUME NEW k \in Job, k.kind # "Mouse", jobs' = Append(Tail(jobs), k)
      PROVE  /\ jobs' \in Seq(Job)
             /\ Orderly(jobs', seen'.held, activePart', "MODEBAR")
  <2>1. jobs' \in Seq(Job)
    BY <1>4, <1>6
  <2>2. Orderly(Append(Tail(jobs), k), seen'.held, activePart, "MODEBAR")
    BY <1>3, <1>4, <1>6, OrderlyAppendOther
  <2> QED
    BY <1>6, <2>1, <2>2
<1> QED
  BY <1>3, <1>4, <1>6

(* The history, once the handler of j has posted clicked tool clicks.      *)
LEMMA SawTyped ==
    ASSUME HandlersTyped, NEW j \in Job, j.kind = "Mouse", NEW clicked \in 0..1,
           Saw(j, clicked)
    PROVE  /\ seen' \in [held : SUBSET Part, clicks : 0..2,
                         item : Apps \cup {"DOODLER", "KEYPAD", NoMode}]
           /\ seen'.held = IF j.l THEN seen.held \cup {j.part}
                                  ELSE seen.held \ {j.part}
           /\ seen'.clicks = IF j.part # "TOOLBAR" THEN seen.clicks
                             ELSE IF Starts(j) THEN clicked
                             ELSE IF seen.clicks = 2 THEN 2
                                  ELSE seen.clicks + clicked
           /\ seen'.item = IF j.part = "MODEBAR" /\ Starts(j)
                           THEN GetModeUnderMouse(j.x, j.y) ELSE seen.item
<1>1. j.part \in Part /\ j.x \in Int /\ j.y \in Int /\ j.l \in BOOLEAN
  BY MouseJobs
<1>2. /\ seen.held \subseteq Part /\ seen.clicks \in 0..2
      /\ seen.item \in Apps \cup {"DOODLER", "KEYPAD", NoMode}
  BY DEF HandlersTyped
<1>3. GetModeUnderMouse(j.x, j.y) \in Items \cup {NoMode}
  BY <1>1, ModeUnderMouse
<1> DEFINE h == IF j.l THEN seen.held \cup {j.part} ELSE seen.held \ {j.part}
           c == IF j.part # "TOOLBAR" THEN seen.clicks
                ELSE IF Starts(j) THEN clicked
                ELSE IF seen.clicks = 2 THEN 2 ELSE seen.clicks + clicked
           m == IF j.part = "MODEBAR" /\ Starts(j)
                THEN GetModeUnderMouse(j.x, j.y) ELSE seen.item
<1>4. h \subseteq Part
  BY <1>1, <1>2
<1>5. c \in 0..2
  BY <1>2
<1>6. m \in Apps \cup {"DOODLER", "KEYPAD", NoMode}
  BY <1>2, <1>3 DEF Items
<1>7. seen' = [held |-> h, clicks |-> c, item |-> m]
  BY DEF Saw
<1> HIDE DEF h, c, m
<1>8. /\ seen' \in [held : SUBSET Part, clicks : 0..2,
                    item : Apps \cup {"DOODLER", "KEYPAD", NoMode}]
      /\ seen'.held = h /\ seen'.clicks = c /\ seen'.item = m
  BY <1>4, <1>5, <1>6, <1>7
<1> QED
  BY <1>8 DEF h, c, m

(* The toolbar's handler: no tool has been clicked while its long press is *)
(* still to come.                                                          *)
LEMMA GestureToolbar ==
    ASSUME GestureInv, DoMouseToolbar
    PROVE  GestureInv'
<1> DEFINE j == Head(jobs)
           i == ToolIdx(j)
<1>0. /\ HandlersTyped /\ jobs \in Seq(Job) /\ jobs # <<>>
      /\ j \in Job /\ j.kind = "Mouse" /\ j.part = "TOOLBAR" /\ j.l \in BOOLEAN
      /\ UNCHANGED <<events, activePart, shown, activeApp, activeToolIds,
                     mouseDownItem>>
  <2>1. HandlersTyped /\ jobs \in Seq(Job)
    BY DEF GestureInv, HandlersTyped
  <2>2. /\ jobs # <<>> /\ j.kind = "Mouse" /\ j.part = "TOOLBAR"
        /\ UNCHANGED <<events, activePart, shown, activeApp, activeToolIds,
                       mouseDownItem>>
    BY DEF DoMouseToolbar, Do, window
  <2>3. j \in Job
    BY <2>1, <2>2
  <2> QED
    BY <2>1, <2>2, <2>3, MouseJobs
<1>1. /\ pushed \in [idx : Nat \cup {-1}, long : BOOLEAN] /\ aborted \in BOOLEAN
      /\ activeToolIds \in Seq(Tool)
      /\ (pushed.idx < 0 => ~pushed.long)
      /\ ("TOOLBAR" \in seen.held /\ ~pushed.long => seen.clicks = 0)
      /\ seen.held \subseteq Part /\ seen.clicks \in 0..2
  BY DEF GestureInv, HandlersTyped, ClickInv
<1>2. ASSUME NEW clicked \in 0..1, Saw(j, clicked), aborted' = aborted,
             \/ jobs' = Tail(jobs)
             \/ \E t \in Tool : jobs' = Append(Tail(jobs), ToolClick(t)),
             pushed' \in [idx : Nat \cup {-1}, long : BOOLEAN],
             pushed'.idx < 0 => ~pushed'.long,
             j.l /\ ~pushed'.long => ~pushed.long /\ clicked = 0
      PROVE  GestureInv'
  <2>1. /\ seen' \in [held : SUBSET Part, clicks : 0..2,
                      item : Apps \cup {"DOODLER", "KEYPAD", NoMode}]
        /\ seen'.held = IF j.l THEN seen.held \cup {j.part}
                               ELSE seen.held \ {j.part}
        /\ seen'.clicks = IF j.part # "TOOLBAR" THEN seen.clicks
                          ELSE IF Starts(j) THEN clicked
                          ELSE IF seen.clicks = 2 THEN 2
                               ELSE seen.clicks + clicked
        /\ seen'.item = IF j.part = "MODEBAR" /\ Starts(j)
                        THEN GetModeUnderMouse(j.x, j.y) ELSE seen.item
    BY <1>0, <1>2, SawTyped
  <2>2. seen'.held = HeldAfter(seen.held, j)
    BY <1>0, <1>2, SawHeld
  <2>3. \/ jobs' = Tail(jobs)
        \/ \E k \in Job : k.kind # "Mouse" /\ jobs' = Append(Tail(jobs), k)
    <3>1. \A t \in Tool : ToolClick(t) \in Job /\ ToolClick(t).kind # "Mouse"
      BY JobsInJob DEF ToolClick
    <3> QED
      BY <1>2, <3>1
  <2>4. /\ jobs' \in Seq(Job)
        /\ Orderly(jobs', seen'.held, activePart', "MODEBAR")
    BY <1>0, <2>2, <2>3, GestureHandled
  <2>5. HandlersTyped'
    BY <1>0, <1>2, <2>1, <2>4 DEF HandlersTyped
  <2>6. ItemInv'
    <3>1. /\ seen'.item = seen.item /\ mouseDownItem' = mouseDownItem
          /\ "MODEBAR" \in seen'.held <=> "MODEBAR" \in seen.held
      BY <1>0, <2>1
    <3> QED
      BY <3>1 DEF GestureInv, ItemInv
  <2>7. ClickInv'
    <3>1. ASSUME "TOOLBAR" \in seen'.held, ~pushed'.long PROVE seen'.clicks = 0
      <4>1. j.l /\ ~pushed.long /\ clicked = 0
        BY <1>0, <1>2, <2>1, <3>1
      <4>2. CASE Starts(j)
        BY <1>0, <2>1, <4>1, <4>2
      <4>3. CASE ~Starts(j)
        <5>1. "TOOLBAR" \in seen.held
          BY <1>0, <4>1, <4>3 DEF Starts
        <5> QED
          BY <1>0, <1>1, <2>1, <4>1, <4>3, <5>1
      <4> QED
        BY <4>2, <4>3
    <3> QED
      BY <1>2, <3>1 DEF ClickInv
  <2> QED
    BY <2>4, <2>5, <2>6, <2>7 DEF GestureInv
<1>3. ASSUME NoClick(j), aborted' = aborted,
             pushed' \in [idx : Nat \cup {-1}, long : BOOLEAN],
             pushed'.idx < 0 => ~pushed'.long,
             j.l /\ ~pushed'.long => ~pushed.long
      PROVE  GestureInv'
  BY <1>2, <1>3 DEF NoClick
<1>4. CASE ~OverTools(j) /\ NoClick(j) /\ UNCHANGED <<pushed, aborted>>
  BY <1>1, <1>3, <1>4
<1>5. CASE UNCHANGED <<jobs, pushed, seen>> /\ aborted' = TRUE
  <2>1. HandlersTyped' /\ ItemInv' /\ ClickInv'
    BY <1>0, <1>5 DEF GestureInv, HandlersTyped, ItemInv, ClickInv
  <2> QED
    BY <1>0, <1>5, <2>1 DEF GestureInv, Orderly, DownAt, MiceOf, Mice
<1>6. ASSUME OverTools(j), i < Len(activeToolIds), UNCHANGED aborted,
             PushTool(j, i) \/ HoldTool(j, i) \/ SlideOverTool(j, i) \/ ReleaseTool(j, i)
      PROVE  GestureInv'
  <2>1. i \in Nat
    BY <1>0, <1>6, ToolUnderMouse
  <2>2. activeToolIds[i + 1] \in Tool
    BY <1>1, <1>6, <2>1
  <2> HIDE DEF i, j
  <2>3. CASE PushTool(j, i)
    <3>1. /\ pushed' = [idx |-> i, long |-> FALSE] /\ ~pushed.long /\ NoClick(j)
          /\ pushed'.idx = i /\ pushed' \in [idx : Nat \cup {-1}, long : BOOLEAN]
      BY <1>1, <2>1, <2>3 DEF PushTool
    <3> QED
      BY <1>3, <1>6, <2>1, <3>1
  <2>4. CASE SlideOverTool(j, i)
    BY <1>1, <1>3, <1>6, <2>4 DEF SlideOverTool
  <2>5. CASE HoldTool(j, i)
    <3>1. CASE UNCHANGED pushed /\ NoClick(j)
      BY <1>1, <1>3, <1>6, <3>1
    <3>2. CASE pushed' = [pushed EXCEPT !.long = TRUE] /\ (Click(j, i) \/ NoClick(j))
      <4>1. /\ pushed'.idx = i /\ pushed'.long = TRUE
            /\ pushed' \in [idx : Nat \cup {-1}, long : BOOLEAN]
        BY <1>1, <2>1, <2>5, <3>2 DEF HoldTool
      <4>2. CASE Click(j, i)
        BY <1>2, <1>6, <2>1, <2>2, <4>1, <4>2 DEF Click
      <4>3. CASE NoClick(j)
        BY <1>3, <1>6, <2>1, <4>1, <4>3
      <4> QED
        BY <3>2, <4>2, <4>3
    <3> QED
      BY <2>5, <3>1, <3>2 DEF HoldTool
  <2>6. CASE ReleaseTool(j, i)
    <3>1. /\ pushed' = [idx |-> -1, long |-> FALSE] /\ ~j.l
          /\ pushed' \in [idx : Nat \cup {-1}, long : BOOLEAN] /\ pushed'.long = FALSE
      BY <2>6 DEF ReleaseTool
    <3>2. CASE Click(j, i)
      BY <1>2, <1>6, <2>2, <3>1, <3>2 DEF Click
    <3>3. CASE NoClick(j)
      BY <1>3, <1>6, <3>1, <3>3
    <3> QED
      BY <2>6, <3>2, <3>3 DEF ReleaseTool
  <2> QED
    BY <1>6, <2>3, <2>4, <2>5, <2>6
<1> QED
  BY <1>4, <1>5, <1>6 DEF DoMouseToolbar

(* The modebar's handler: a release finds its press.                       *)
LEMMA GestureModebar ==
    ASSUME GestureInv, DoMouseModebar
    PROVE  /\ GestureInv'
           /\ ~Head(jobs).l => "MODEBAR" \in seen.held
<1> DEFINE j == Head(jobs)
           m == GetModeUnderMouse(j.x, j.y)
<1>0. /\ HandlersTyped /\ jobs \in Seq(Job) /\ jobs # <<>>
      /\ j \in Job /\ j.kind = "Mouse" /\ j.part = "MODEBAR"
      /\ j.l \in BOOLEAN /\ j.x \in Int /\ j.y \in Int
      /\ UNCHANGED <<events, activePart, activeApp, activeToolIds, pushed, aborted>>
  <2>1. HandlersTyped /\ jobs \in Seq(Job)
    BY DEF GestureInv, HandlersTyped
  <2>2. /\ jobs # <<>> /\ j.kind = "Mouse" /\ j.part = "MODEBAR"
        /\ UNCHANGED <<events, activePart, activeApp, activeToolIds, pushed, aborted>>
    BY DEF DoMouseModebar, Do, window
  <2>3. j \in Job
    BY <2>1, <2>2
  <2> QED
    BY <2>1, <2>2, <2>3, MouseJobs
<1>1. /\ 1 \in MiceOf(jobs, "MODEBAR") /\ j = jobs[1]
      /\ DownAt(jobs, seen.held, "MODEBAR", 1) => "MODEBAR" \in seen.held
  <2>1. j = jobs[1] /\ 1 \in MiceOf(jobs, "MODEBAR") /\ MiceOf(jobs, "MODEBAR") \subseteq Nat \ {0}
    BY <1>0 DEF MiceOf, Mice
  <2> QED
    BY <2>1 DEF DownAt
<1>2. ~j.l => "MODEBAR" \in seen.held
  BY <1>1 DEF GestureInv, Orderly
<1>4. m \in Items \cup {NoMode}
  BY <1>0, ModeUnderMouse
<1>5. /\ "MODEBAR" \in seen.held /\ seen.item # NoMode => mouseDownItem = seen.item
      /\ "MODEBAR" \notin seen.held => mouseDownItem = NoMode
      /\ mouseDownItem \in Items \cup {NoMode}
  BY DEF GestureInv, ItemInv, HandlersTyped, Items
<1>6. PICK none \in 0..1 : none = 0 /\ Saw(j, none)
  <2>1. Saw(j, 0) /\ 0 \in 0..1
    BY DEF DoMouseModebar
  <2> QED
    BY <2>1
<1>7. /\ seen' \in [held : SUBSET Part, clicks : 0..2,
                    item : Apps \cup {"DOODLER", "KEYPAD", NoMode}]
      /\ seen'.held = IF j.l THEN seen.held \cup {j.part} ELSE seen.held \ {j.part}
      /\ seen'.clicks = IF j.part # "TOOLBAR" THEN seen.clicks
                        ELSE IF Starts(j) THEN none
                        ELSE IF seen.clicks = 2 THEN 2 ELSE seen.clicks + none
      /\ seen'.item = IF j.part = "MODEBAR" /\ Starts(j) THEN m ELSE seen.item
  BY <1>0, <1>6, SawTyped
<1>8. seen'.held = HeldAfter(seen.held, j)
  BY <1>0, <1>6, SawHeld
<1>9. ClickInv'
  <2>1. /\ pushed' = pushed /\ seen'.clicks = seen.clicks
        /\ "TOOLBAR" \in seen'.held <=> "TOOLBAR" \in seen.held
    BY <1>0, <1>7
  <2> QED
    BY <2>1 DEF GestureInv, ClickInv
<1>10. ASSUME mouseDownItem' \in Items \cup {NoMode}, ItemInv',
              \/ jobs' = Tail(jobs)
              \/ \E k \in Job : k.kind # "Mouse" /\ jobs' = Append(Tail(jobs), k)
       PROVE  GestureInv'
  <2>1. /\ jobs' \in Seq(Job)
        /\ Orderly(jobs', seen'.held, activePart', "MODEBAR")
    BY <1>0, <1>8, <1>10, GestureHandled
  <2>2. HandlersTyped'
    BY <1>0, <1>7, <1>10, <2>1 DEF HandlersTyped, Items
  <2> QED
    BY <1>9, <1>10, <2>1, <2>2 DEF GestureInv
<1>11. NoMode \notin Items
  BY NoItem
<1>12. ASSUME PressItem(j, m) PROVE GestureInv'
  <2>1. /\ j.l /\ jobs' = Tail(jobs)
        /\ mouseDownItem' = IF mouseDownItem = NoMode THEN m ELSE mouseDownItem
    BY <1>12 DEF PressItem
  <2>2. CASE "MODEBAR" \in seen.held
    <3>1. seen'.item = seen.item /\ "MODEBAR" \in seen'.held
      BY <1>0, <1>7, <2>1, <2>2 DEF Starts
    <3>2. seen.item # NoMode => mouseDownItem' = mouseDownItem
      BY <1>5, <2>1, <2>2
    <3>3. mouseDownItem' \in Items \cup {NoMode}
      BY <1>4, <1>5, <2>1
    <3>4. ItemInv'
      BY <1>5, <2>2, <3>1, <3>2 DEF ItemInv
    <3> QED
      BY <1>10, <2>1, <3>3, <3>4
  <2>3. CASE "MODEBAR" \notin seen.held
    <3>1. /\ mouseDownItem' = m /\ seen'.item = m
          /\ "MODEBAR" \in seen'.held
      BY <1>0, <1>5, <1>7, <2>1, <2>3 DEF Starts
    <3> QED
      BY <1>4, <1>10, <2>1, <3>1 DEF ItemInv
  <2> QED
    BY <2>2, <2>3
<1>13. ASSUME ReleaseItem(j, m) PROVE GestureInv'
  <2>1. /\ ~j.l /\ mouseDownItem' = NoMode
        /\ jobs' = IF m = mouseDownItem THEN Append(Tail(jobs), ItemClicked(m))
                                        ELSE Tail(jobs)
    BY <1>13 DEF ReleaseItem
  <2>2. "MODEBAR" \notin seen'.held
    BY <1>0, <1>7, <2>1
  <2>3. ItemInv' /\ mouseDownItem' \in Items \cup {NoMode}
    BY <2>1, <2>2 DEF ItemInv
  <2> HIDE DEF m, j
  <2>4. CASE m = mouseDownItem
    <3>1. m \in Items \cup {NoMode}
      BY <1>4
    <3>2. ItemClicked(m) \in Job /\ ItemClicked(m).kind # "Mouse"
      <4>1. CASE m = "KEYPAD"
        BY <4>1, JobsInJob DEF ItemClicked, PlainKind, Plain
      <4>2. CASE m = "DOODLER"
        BY <4>2, JobsInJob DEF ItemClicked, PlainKind, Plain
      <4>3. CASE m \notin {"KEYPAD", "DOODLER"}
        <5>1. m \in Apps \cup {NoMode} /\ ItemClicked(m) = AppSelect(m)
          BY <3>1, <4>3 DEF Items, ItemClicked
        <5> QED
          BY <5>1, JobsInJob DEF AppSelect
      <4> QED
        BY <4>1, <4>2, <4>3
    <3>3. jobs' = Append(Tail(jobs), ItemClicked(m))
      BY <2>1, <2>4
    <3>4. \E k \in Job : k.kind # "Mouse" /\ jobs' = Append(Tail(jobs), k)
      BY <3>2, <3>3
    <3> QED
      BY <1>10, <2>3, <3>4
  <2>5. CASE m # mouseDownItem
    <3>1. jobs' = Tail(jobs)
      BY <2>1, <2>5
    <3> QED
      BY <1>10, <2>3, <3>1
  <2> QED
    BY <2>4, <2>5
<1> QED
  BY <1>2, <1>12, <1>13 DEF DoMouseModebar

LEMMA GestureOther ==
    ASSUME GestureInv, DoMouseOther
    PROVE  GestureInv'
<1> DEFINE j == Head(jobs)
<1>0. /\ HandlersTyped /\ jobs \in Seq(Job) /\ jobs # <<>>
      /\ j \in Job /\ j.kind = "Mouse" /\ j.part \in {"CANVAS", "DOODLER"}
      /\ j.l \in BOOLEAN /\ Saw(j, 0)
      /\ UNCHANGED <<events, activePart, activeApp, activeToolIds, pushed,
                     mouseDownItem, aborted>>
  <2>1. HandlersTyped /\ jobs \in Seq(Job)
    BY DEF GestureInv, HandlersTyped
  <2>2. /\ jobs # <<>> /\ j.kind = "Mouse" /\ j.part \in {"CANVAS", "DOODLER"}
        /\ Saw(j, 0)
        /\ UNCHANGED <<events, activePart, activeApp, activeToolIds, pushed,
                       mouseDownItem, aborted>>
    BY DEF DoMouseOther, Do, window
  <2>3. j \in Job
    BY <2>1, <2>2
  <2> QED
    BY <2>1, <2>2, <2>3, MouseJobs
<1> PICK none \in 0..1 : none = 0 /\ Saw(j, none)
  <2>1. Saw(j, 0) /\ 0 \in 0..1
    BY <1>0
  <2> QED
    BY <2>1
<1>1. /\ seen' \in [held : SUBSET Part, clicks : 0..2,
                    item : Apps \cup {"DOODLER", "KEYPAD", NoMode}]
      /\ seen'.held = IF j.l THEN seen.held \cup {j.part} ELSE seen.held \ {j.part}
      /\ seen'.clicks = IF j.part # "TOOLBAR" THEN seen.clicks
                        ELSE IF Starts(j) THEN none
                        ELSE IF seen.clicks = 2 THEN 2 ELSE seen.clicks + none
      /\ seen'.item = IF j.part = "MODEBAR" /\ Starts(j)
                      THEN GetModeUnderMouse(j.x, j.y) ELSE seen.item
  BY <1>0, SawTyped
<1>2. seen'.held = HeldAfter(seen.held, j)
  BY <1>0, SawHeld
<1>3. /\ seen'.item = seen.item /\ seen'.clicks = seen.clicks
      /\ "MODEBAR" \in seen'.held <=> "MODEBAR" \in seen.held
      /\ "TOOLBAR" \in seen'.held <=> "TOOLBAR" \in seen.held
  BY <1>0, <1>1
<1>4. ItemInv' /\ ClickInv'
  BY <1>0, <1>3 DEF GestureInv, ItemInv, ClickInv
<1>5. \/ jobs' = Tail(jobs)
      \/ \E k \in Job : k.kind # "Mouse" /\ jobs' = Append(Tail(jobs), k)
  <2>1. Plain("CanvasMouse") \in Job /\ Plain("CanvasMouse").kind # "Mouse"
    BY JobsInJob DEF PlainKind, Plain
  <2>2. jobs' = Tail(jobs) \/ jobs' = Append(Tail(jobs), Plain("CanvasMouse"))
    BY DEF DoMouseOther
  <2> QED
    BY <2>1, <2>2
<1>6. /\ jobs' \in Seq(Job)
      /\ Orderly(jobs', seen'.held, activePart', "MODEBAR")
  BY <1>0, <1>2, <1>5, GestureHandled
<1>7. HandlersTyped'
  BY <1>0, <1>1, <1>6 DEF HandlersTyped
<1> QED
  BY <1>4, <1>6, <1>7 DEF GestureInv

LEMMA GestureWorker ==
    ASSUME GestureInv, Worker
    PROVE  GestureInv'
<1>1. ASSUME jobs # <<>>, Head(jobs).kind # "Mouse", jobs' = Tail(jobs),
             UNCHANGED <<events, activePart, pushed, mouseDownItem, seen>>,
             activeApp' \in Apps, activeToolIds' \in Seq(Tool), aborted' \in BOOLEAN
      PROVE  GestureInv'
  <2>1. seen'.held = HeldAfter(seen.held, Head(jobs))
    BY <1>1 DEF HeldAfter
  <2>2. /\ jobs' \in Seq(Job)
        /\ Orderly(jobs', seen'.held, activePart', "MODEBAR")
    BY <1>1, <2>1, GestureHandled
  <2>3. HandlersTyped'
    BY <1>1, <2>2 DEF GestureInv, HandlersTyped
  <2> QED
    BY <1>1, <2>2, <2>3 DEF GestureInv, ItemInv, ClickInv
<1>2. /\ activeApp \in Apps /\ activeToolIds \in Seq(Tool) /\ jobs \in Seq(Job)
      /\ aborted \in BOOLEAN
  BY DEF GestureInv, HandlersTyped
<1>3. CASE DoAppSelect
  <2>1. /\ jobs # <<>> /\ Head(jobs).kind = "AppSelect" /\ jobs' = Tail(jobs)
        /\ UNCHANGED <<events, activePart, pushed, mouseDownItem, seen>>
        /\ aborted' \in BOOLEAN
    BY <1>3 DEF DoAppSelect, Do, window
  <2>2. Head(jobs).mode \in Apps \cup {NoMode}
    <3>1. Head(jobs) \in Job
      BY <1>2, <2>1
    <3> QED
      BY <2>1, <3>1, SelectJobs
  <2>3. activeApp' \in Apps /\ activeToolIds' \in Seq(Tool)
    BY <1>2, <1>3, <2>2, AppsAssumption DEF DoAppSelect, ShowTools
  <2> QED
    BY <1>1, <2>1, <2>3
<1>4. CASE DoRedraw
  BY <1>1, <1>2, <1>4 DEF DoRedraw, Do, window, handlers
<1>5. CASE DoOther
  <2>1. Head(jobs).kind # "Mouse" /\ jobs # <<>> /\ jobs' = Tail(jobs)
    BY <1>5 DEF DoOther, Do, PlainKind
  <2>2. UNCHANGED <<events, activePart, handlers>>
    BY <1>5 DEF DoOther, Do, window
  <2> QED
    BY <1>1, <1>2, <2>1, <2>2 DEF handlers
<1> QED
  BY <1>3, <1>4, <1>5, GestureToolbar, GestureModebar, GestureOther DEF Worker

LEMMA GestureStep == IInv /\ GestureInv /\ [Next]_vars => GestureInv'
<1> SUFFICES ASSUME IInv, GestureInv, [Next]_vars PROVE GestureInv'
  OBVIOUS
<1>1. ASSUME UNCHANGED <<jobs, activePart, handlers>> PROVE GestureInv'
  <2>1. HandlersTyped' /\ ItemInv' /\ ClickInv'
    BY <1>1 DEF GestureInv, HandlersTyped, ItemInv, ClickInv, handlers
  <2>2. Orderly(jobs', seen'.held, activePart', "MODEBAR")
    BY <1>1 DEF GestureInv, handlers, Orderly
  <2> QED
    BY <1>1, <2>1, <2>2 DEF GestureInv
<1>4. ASSUME NEW p \in Points, onMouse(p) PROVE GestureInv'
  BY <1>1, <1>4, Zenon DEF onMouse, Polling
<1>5. CASE PollPenEvents
  BY <1>1, <1>5 DEF PollPenEvents, Polling
<1>6. CASE Aborted \/ UNCHANGED vars
  BY <1>1, <1>6 DEF Aborted, vars, window
<1> QED
  BY <1>4, <1>5, <1>6, GestureMain, GestureWorker DEF Next

(* The types of the model, the queue's jobs among them: what a release of  *)
(* the modebar selects is an app or NONE, for every geometry and any Modes.*)
THEOREM PointerTypes == SafeSpec => []TypeOK
<1>1. IInv /\ GestureInv => TypeOK
  BY DEF IInv, GestureInv, TypeOK
<1> QED
  BY <1>1, Initially, StepPreserves, GestureInit, GestureStep, PTL DEF SafeSpec

-----------------------------------------------------------------------------
(* What the handlers post.                                                 *)

(* A set of naturals has a least member.                                   *)
LEMMA Least ==
    ASSUME NEW T \in SUBSET Nat, T # {}
    PROVE  \E x \in T : \A y \in T : x <= y
<1> DEFINE R == OpToRel(<, Nat)
<1>1. IsWellFoundedOn(R, Nat)
  BY NatLessThanWellFounded
<1>2. \A y \in Nat, x \in Nat : <<y, x>> \in R <=> y < x
  BY DEF OpToRel
<1> HIDE DEF R
<1>3. PICK x \in T : \A y \in T : ~ (<<y, x>> \in R)
  BY <1>1, WFMin
<1>4. ASSUME NEW y \in T PROVE x <= y
  <2>1. x \in Nat /\ y \in Nat
    OBVIOUS
  <2>2. ~ (<<y, x>> \in R)
    BY <1>3
  <2>3. ~ (y < x)
    BY <1>2, <2>1, <2>2
  <2> QED
    BY <2>1, <2>3
<1> QED
  BY <1>4

(* A queue with a mouse event at its head is not the same once the head    *)
(* has made way for another kind of job at the end: the first job that is  *)
(* no mouse event moves forward.                                           *)
LEMMA QueueMoves ==
    ASSUME NEW s, IsSequence(s), s # <<>>, Head(s).kind = "Mouse",
           NEW j, j.kind # "Mouse"
    PROVE  s # Append(Tail(s), j)
<1> SUFFICES ASSUME s = Append(Tail(s), j) PROVE FALSE
  OBVIOUS
<1>1. /\ IsSequence(Tail(s)) /\ Head(s) = s[1]
      /\ Len(s) \in Nat \ {0} /\ Len(Tail(s)) = Len(s) - 1
      /\ \A i \in 1..(Len(s) - 1) : Tail(s)[i] = s[i + 1]
  BY Tails
<1> DEFINE t == Tail(s)
           u == Append(t, j)
<1>2. /\ \A i \in 1..Len(t) : u[i] = t[i]
      /\ u[Len(t) + 1] = j
  BY <1>1, Appends
<1>3. u = s
  OBVIOUS
<1> HIDE DEF t, u
<1>4. (\A i \in 1..(Len(s) - 1) : s[i] = s[i + 1]) /\ s[Len(s)] = j
  BY <1>1, <1>2, <1>3 DEF t
<1> DEFINE T == {i \in 1..Len(s) : s[i].kind # "Mouse"}
<1>5. T \in SUBSET Nat /\ Len(s) \in T
  BY <1>1, <1>4
<1>6. PICK i \in T : \A k \in T : i <= k
  BY <1>5, Least
<1>7. i \in 1..Len(s) /\ i # 1
  BY <1>1
<1>8. i - 1 \in 1..(Len(s) - 1) /\ (i - 1) + 1 = i
  BY <1>1, <1>7
<1>9. i - 1 \in T
  BY <1>1, <1>4, <1>8
<1> QED
  BY <1>6, <1>7, <1>9

LEMMA Posted ==
    ASSUME HandlersTyped, NEW j, j.kind # "Mouse", HandlerPosts(j)
    PROVE  /\ jobs' # jobs /\ jobs' # Tail(jobs)
           /\ \A k : jobs' # Append(jobs, k)
           /\ \A k : jobs' = Append(Tail(jobs), k) => k = j
<1>1. IsSequence(jobs) /\ jobs # <<>> /\ Head(jobs).kind = "Mouse"
      /\ jobs' = Append(Tail(jobs), j)
  BY IsSeqOfJobs DEF HandlerPosts
<1>2. jobs' # jobs
  BY <1>1, QueueMoves
<1>3. /\ IsSequence(Tail(jobs)) /\ Len(jobs) \in Nat \ {0}
      /\ Len(Tail(jobs)) = Len(jobs) - 1
  BY <1>1, Tails
<1>4. Len(jobs') = Len(jobs)
  <2>1. Len(Append(Tail(jobs), j)) = Len(Tail(jobs)) + 1
    BY <1>3, Appends
  <2> QED
    BY <1>1, <1>3, <2>1
<1>5. jobs' # Tail(jobs)
  BY <1>3, <1>4
<1>6. ASSUME NEW k PROVE jobs' # Append(jobs, k)
  <2>1. Len(Append(jobs, k)) = Len(jobs) + 1
    BY <1>1, Appends
  <2> QED
    BY <1>3, <1>4, <2>1
<1>7. ASSUME NEW k, jobs' = Append(Tail(jobs), k) PROVE k = j
  <2>1. /\ Append(Tail(jobs), k)[Len(Tail(jobs)) + 1] = k
        /\ Append(Tail(jobs), j)[Len(Tail(jobs)) + 1] = j
    BY <1>3, Appends
  <2> QED
    BY <1>1, <1>7, <2>1
<1> QED
  BY <1>2, <1>5, <1>6, <1>7

(* Only the handlers of the toolbar, the modebar and the canvas post.      *)
LEMMA PostedByHandler ==
    ASSUME GestureInv, Next, NEW j, j.kind # "Mouse", HandlerPosts(j)
    PROVE  \/ /\ DoMouseToolbar
              /\ LET h == Head(jobs)
                     i == ToolIdx(h)
                 IN /\ HoldTool(h, i) \/ ReleaseTool(h, i)
                    /\ Click(h, i) /\ j = ToolClick(activeToolIds[i + 1])
           \/ /\ DoMouseModebar
              /\ ~Head(jobs).l /\ j = ItemClicked(mouseDownItem)
           \/ j = Plain("CanvasMouse")
<1>1. /\ jobs' # jobs /\ jobs' # Tail(jobs)
      /\ \A k : jobs' # Append(jobs, k)
      /\ \A k : jobs' = Append(Tail(jobs), k) => k = j
  BY Posted DEF GestureInv
<1>2. ~ HandlePointer
  BY <1>1 DEF HandlePointer, HandleEvent, HandleHeld, Press, Release, Overtaken,
              PostMouseEvent
<1>3. ~ (\E p \in Points : onMouse(p)) /\ ~PollPenEvents
  BY <1>1 DEF onMouse, PollPenEvents
<1>4. ~Aborted
  BY <1>1 DEF Aborted, vars
<1>5. ~DoAppSelect /\ ~DoRedraw /\ ~DoOther
  BY <1>1 DEF DoAppSelect, DoRedraw, DoOther
<1>6. CASE DoMouseToolbar
  <2> DEFINE h == Head(jobs)
             i == ToolIdx(h)
  <2>1. ~NoClick(h)
    BY <1>1 DEF NoClick
  <2>2. (HoldTool(h, i) \/ ReleaseTool(h, i)) /\ Click(h, i)
    BY <1>1, <1>6, <2>1 DEF DoMouseToolbar, PushTool, SlideOverTool, HoldTool,
                            ReleaseTool
  <2>3. j = ToolClick(activeToolIds[i + 1])
    BY <1>1, <2>2 DEF Click
  <2> QED
    BY <1>6, <2>2, <2>3
<1>7. CASE DoMouseModebar
  <2>1. PICK m : PressItem(Head(jobs), m) \/ ReleaseItem(Head(jobs), m)
    BY <1>7 DEF DoMouseModebar
  <2>2. ReleaseItem(Head(jobs), m) /\ m = mouseDownItem
    BY <1>1, <2>1 DEF PressItem, ReleaseItem
  <2>3. j = ItemClicked(mouseDownItem)
    BY <1>1, <2>2 DEF ReleaseItem
  <2> QED
    BY <1>7, <2>2, <2>3 DEF ReleaseItem
<1>8. CASE DoMouseOther
  BY <1>1, <1>8 DEF DoMouseOther
<1> QED
  BY <1>2, <1>3, <1>4, <1>5, <1>6, <1>7, <1>8 DEF Next, Worker

(* A gesture of the modebar ends when its handler sees the release.        *)
LEMMA EndsByRelease ==
    ASSUME GestureInv, Next, GestureEnds
    PROVE  DoMouseModebar /\ ~Head(jobs).l
<1>1. ~(\E p \in Points : onMouse(p)) /\ ~PollPenEvents /\ ~HandlePointer /\ ~Aborted
  BY DEF GestureEnds, onMouse, PollPenEvents, HandlePointer, Aborted, vars, handlers
<1>2. ~DoAppSelect /\ ~DoRedraw /\ ~DoOther
  BY DEF GestureEnds, DoAppSelect, DoRedraw, DoOther, handlers
<1>3. jobs \in Seq(Job) /\ HandlersTyped
  BY DEF GestureInv, HandlersTyped
<1>4. ASSUME jobs # <<>>, Head(jobs).kind = "Mouse", NEW n \in 0..1, Saw(Head(jobs), n)
      PROVE  Head(jobs).part = "MODEBAR" /\ ~Head(jobs).l
  <2>1. Head(jobs) \in Job
    BY <1>3, <1>4
  <2>2. seen'.held = IF Head(jobs).l THEN seen.held \cup {Head(jobs).part}
                                     ELSE seen.held \ {Head(jobs).part}
    BY <1>3, <1>4, <2>1, SawTyped
  <2> QED
    BY <2>2 DEF GestureEnds
<1>5. 0 \in 0..1 /\ 1 \in 0..1
  OBVIOUS
<1>6. ~DoMouseToolbar
  <2> SUFFICES ASSUME DoMouseToolbar PROVE FALSE
    OBVIOUS
  <2>1. jobs # <<>> /\ Head(jobs).kind = "Mouse" /\ Head(jobs).part = "TOOLBAR"
    BY DEF DoMouseToolbar, Do
  <2>2. UNCHANGED seen \/ Saw(Head(jobs), 0) \/ Saw(Head(jobs), 1)
    BY DEF DoMouseToolbar, NoClick, Click, PushTool, HoldTool, SlideOverTool, ReleaseTool
  <2> QED
    BY <1>4, <1>5, <2>1, <2>2 DEF GestureEnds
<1>7. ~DoMouseOther
  BY <1>4, <1>5 DEF DoMouseOther, Do
<1>8. DoMouseModebar
  BY <1>1, <1>2, <1>6, <1>7 DEF Next, Worker
<1> QED
  BY <1>4, <1>5, <1>8 DEF DoMouseModebar, Do

(* An app is selected by a release on the item of the modebar where the    *)
(* gesture was begun, if it was begun on one, and by nothing else          *)
(* (coremodebar.cpp:57).                                                   *)
THEOREM AppsAreSelectedWherePressed == SafeSpec => ModeSelectedWherePressed
<1> DEFINE Under == GetModeUnderMouse(Head(jobs).x, Head(jobs).y)
           Selects ==
        /\ GestureEnds /\ seen.item \in Apps =>
              (HandlerPosts(AppSelect(seen.item)) <=> Under = seen.item)
        /\ \A m \in Apps \cup {NoMode, "DOODLER", "KEYPAD"} :
              HandlerPosts(AppSelect(m)) =>
                  GestureEnds /\ (seen.item = NoMode \/ (m = seen.item /\ m \in Apps))
<1>1. ASSUME GestureInv, Next, GestureEnds, seen.item \in Apps
      PROVE  HandlerPosts(AppSelect(seen.item)) <=> Under = seen.item
  <2>1. /\ DoMouseModebar /\ ~Head(jobs).l /\ seen.item # NoMode
        /\ seen.item \notin {"KEYPAD", "DOODLER"} /\ "MODEBAR" \in seen.held
    BY <1>1, EndsByRelease, AppsAssumption DEF GestureEnds
  <2>2. mouseDownItem = seen.item
    BY <1>1, <2>1 DEF GestureInv, ItemInv
  <2>3. /\ jobs # <<>> /\ Head(jobs).kind = "Mouse"
        /\ jobs' = IF Under = seen.item THEN Append(Tail(jobs), ItemClicked(Under))
                                        ELSE Tail(jobs)
    BY <2>1, <2>2 DEF DoMouseModebar, Do, PressItem, ReleaseItem
  <2>4. ItemClicked(seen.item) = AppSelect(seen.item) /\ AppSelect(seen.item).kind # "Mouse"
    BY <2>1 DEF ItemClicked, AppSelect
  <2> HIDE DEF Under
  <2>5. CASE Under = seen.item
    BY <2>3, <2>4, <2>5 DEF HandlerPosts
  <2>6. CASE Under # seen.item
    <3>1. jobs' = Tail(jobs)
      BY <2>3, <2>6
    <3> QED
      BY <1>1, <2>4, <2>6, <3>1, Posted DEF GestureInv
  <2> QED
    BY <2>5, <2>6
<1>2. ASSUME GestureInv, Next, NEW m \in Apps \cup {NoMode, "DOODLER", "KEYPAD"},
             HandlerPosts(AppSelect(m))
      PROVE  GestureEnds /\ (seen.item = NoMode \/ (m = seen.item /\ m \in Apps))
  <2>1. AppSelect(m).kind = "AppSelect" /\ AppSelect(m).mode = m
    BY DEF AppSelect
  <2>2. /\ \A t : AppSelect(m) # ToolClick(t)
        /\ AppSelect(m) # Plain("CanvasMouse")
    BY <2>1 DEF ToolClick, Plain
  <2>3. DoMouseModebar /\ ~Head(jobs).l /\ AppSelect(m) = ItemClicked(mouseDownItem)
    BY <1>2, <2>1, <2>2, PostedByHandler
  <2>4. "MODEBAR" \in seen.held
    BY <1>2, <2>3, GestureModebar
  <2>5. GestureEnds
    <3>1. /\ jobs \in Seq(Job) /\ jobs # <<>> /\ Head(jobs).kind = "Mouse"
          /\ Head(jobs).part = "MODEBAR" /\ Saw(Head(jobs), 0) /\ HandlersTyped
      BY <1>2, <2>3 DEF GestureInv, HandlersTyped, DoMouseModebar, Do
    <3>2. Head(jobs) \in Job /\ 0 \in 0..1
      BY <3>1
    <3>3. seen'.held = IF Head(jobs).l THEN seen.held \cup {Head(jobs).part}
                                       ELSE seen.held \ {Head(jobs).part}
      BY <3>1, <3>2, SawTyped
    <3> QED
      BY <2>3, <2>4, <3>1, <3>3 DEF GestureEnds
  <2>6. mouseDownItem \notin {"KEYPAD", "DOODLER"}
    BY <2>1, <2>3 DEF ItemClicked, Plain
  <2>7. AppSelect(m) = AppSelect(mouseDownItem)
    BY <2>3, <2>6 DEF ItemClicked
  <2>8. m = mouseDownItem
    BY <2>1, <2>7 DEF AppSelect
  <2>9. seen.item # NoMode => m = seen.item
    BY <1>2, <2>4, <2>8 DEF GestureInv, ItemInv
  <2>10. seen.item # NoMode => m \in Apps
    BY <2>6, <2>8, <2>9
  <2> QED
    BY <2>5, <2>9, <2>10
<1>3. GestureInv /\ [Next]_vars => [Selects]_vars
  BY <1>1, <1>2
<1> QED
  BY <1>3, Initially, StepPreserves, GestureInit, GestureStep, PTL
  DEF SafeSpec, ModeSelectedWherePressed

(* In one gesture a tool is clicked again only while it is held and if it  *)
(* repeats (coretoolbar.cpp:173).                                          *)
THEOREM ToolsClickOnceOrRepeat == SafeSpec => ClicksAgainOnlyRepeating
<1> DEFINE Clicks ==
        \A t \in Tool :
            /\ HandlerPosts(ToolClick(t))
            /\ "TOOLBAR" \in seen.held /\ seen.clicks > 0
            => Head(jobs).l /\ t \in Repeating[activeApp]
<1>1. ASSUME GestureInv, Next PROVE Clicks
  <2> SUFFICES ASSUME NEW t \in Tool, HandlerPosts(ToolClick(t)),
                      "TOOLBAR" \in seen.held, seen.clicks > 0
               PROVE  Head(jobs).l /\ t \in Repeating[activeApp]
    OBVIOUS
  <2> DEFINE h == Head(jobs)
             i == ToolIdx(h)
  <2>1. ToolClick(t).kind = "ToolClick" /\ ToolClick(t).tool = t
    BY DEF ToolClick
  <2>2. /\ ToolClick(t) # ItemClicked(mouseDownItem)
        /\ ToolClick(t) # Plain("CanvasMouse")
    BY <2>1 DEF ItemClicked, Plain, AppSelect
  <2>3. /\ HoldTool(h, i) \/ ReleaseTool(h, i)
        /\ Click(h, i) /\ ToolClick(t) = ToolClick(activeToolIds[i + 1])
    BY <1>1, <2>1, <2>2, PostedByHandler
  <2>4. t = activeToolIds[i + 1]
    BY <2>1, <2>3 DEF ToolClick
  <2>5. pushed.long
    BY <1>1 DEF GestureInv, ClickInv
  <2>6. ~NoClick(h)
    <3>1. jobs' # Tail(jobs)
      BY <1>1, <2>1, Posted DEF GestureInv
    <3> QED
      BY <3>1 DEF NoClick
  <2> HIDE DEF h, i
  <2>7. HoldTool(h, i)
    BY <2>3, <2>5, <2>6 DEF ReleaseTool
  <2>8. h.l /\ t \in Repeating[activeApp]
    BY <2>4, <2>5, <2>6, <2>7 DEF HoldTool
  <2> QED
    BY <2>8 DEF h
<1>2. GestureInv /\ [Next]_vars => [Clicks]_vars
  BY <1>1
<1> QED
  BY <1>2, Initially, StepPreserves, GestureInit, GestureStep, PTL
  DEF SafeSpec, ClicksAgainOnlyRepeating
=============================================================================
