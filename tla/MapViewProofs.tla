------------------------------ MODULE MapViewProofs ------------------------------
(***************************************************************************)
(* Proofs about MapView, for any canvas, tiles, zooms, servers, planes and *)
(* moves and whatever the servers answer: what the cache holds over zooms  *)
(* and ticks, how long a drag lasts, which tiles are asked for, what every *)
(* pixel of the canvas shows, and where the plane's icon points.           *)
(***************************************************************************)
EXTENDS MapView, FiniteSetTheorems, WellFoundedInduction, TLAPS

(* The actions that leave what the provider has of tiles.                  *)
Gesture == ToolCentre \/ MouseDown \/ (\E d \in Moves : MouseMove(d)) \/ MouseUp

-----------------------------------------------------------------------------
(* The cache over zooms                                                    *)

CachedForZoom ==
    \A t \in DOMAIN cache :
        cache[t] = [used |-> cache[t].used, from |-> cache[t].from] /\ cache[t].from = zoom

LEMMA TickKeepsZoom ==
    ASSUME CachedForZoom, NEW tick \in BOOLEAN, NEW t \in DOMAIN AfterTick(tick)
    PROVE  /\ AfterTick(tick)[t] =
                 [used |-> AfterTick(tick)[t].used, from |-> AfterTick(tick)[t].from]
           /\ AfterTick(tick)[t].from = zoom
<1>1. CASE ~tick
  BY <1>1 DEF AfterTick, CachedForZoom
<1>2. CASE tick
  <2>1. t \in DOMAIN cache /\ AfterTick(tick)[t] = [cache[t] EXCEPT !.used = @ - 1]
    BY <1>2 DEF AfterTick
  <2>2. cache[t] = [used |-> cache[t].used, from |-> cache[t].from] /\ cache[t].from = zoom
    BY <2>1 DEF CachedForZoom
  <2>3. AfterTick(tick)[t] = [used |-> cache[t].used - 1, from |-> zoom]
    BY <2>1, <2>2
  <2>4. QED
    BY <2>3
<1>3. QED
  BY <1>1, <1>2

LEMMA TilesForZoom ==
    ASSUME CachedForZoom, NEW tick \in BOOLEAN, NEW times, NEW host,
           GetTiles(AfterTick(tick), times, host)
    PROVE  CachedForZoom'
<1> DEFINE kept  == AfterTick(tick)
           fresh == {t \in DOMAIN times \ DOMAIN kept : StatusOK(t, host[t])}
<1>1. /\ cache' = [t \in DOMAIN kept \cup fresh |->
             IF t \in fresh
             THEN [used |-> Capped(times[t]), from |-> zoom]
             ELSE IF t \in DOMAIN times
                  THEN [kept[t] EXCEPT !.used = Capped(@ + times[t])]
                  ELSE kept[t]]
      /\ zoom' = zoom
  BY DEF GetTiles
<1>2. ASSUME NEW t \in DOMAIN kept
      PROVE  kept[t] = [used |-> kept[t].used, from |-> kept[t].from] /\ kept[t].from = zoom
  BY TickKeepsZoom
<1> HIDE DEF kept, fresh
<1>3. ASSUME NEW t \in DOMAIN cache'
      PROVE  /\ cache'[t] = [used |-> cache'[t].used, from |-> cache'[t].from]
             /\ cache'[t].from = zoom
  <2>1. CASE t \in fresh
    <3>1. cache'[t] = [used |-> Capped(times[t]), from |-> zoom]
      BY <1>1, <2>1
    <3>2. QED
      BY <3>1
  <2>2. CASE t \notin fresh /\ t \in DOMAIN times
    <3>1. t \in DOMAIN kept /\ cache'[t] = [kept[t] EXCEPT !.used = Capped(@ + times[t])]
      BY <1>1, <1>3, <2>2
    <3>2. cache'[t] = [used |-> Capped(kept[t].used + times[t]), from |-> zoom]
      BY <1>2, <3>1
    <3>3. QED
      BY <3>2
  <2>3. CASE t \notin fresh /\ t \notin DOMAIN times
    <3>1. t \in DOMAIN kept /\ cache'[t] = kept[t]
      BY <1>1, <1>3, <2>3
    <3>2. QED
      BY <1>2, <3>1
  <2>4. QED
    BY <2>1, <2>2, <2>3
<1>4. QED
  BY <1>1, <1>3 DEF CachedForZoom

LEMMA NextCachedForZoom == CachedForZoom /\ [Next]_vars => CachedForZoom'
<1> SUFFICES ASSUME CachedForZoom, [Next]_vars PROVE CachedForZoom'
  OBVIOUS
<1>1. ASSUME NEW p \in Planes, NEW tick \in BOOLEAN, FlightLoop(p, tick)
      PROVE  CachedForZoom'
  <2>1. PICK host : GetTiles(AfterTick(tick), Times(Normalised(CentreOn(p))), host)
    BY <1>1 DEF FlightLoop
  <2>2. QED
    BY <2>1, TilesForZoom
<1>2. ASSUME NEW tick \in BOOLEAN, OtherFlightLoop(tick) PROVE CachedForZoom'
  BY <1>2, TickKeepsZoom DEF OtherFlightLoop, CachedForZoom
<1>3. ASSUME NEW z, SetZoom(z) PROVE CachedForZoom'
  BY <1>3 DEF SetZoom, CachedForZoom
<1>4. CASE AppSelect \/ Gesture
  BY <1>4 DEF AppSelect, Gesture, ToolCentre, MouseDown, MouseMove, MouseUp, provider,
              CachedForZoom
<1>5. CASE Download
  BY <1>5 DEF Download, Downloaded, CachedForZoom
<1>6. CASE UNCHANGED vars
  BY <1>6 DEF vars, provider, CachedForZoom
<1>7. QED
  BY <1>1, <1>2, <1>3, <1>4, <1>5, <1>6 DEF Next, FlightLoops, ToolZoom, Gesture

(* However zooming, painting and downloads follow one another, a tile in   *)
(* the cache was drawn from a document of the zoom that is shown.          *)
THEOREM CacheFollowsZoom == Spec => []CacheForZoom
<1>1. Init => CachedForZoom
  BY DEF Init, ProviderInit, CachedForZoom
<1>2. CachedForZoom => CacheForZoom
  BY DEF CachedForZoom, CacheForZoom
<1>3. QED
  BY <1>1, <1>2, NextCachedForZoom, PTL DEF Spec

-----------------------------------------------------------------------------
(* Drags                                                                   *)

(* While the button is down the map does not follow the plane, and a drag  *)
(* that once went far by the sum of its distances is never counted short.  *)
DragMeasured ==
    /\ drag = [down |-> drag.down, dist |-> drag.dist, follow |-> drag.follow,
               from |-> drag.from, far |-> drag.far, across |-> drag.across]
    /\ drag.dist \in Nat /\ drag.across \in BOOLEAN
    /\ drag.down => follow = FALSE
    /\ drag.across => drag.dist >= ClickPx

LEMMA MoveMeasured == ASSUME DragMeasured, NEW d \in Moves, MouseMove(d) PROVE DragMeasured'
<1> DEFINE n == AbsV(d[1] + d[2])
           far == drag.far \/ AbsV(d[1]) >= ClickPx \/ AbsV(d[2]) >= ClickPx
           across == drag.across \/ n >= ClickPx
<1>1. d[1] + d[2] \in Int /\ ClickPx \in Nat
  BY ViewAssumption DEF ViewAssumption
<1>2. n \in Nat
  BY <1>1 DEF AbsV
<1>3. drag' = [drag EXCEPT !.dist = drag.dist + n, !.far = far, !.across = across]
  BY DEF MouseMove, Distance, DragMeasured
<1>4. follow' = follow /\ drag.down
  BY DEF MouseMove
<1> HIDE DEF n, far, across
<1>5. drag' = [down |-> drag.down, dist |-> drag.dist + n, follow |-> drag.follow,
              from |-> drag.from, far |-> far, across |-> across]
  BY <1>3 DEF DragMeasured
<1>6. drag.dist + n \in Nat
  BY <1>2 DEF DragMeasured
<1>7. across => drag.dist + n >= ClickPx
  BY <1>1, <1>2 DEF DragMeasured, across
<1>8. across \in BOOLEAN
  BY DEF DragMeasured, across
<1>9. QED
  BY <1>4, <1>5, <1>6, <1>7, <1>8 DEF DragMeasured

LEMMA NextDragMeasured == DragMeasured /\ [Next]_vars => DragMeasured'
<1> SUFFICES ASSUME DragMeasured, [Next]_vars PROVE DragMeasured'
  OBVIOUS
<1>1. CASE FlightLoops \/ Download \/ AppSelect
  BY <1>1 DEF FlightLoops, FlightLoop, Download, AppSelect, app, DragMeasured
<1>2. ASSUME NEW tick \in BOOLEAN, OtherFlightLoop(tick) PROVE DragMeasured'
  BY <1>2 DEF OtherFlightLoop, app, DragMeasured
<1>3. ASSUME NEW d, ToolZoom(d) PROVE DragMeasured'
  BY <1>3 DEF ToolZoom, DragMeasured
<1>4. CASE ToolCentre
  BY <1>4 DEF ToolCentre, DragMeasured
<1>5. CASE MouseDown
  BY <1>5 DEF MouseDown, DragMeasured
<1>6. ASSUME NEW d \in Moves, MouseMove(d) PROVE DragMeasured'
  BY <1>6, MoveMeasured
<1>7. CASE MouseUp
  <2>1. drag' = [down |-> FALSE, dist |-> drag.dist, follow |-> drag.follow,
                from |-> drag.from, far |-> drag.far, across |-> drag.across]
    BY <1>7 DEF MouseUp, DragMeasured
  <2>2. QED
    BY <2>1 DEF DragMeasured
<1>8. CASE UNCHANGED vars
  BY <1>8 DEF vars, app, DragMeasured
<1>9. QED
  BY <1>1, <1>2, <1>3, <1>4, <1>5, <1>6, <1>7, <1>8 DEF Next

(* What the end of a drag promises.                                        *)
KeptAtEnd == drag.down /\ ~drag'.down /\ drag.across => follow' = FALSE /\ centre' = centre

LEMMA DragEnds == DragMeasured /\ [Next]_vars => KeptAtEnd
<1> SUFFICES ASSUME DragMeasured, [Next]_vars, drag.down, ~drag'.down, drag.across
             PROVE  follow' = FALSE /\ centre' = centre
  BY DEF KeptAtEnd
<1>1. drag.dist \in Nat /\ drag.dist >= ClickPx /\ ClickPx \in Nat /\ follow = FALSE
  BY ViewAssumption DEF DragMeasured, ViewAssumption
<1>2. CASE MouseUp
  BY <1>1, <1>2 DEF MouseUp
<1>3. ~(FlightLoops \/ Download \/ AppSelect)
  BY DEF FlightLoops, FlightLoop, Download, AppSelect, app
<1>4. ASSUME NEW tick \in BOOLEAN PROVE ~OtherFlightLoop(tick)
  BY DEF OtherFlightLoop, app
<1>5. ~ToolZoom(1) /\ ~ToolZoom(-1) /\ ~ToolCentre /\ ~MouseDown
  BY DEF ToolZoom, ToolCentre, MouseDown
<1>6. ASSUME NEW d \in Moves PROVE ~MouseMove(d)
  BY DEF MouseMove, DragMeasured
<1>7. ~UNCHANGED vars
  BY DEF vars, app
<1>8. QED
  BY <1>2, <1>3, <1>4, <1>5, <1>6, <1>7 DEF Next

(* A drag that was ever as far as a click may not be, by the sum of its    *)
(* distances to the right and down, is not undone when the button is       *)
(* released, whatever moves came after and whatever was painted meanwhile. *)
THEOREM DragsAcrossAreKept == Spec => DragAcrossIsKept
<1>1. Init => DragMeasured
  BY DEF Init, NoDrag, DragMeasured
<1>2. QED
  BY <1>1, NextDragMeasured, DragEnds, PTL DEF Spec, DragAcrossIsKept, KeptAtEnd

-----------------------------------------------------------------------------
(* How often a tile is asked for                                           *)

LEMMA OffsetsFinite == ASSUME NEW c, NEW size \in Nat PROVE IsFiniteSet(Offsets(c, size))
<1>1. IsFiniteSet(-size..size)
  BY FS_Interval
<1>2. Offsets(c, size) \in SUBSET (-size..size)
  BY DEF Offsets, Shown
<1>3. QED
  BY <1>1, <1>2, FS_Subset

LEMMA AskedAtLeastOnce ==
    ASSUME NEW c, NEW t \in DOMAIN Times(c) PROVE Times(c)[t] \in Nat \ {0}
<1> DEFINE at   == [dy \in Offsets(c[1], Height) |-> TileRow(c[1] + dy * Tile)]
           left == [dx \in Offsets(c[2], Width) |-> TileCol(c[2] + dx * Tile)]
           mid  == <<TileRow(c[1]), TileCol(c[2])>>
           S    == {d \in (DOMAIN at) \X (DOMAIN left) : <<at[d[1]], left[d[2]]>> = t}
<1>1. /\ Times(c)[t] = Cardinality(S) + (IF t = mid THEN 1 ELSE 0)
      /\ t \in {<<at[dy], left[dx]>> : dy \in DOMAIN at, dx \in DOMAIN left} \cup {mid}
  BY DEF Times
<1>2. IsFiniteSet(S)
  <2>1. Height \in Nat /\ Width \in Nat
    BY ViewAssumption DEF ViewAssumption
  <2>2. IsFiniteSet(DOMAIN at) /\ IsFiniteSet(DOMAIN left)
    BY <2>1, OffsetsFinite
  <2>3. IsFiniteSet((DOMAIN at) \X (DOMAIN left))
    BY <2>2, FS_Product
  <2>4. QED
    BY <2>3, FS_Subset
<1>3. Cardinality(S) \in Nat
  BY <1>2, FS_CardinalityType
<1>4. CASE t = mid
  BY <1>1, <1>3, <1>4
<1>5. CASE t # mid
  <2>1. PICK dy \in DOMAIN at, dx \in DOMAIN left : t = <<at[dy], left[dx]>>
    BY <1>1, <1>5
  <2>2. <<dy, dx>> \in S
    BY <2>1
  <2>3. Cardinality(S) # 0
    BY <1>2, <2>2, FS_EmptySet
  <2>4. QED
    BY <1>1, <1>3, <1>5, <2>3
<1>6. QED
  BY <1>4, <1>5

-----------------------------------------------------------------------------
(* The tiles of the frame on the canvas                                    *)

(* An app other than the map shows no frame of it, and a tile of the frame *)
(* that is still in the cache has been used since it was last counted down *)
(* to nothing.                                                             *)
TilesInUse ==
    /\ \A t \in DOMAIN cache :
          cache[t] = [used |-> cache[t].used, from |-> cache[t].from] /\ cache[t].used \in Nat
    /\ \A t \in frame.tiles \cap DOMAIN cache : cache[t].used # 0
    /\ ~active => frame = Blank

LEMMA TickCounts ==
    ASSUME TilesInUse, NEW tick \in BOOLEAN
    PROVE  /\ frame.tiles \cap DOMAIN cache \subseteq DOMAIN AfterTick(tick)
           /\ \A t \in DOMAIN AfterTick(tick) :
                 AfterTick(tick)[t] =
                     [used |-> AfterTick(tick)[t].used, from |-> AfterTick(tick)[t].from]
                 /\ AfterTick(tick)[t].used \in Nat
<1>1. CASE ~tick
  BY <1>1 DEF AfterTick, TilesInUse
<1>2. CASE tick
  <2>1. AfterTick(tick) = [t \in {s \in DOMAIN cache : cache[s].used > 0} |->
                              [cache[t] EXCEPT !.used = @ - 1]]
    BY <1>2 DEF AfterTick
  <2>2. ASSUME NEW t \in frame.tiles \cap DOMAIN cache PROVE cache[t].used > 0
    BY DEF TilesInUse
  <2>3. ASSUME NEW t \in DOMAIN AfterTick(tick)
        PROVE  AfterTick(tick)[t] = [used |-> cache[t].used - 1, from |-> cache[t].from]
               /\ cache[t].used - 1 \in Nat
    <3>1. t \in DOMAIN cache /\ cache[t].used > 0
      BY <2>1, <2>3
    <3>2. cache[t] = [used |-> cache[t].used, from |-> cache[t].from] /\ cache[t].used \in Nat
      BY <3>1 DEF TilesInUse
    <3>3. AfterTick(tick)[t] = [cache[t] EXCEPT !.used = @ - 1]
      BY <2>1, <2>3
    <3>4. AfterTick(tick)[t] = [used |-> cache[t].used - 1, from |-> cache[t].from]
      BY <3>2, <3>3
    <3>5. QED
      BY <3>1, <3>2, <3>4
  <2>4. QED
    BY <2>1, <2>2, <2>3
<1>3. QED
  BY <1>1, <1>2

LEMMA CappedPositive ==
    ASSUME NEW n \in Nat \ {0} PROVE Capped(n) \in Nat \ {0}
BY TilesAssumption DEF TilesAssumption, Capped

(* After a frame is painted every tile of it that is cached is in use.     *)
LEMMA PaintedInUse ==
    ASSUME TilesInUse, NEW tick \in BOOLEAN, NEW c, NEW host,
           GetTiles(AfterTick(tick), Times(c), host)
    PROVE  /\ DOMAIN AfterTick(tick) \subseteq DOMAIN cache'
           /\ \A t \in DOMAIN cache' :
                 /\ cache'[t] = [used |-> cache'[t].used, from |-> cache'[t].from]
                 /\ cache'[t].used \in Nat
                 /\ t \in DOMAIN Times(c) => cache'[t].used # 0
<1> DEFINE kept  == AfterTick(tick)
           times == Times(c)
           fresh == {t \in DOMAIN times \ DOMAIN kept : StatusOK(t, host[t])}
<1>1. cache' = [t \in DOMAIN kept \cup fresh |->
             IF t \in fresh
             THEN [used |-> Capped(times[t]), from |-> zoom]
             ELSE IF t \in DOMAIN times
                  THEN [kept[t] EXCEPT !.used = Capped(@ + times[t])]
                  ELSE kept[t]]
  BY DEF GetTiles
<1>2. ASSUME NEW t \in DOMAIN kept
      PROVE  kept[t] = [used |-> kept[t].used, from |-> kept[t].from] /\ kept[t].used \in Nat
  BY TickCounts
<1>3. ASSUME NEW t \in DOMAIN times PROVE times[t] \in Nat \ {0}
  BY AskedAtLeastOnce
<1>4. fresh \subseteq DOMAIN times
  OBVIOUS
<1> HIDE DEF kept, times, fresh
<1>5. ASSUME NEW t \in DOMAIN cache'
      PROVE  /\ cache'[t] = [used |-> cache'[t].used, from |-> cache'[t].from]
             /\ cache'[t].used \in Nat
             /\ t \in DOMAIN times => cache'[t].used # 0
  <2>1. CASE t \in fresh
    <3>1. cache'[t] = [used |-> Capped(times[t]), from |-> zoom]
      BY <1>1, <2>1
    <3>2. Capped(times[t]) \in Nat \ {0}
      BY <1>3, <1>4, <2>1, CappedPositive
    <3>3. QED
      BY <3>1, <3>2
  <2>2. CASE t \notin fresh /\ t \in DOMAIN times
    <3>1. t \in DOMAIN kept /\ cache'[t] = [kept[t] EXCEPT !.used = Capped(@ + times[t])]
      BY <1>1, <1>5, <2>2
    <3>2. cache'[t] = [used |-> Capped(kept[t].used + times[t]), from |-> kept[t].from]
      BY <1>2, <3>1
    <3>3. kept[t].used + times[t] \in Nat \ {0}
      BY <1>2, <1>3, <2>2, <3>1
    <3>4. Capped(kept[t].used + times[t]) \in Nat \ {0}
      BY <3>3, CappedPositive
    <3>5. QED
      BY <3>2, <3>4
  <2>3. CASE t \notin fresh /\ t \notin DOMAIN times
    <3>1. t \in DOMAIN kept /\ cache'[t] = kept[t]
      BY <1>1, <1>5, <2>3
    <3>2. QED
      BY <1>2, <2>3, <3>1
  <2>4. QED
    BY <2>1, <2>2, <2>3
<1>6. DOMAIN kept \subseteq DOMAIN cache'
  BY <1>1
<1>7. QED
  BY <1>5, <1>6 DEF kept, times

LEMMA NextTilesInUse == TilesInUse /\ [Next]_vars => TilesInUse'
<1> SUFFICES ASSUME TilesInUse, [Next]_vars PROVE TilesInUse'
  OBVIOUS
<1>1. ASSUME NEW p \in Planes, NEW tick \in BOOLEAN, FlightLoop(p, tick)
      PROVE  TilesInUse'
  <2> DEFINE c == Normalised(CentreOn(p))
  <2>1. PICK host : GetTiles(AfterTick(tick), Times(c), host)
    BY <1>1 DEF FlightLoop
  <2>2. frame'.tiles = DOMAIN Times(c) \cap DOMAIN cache' /\ active'
    BY <1>1 DEF FlightLoop
  <2> HIDE DEF c
  <2>3. \A t \in DOMAIN cache' :
           /\ cache'[t] = [used |-> cache'[t].used, from |-> cache'[t].from]
           /\ cache'[t].used \in Nat
           /\ t \in DOMAIN Times(c) => cache'[t].used # 0
    BY <2>1, PaintedInUse
  <2>4. QED
    BY <2>2, <2>3 DEF TilesInUse
<1>2. ASSUME NEW tick \in BOOLEAN, OtherFlightLoop(tick) PROVE TilesInUse'
  <2>1. cache' = AfterTick(tick) /\ frame' = frame /\ active' = active /\ frame = Blank
    BY <1>2 DEF OtherFlightLoop, app, TilesInUse
  <2>2. frame'.tiles = {}
    BY <2>1 DEF Blank
  <2>3. QED
    BY <2>1, <2>2, TickCounts DEF TilesInUse
<1>3. ASSUME NEW d, ToolZoom(d) PROVE TilesInUse'
  <2>1. /\ cache' = IF zoom' # zoom THEN [t \in {} |-> 0] ELSE cache
        /\ frame' = frame /\ active' = active
    BY <1>3 DEF ToolZoom, SetZoom
  <2>2. QED
    BY <2>1 DEF TilesInUse
<1>4. CASE AppSelect
  <2>1. cache' = cache /\ frame' = Blank /\ frame'.tiles = {}
    BY <1>4 DEF AppSelect, provider, Blank
  <2>2. QED
    BY <2>1 DEF TilesInUse
<1>5. CASE Gesture
  BY <1>5 DEF Gesture, ToolCentre, MouseDown, MouseMove, MouseUp, provider, TilesInUse
<1>6. CASE Download
  BY <1>6 DEF Download, Downloaded, app, TilesInUse
<1>7. CASE UNCHANGED vars
  BY <1>7 DEF vars, provider, app, TilesInUse
<1>8. QED
  BY <1>1, <1>2, <1>3, <1>4, <1>5, <1>6, <1>7 DEF Next, FlightLoops, Gesture

(* What a step that leaves the zoom promises.                              *)
TilesStay ==
    zoom' = zoom /\ frame # Blank => frame.tiles \cap DOMAIN cache \subseteq DOMAIN cache'

LEMMA StepsKeepTiles == TilesInUse /\ [Next]_vars => TilesStay
<1> SUFFICES ASSUME TilesInUse, [Next]_vars, zoom' = zoom, frame # Blank
             PROVE  frame.tiles \cap DOMAIN cache \subseteq DOMAIN cache'
  BY DEF TilesStay
<1>1. ASSUME NEW p \in Planes, NEW tick \in BOOLEAN, FlightLoop(p, tick)
      PROVE  frame.tiles \cap DOMAIN cache \subseteq DOMAIN cache'
  <2>1. PICK host : GetTiles(AfterTick(tick), Times(Normalised(CentreOn(p))), host)
    BY <1>1 DEF FlightLoop
  <2>2. DOMAIN AfterTick(tick) \subseteq DOMAIN cache'
    BY <2>1, PaintedInUse
  <2>3. QED
    BY <2>2, TickCounts
<1>2. ASSUME NEW tick \in BOOLEAN PROVE ~OtherFlightLoop(tick)
  BY DEF OtherFlightLoop, TilesInUse
<1>3. ASSUME NEW d, ToolZoom(d) PROVE cache' = cache
  BY <1>3 DEF ToolZoom, SetZoom
<1>4. AppSelect \/ Gesture \/ Download \/ UNCHANGED vars => cache' = cache
  BY DEF AppSelect, Gesture, ToolCentre, MouseDown, MouseMove, MouseUp, Download, Downloaded,
         vars, provider
<1>5. QED
  BY <1>1, <1>2, <1>3, <1>4 DEF Next, FlightLoops, Gesture

(* While the map stays active at a zoom, no tick of the provider drops a   *)
(* tile that the frame on the canvas shows.                                *)
THEOREM ShownTilesAreKept == Spec => ShownTilesStay
<1>1. Init => TilesInUse
  BY DEF Init, ProviderInit, Blank, TilesInUse
<1>2. QED
  BY <1>1, NextTilesInUse, StepsKeepTiles, PTL DEF Spec, ShownTilesStay, TilesStay

-----------------------------------------------------------------------------
(* Powers of two.  Two is a recursive function: that there is one is       *)
(* proved here by least counterexample, since NatLessThanWellFounded needs *)
(* no operator as a parameter, where the library's induction does.         *)

LEMMA Least ==
    ASSUME NEW T \in SUBSET Nat, T # {}
    PROVE  \E x \in T : \A y \in T : x <= y
<1> DEFINE R == OpToRel(<, Nat)
<1>1. IsWellFoundedOn(R, Nat)
  BY NatLessThanWellFounded
<1>2. \A y \in Nat, x \in Nat : <<y, x>> \in R <=> y < x
  BY DEF OpToRel
<1> HIDE DEF R
<1>3. PICK x \in T : \A y \in T : ~ (<<y, x>> \in R)
  BY <1>1, WFMin
<1>4. ASSUME NEW y \in T PROVE x <= y
  <2>1. x \in Nat /\ y \in Nat
    OBVIOUS
  <2>2. ~ (<<y, x>> \in R)
    BY <1>3
  <2>3. ~ (y < x)
    BY <1>2, <2>1, <2>2
  <2> QED
    BY <2>1, <2>3
<1> QED
  BY <1>4

(* The powers of two up to the n-th.                                       *)
Doubles(g, n) ==
    /\ g \in [0..n -> Nat \ {0}]
    /\ g[0] = 1
    /\ \A i \in 1..n : g[i] = 2 * g[i - 1]

LEMMA DoublesExist == \A n \in Nat : \E g : Doubles(g, n)
<1> DEFINE T == {n \in Nat : ~ \E g : Doubles(g, n)}
<1>1. SUFFICES ASSUME T # {} PROVE FALSE
  OBVIOUS
<1>2. PICK n \in T : \A k \in T : n <= k
  BY <1>1, Least
<1>3. n # 0
  <2>1. Doubles([i \in 0..0 |-> 1], 0)
    BY DEF Doubles
  <2> QED
    BY <1>2, <2>1
<1>4. n - 1 \in Nat /\ n - 1 \notin T
  BY <1>2, <1>3
<1>5. PICK g : Doubles(g, n - 1)
  BY <1>4
<1> DEFINE h == [i \in 0..n |-> IF i = n THEN 2 * g[n - 1] ELSE g[i]]
<1>6. \A i \in 0..n - 1 : h[i] = g[i] /\ g[i] \in Nat \ {0}
  BY <1>4, <1>5 DEF Doubles
<1>7. h[n] = 2 * g[n - 1] /\ n - 1 \in 0..n - 1
  BY <1>4
<1>8. h = [i \in 0..n |-> h[i]]
  OBVIOUS
<1> HIDE DEF h
<1>9. ASSUME NEW i \in 0..n PROVE h[i] \in Nat \ {0}
  <2>1. CASE i = n
    <3>1. g[n - 1] \in Nat \ {0}
      BY <1>6, <1>7
    <3> QED
      BY <1>7, <2>1, <3>1
  <2>2. CASE i # n
    BY <1>4, <1>6, <2>2
  <2> QED
    BY <2>1, <2>2
<1>10. h[0] = 1
  BY <1>4, <1>5, <1>6 DEF Doubles
<1>11. ASSUME NEW i \in 1..n PROVE h[i] = 2 * h[i - 1]
  <2>1. i - 1 \in 0..n - 1 /\ h[i - 1] = g[i - 1]
    BY <1>4, <1>6
  <2>2. CASE i = n
    BY <1>7, <2>1, <2>2
  <2>3. CASE i # n
    <3>1. i \in 1..n - 1 /\ i \in 0..n - 1
      BY <1>4, <2>3
    <3> QED
      BY <1>5, <1>6, <2>1, <3>1 DEF Doubles
  <2> QED
    BY <2>2, <2>3
<1>12. Doubles(h, n)
  BY <1>8, <1>9, <1>10, <1>11 DEF Doubles
<1> QED
  BY <1>2, <1>12

LEMMA DoublesAgree ==
    ASSUME NEW n \in Nat, NEW m \in Nat, NEW g, NEW h, Doubles(g, n), Doubles(h, m)
    PROVE  \A i \in Nat : i <= n /\ i <= m => g[i] = h[i]
<1> DEFINE T == {i \in Nat : i <= n /\ i <= m /\ g[i] # h[i]}
<1>1. SUFFICES ASSUME T # {} PROVE FALSE
  OBVIOUS
<1>2. PICK i \in T : \A k \in T : i <= k
  BY <1>1, Least
<1>3. i # 0
  BY <1>2 DEF Doubles
<1>4. i - 1 \in Nat /\ i \in 1..n /\ i \in 1..m /\ i - 1 \notin T
  BY <1>2, <1>3
<1>5. g[i - 1] = h[i - 1]
  BY <1>4
<1> QED
  BY <1>2, <1>4, <1>5 DEF Doubles

(* Two is what its definition says, which is not known of a recursive      *)
(* function before there is one.                                           *)
LEMMA TwoDefined == Two = [n \in Nat |-> IF n = 0 THEN 1 ELSE 2 * Two[n - 1]]
<1> DEFINE G(n) == CHOOSE g : Doubles(g, n)
           F == [n \in Nat |-> G(n)[n]]
<1>1. ASSUME NEW n \in Nat PROVE Doubles(G(n), n)
  BY DoublesExist
<1>2. ASSUME NEW n \in Nat PROVE F[n] = IF n = 0 THEN 1 ELSE 2 * F[n - 1]
  <2> HIDE DEF G
  <2>1. CASE n = 0
    BY <1>1, <2>1 DEF Doubles
  <2>2. CASE n # 0
    <3>1. n - 1 \in Nat /\ n \in 1..n
      BY <2>2
    <3>2. G(n)[n] = 2 * G(n)[n - 1]
      BY <1>1, <3>1 DEF Doubles
    <3>3. G(n)[n - 1] = G(n - 1)[n - 1]
      BY <1>1, <3>1, DoublesAgree
    <3> QED
      BY <2>2, <3>1, <3>2, <3>3
  <2> QED
    BY <2>1, <2>2
<1> DEFINE Is(f) == f = [n \in Nat |-> IF n = 0 THEN 1 ELSE 2 * f[n - 1]]
<1>3. F = [n \in Nat |-> F[n]]
  OBVIOUS
<1> HIDE DEF F
<1>4. Is(F)
  BY <1>2, <1>3
<1>5. Two = CHOOSE f : Is(f)
  BY DEF Two
<1> HIDE DEF Is
<1>6. Is(Two)
  BY <1>4, <1>5
<1> QED
  BY <1>6 DEF Is

LEMMA TwoPositive == \A n \in Nat : Two[n] \in Nat \ {0}
<1> DEFINE T == {n \in Nat : Two[n] \notin Nat \ {0}}
<1>1. SUFFICES ASSUME T # {} PROVE FALSE
  OBVIOUS
<1>2. PICK n \in T : \A k \in T : n <= k
  BY <1>1, Least
<1>3. Two[n] = IF n = 0 THEN 1 ELSE 2 * Two[n - 1]
  BY TwoDefined
<1>4. CASE n = 0
  BY <1>2, <1>3, <1>4
<1>5. CASE n # 0
  <2>1. n - 1 \in Nat /\ n - 1 \notin T
    BY <1>2, <1>5
  <2>2. Two[n - 1] \in Nat \ {0}
    BY <2>1
  <2> QED
    BY <1>2, <1>3, <1>5, <2>2
<1> QED
  BY <1>4, <1>5

-----------------------------------------------------------------------------
(* Division                                                                *)

LEMMA DivMod ==
    ASSUME NEW a \in Int, NEW d \in Nat \ {0}
    PROVE  \E q \in Int, r \in 0..d - 1 : q = a \div d /\ r = a % d /\ a = d * q + r
<1>1. a \div d \in Int /\ a % d \in 0..d - 1
  OBVIOUS
<1>2. PICK q \in Int, r \in 0..d - 1 : q = a \div d /\ r = a % d
  BY <1>1
<1>3. a = d * q + r
  BY <1>2
<1> QED
  BY <1>2, <1>3

LEMMA DivModUnique ==
    ASSUME NEW a \in Int, NEW d \in Nat \ {0}, NEW q \in Int, NEW r \in 0..d - 1,
           a = d * q + r
    PROVE  a \div d = q /\ a % d = r
OBVIOUS

(* Dividing by n times s is dividing by s and then by n.                   *)
LEMMA DivTwice ==
    ASSUME NEW c \in Int, NEW n \in Nat \ {0}, NEW s \in Nat \ {0}
    PROVE  \E t \in Int, o \in 0..n - 1 :
              /\ t = c \div (n * s) /\ o = (c % (n * s)) \div s
              /\ c \div s = n * t + o
<1>0. PICK d \in Nat \ {0} : d = n * s
  OBVIOUS
<1>1. PICK t \in Int, r \in 0..d - 1 : t = c \div d /\ r = c % d /\ c = d * t + r
  BY DivMod
<1>2. r \in Int
  OBVIOUS
<1>3. PICK o \in Int, e \in 0..s - 1 : o = r \div s /\ r = s * o + e
  BY <1>2, DivMod
<1>4. o >= 0
  <2>1. CASE o <= -1
    <3>1. s * o <= -s
      BY <2>1
    <3> QED
      BY <1>3, <3>1
  <2> QED
    BY <2>1
<1>5. o < n
  <2>1. CASE o >= n
    <3>1. s * o >= d
      BY <1>0, <2>1
    <3> QED
      BY <1>1, <1>3, <3>1
  <2> QED
    BY <2>1
<1>6. PICK a \in Int : a = n * t
  OBVIOUS
<1>7. d * t = s * a
  BY <1>0, <1>6
<1>8. s * (a + o) = s * a + s * o
  OBVIOUS
<1>9. s * a \in Int /\ s * o \in Int
  OBVIOUS
<1>10. c = s * (a + o) + e
  BY <1>1, <1>3, <1>7, <1>8, <1>9
<1>11. a + o \in Int
  OBVIOUS
<1>12. c \div s = a + o
  BY <1>10, <1>11, DivModUnique
<1>13. o \in 0..n - 1
  BY <1>4, <1>5
<1> QED
  BY <1>0, <1>1, <1>3, <1>6, <1>12, <1>13

LEMMA Multiples ==
    ASSUME NEW a \in Int, NEW n \in Nat \ {0}, NEW k \in Int
    PROVE  k = a \div n <=> k * n <= a /\ a < (k + 1) * n
<1>1. PICK q \in Int, r \in 0..n - 1 : q = a \div n /\ a = n * q + r
  BY DivMod
<1>2. PICK p \in Int : p = n * k
  OBVIOUS
<1>3. k * n = p /\ (k + 1) * n = p + n
  BY <1>2
<1>4. ASSUME k = a \div n PROVE k * n <= a /\ a < (k + 1) * n
  <2>1. k = q
    BY <1>1, <1>4
  <2>2. a = p + r
    BY <1>1, <1>2, <2>1
  <2> QED
    BY <1>3, <2>2
<1>5. ASSUME k * n <= a, a < (k + 1) * n PROVE k = a \div n
  <2>1. PICK e \in 0..n - 1 : a = n * k + e
    <3>1. a - p \in 0..n - 1 /\ a = p + (a - p)
      BY <1>3, <1>5
    <3> QED
      BY <1>2, <3>1
  <2> QED
    BY <2>1, DivModUnique
<1> QED
  BY <1>4, <1>5

LEMMA MultiplesOn ==
    ASSUME NEW c \in Int, NEW d \in Nat \ {0}, NEW k \in Int
    PROVE  (c + k * d) \div d = c \div d + k
<1>1. PICK t \in Int, r \in 0..d - 1 : t = c \div d /\ r = c % d /\ c = d * t + r
  BY DivMod
<1>2. d * (t + k) = d * t + k * d
  OBVIOUS
<1>3. PICK a \in Int, b \in Int : a = d * t /\ b = k * d
  OBVIOUS
<1>4. c + k * d = d * (t + k) + r
  BY <1>1, <1>2, <1>3
<1>5. PICK e \in Int, f \in Int : e = c + k * d /\ f = t + k
  BY <1>3
<1>6. e \div d = f
  BY <1>4, <1>5, DivModUnique
<1> QED
  BY <1>1, <1>5, <1>6

-----------------------------------------------------------------------------
(* The canvas                                                              *)

LEMMA Units == /\ Sub \in Nat \ {0} /\ Tile \in Nat \ {0} /\ TilePx \in Nat \ {0}
               /\ Tile = TilePx * Sub
<1>1. Sub \in Nat \ {0} /\ TilePx \in Nat \ {0}
  BY TwoPositive, TilesAssumption DEF Sub
<1>2. TilePx * Sub \in Nat \ {0}
  BY <1>1
<1> QED
  BY <1>1, <1>2 DEF Tile

(* What Clipped writes of a source of n pixels at dest: the pixels that    *)
(* are both on the line and on the source, each from where it lies.        *)
LEMMA ClippedRight ==
    ASSUME NEW dest \in Int, NEW n \in Nat \ {0}, NEW size \in Nat \ {0},
           NEW i \in 0..size - 1
    PROVE  /\ i \in DOMAIN Clipped(dest, n, size) <=> dest <= i /\ i < dest + n
           /\ i \in DOMAIN Clipped(dest, n, size) =>
                 Clipped(dest, n, size)[i] = i - dest
<1> DEFINE off   == IF dest < 0 THEN -dest ELSE 0
           first == IF dest < 0 THEN 0 ELSE dest
           left  == n - off
           count == IF first + left >= size THEN size - first ELSE left
<1>1. Clipped(dest, n, size) = [j \in first..first + count - 1 |-> j - first + off]
  BY DEF Clipped
<1>2. /\ i \in first..first + count - 1 <=> dest <= i /\ i < dest + n
      /\ i - first + off = i - dest
  OBVIOUS
<1> HIDE DEF off, first, left, count
<1> QED
  BY <1>1, <1>2

LEMMA OriginType ==
    ASSUME NEW c \in Int, NEW size \in Nat
    PROVE  \E t \in Int, o \in 0..TilePx - 1, h \in Nat :
              /\ t = c \div Tile /\ h = size \div 2 /\ c \div Sub = TilePx * t + o
              /\ MainTileOrigin(c, size) = h - o
              /\ 2 * h <= size /\ size <= 2 * h + 1
<1>1. PICK t \in Int, o \in 0..TilePx - 1 :
         t = c \div Tile /\ o = (c % Tile) \div Sub /\ c \div Sub = TilePx * t + o
  BY Units, DivTwice DEF Tile
<1>2. PICK h \in Nat : h = size \div 2 /\ 2 * h <= size /\ size <= 2 * h + 1
  OBVIOUS
<1> QED
  BY <1>1, <1>2 DEF MainTileOrigin

(* The tile that covers pixel i of a line is one that is shown.            *)
LEMMA CoverShown ==
    ASSUME NEW size \in Nat \ {0}, NEW i \in 0..size - 1, NEW h \in Nat,
           2 * h <= size, NEW n \in Nat \ {0}, NEW o \in 0..n - 1,
           NEW k \in Int, k * n <= i - (h - o), i - (h - o) < (k + 1) * n
    PROVE  /\ k \in -size..size
           /\ (h - o) + (k + 1) * n > 0 /\ (h - o) + k * n < size
<1>1. PICK p \in Int : p = k * n
  OBVIOUS
<1>2. (k + 1) * n = p + n
  BY <1>1
<1>3. (h - o) + (k + 1) * n > 0 /\ (h - o) + k * n < size
  BY <1>1, <1>2
<1>4. PICK s \in Nat : s = size * n /\ s >= size
  OBVIOUS
<1>5. k >= -size
  <2>1. CASE k + 1 <= -size
    <3>1. (k + 1) * n <= -s
      BY <1>4, <2>1
    <3> QED
      BY <1>1, <1>2, <1>4, <3>1
  <2> QED
    BY <2>1
<1>6. k <= size
  <2>1. CASE k >= size + 1
    <3>1. k * n >= s + n
      BY <1>4, <2>1
    <3> QED
      BY <1>1, <1>2, <1>4, <3>1
  <2> QED
    BY <2>1
<1> QED
  BY <1>3, <1>5, <1>6

(* Every pixel of a line shows the pixel it stands for, of the tile it     *)
(* stands for.                                                             *)
LEMMA LineRight ==
    ASSUME NEW c \in Int, NEW size \in Nat \ {0}, NEW i \in 0..size - 1,
           NEW px, px = c \div Sub - size \div 2 + i
    PROVE  Line(c, size)[i] = <<px \div TilePx - c \div Tile, px % TilePx>>
<1>0. TilePx \in Nat \ {0} /\ size \in Nat
  BY Units
<1>1. PICK t \in Int, o \in 0..TilePx - 1, h \in Nat :
         /\ t = c \div Tile /\ h = size \div 2 /\ c \div Sub = TilePx * t + o
         /\ MainTileOrigin(c, size) = h - o
         /\ 2 * h <= size /\ size <= 2 * h + 1
  BY <1>0, OriginType
<1> DEFINE origin == MainTileOrigin(c, size)
           strip  == [k \in Shown(origin, size) |->
                         Clipped(origin + k * TilePx, TilePx, size)]
           on     == {k \in DOMAIN strip : i \in DOMAIN strip[k]}
<1>2. origin = h - o /\ h - o \in Int /\ i - (h - o) \in Int
  BY <1>0, <1>1
<1>3. PICK k \in Int, m \in 0..TilePx - 1 :
         k = (i - (h - o)) \div TilePx /\ i - (h - o) = TilePx * k + m
  BY <1>0, <1>2, DivMod
<1>4. \A j \in Int : j = k <=> j * TilePx <= i - (h - o) /\ i - (h - o) < (j + 1) * TilePx
  BY <1>0, <1>2, <1>3, Multiples
<1>5. \A j \in Int : j * TilePx \in Int /\ (j + 1) * TilePx = j * TilePx + TilePx
  BY <1>0
<1>6. Line(c, size)[i] = IF on = {} THEN <<>>
                         ELSE LET j == CHOOSE l \in on : \A e \in on : e <= l
                              IN  <<j, strip[j][i]>>
  BY DEF Line
<1> HIDE DEF origin
<1>7. k \in Shown(origin, size)
  <2>1. /\ k \in -size..size
        /\ (h - o) + (k + 1) * TilePx > 0 /\ (h - o) + k * TilePx < size
    BY <1>0, <1>1, <1>4, CoverShown
  <2> QED
    BY <1>2, <2>1 DEF Shown
<1>8. ASSUME NEW j \in Shown(origin, size)
      PROVE  /\ strip[j] = Clipped(origin + j * TilePx, TilePx, size)
             /\ i \in DOMAIN strip[j] <=> j = k
             /\ i \in DOMAIN strip[j] => strip[j][i] = i - (origin + j * TilePx)
  <2>1. j \in Int
    BY DEF Shown
  <2>2. PICK a \in Int, b \in Int : a = j * TilePx /\ b = origin + a
    BY <1>2, <1>5, <2>1
  <2>3. strip[j] = Clipped(b, TilePx, size)
    BY <2>2
  <2>4. /\ i \in DOMAIN Clipped(b, TilePx, size) <=> b <= i /\ i < b + TilePx
        /\ i \in DOMAIN Clipped(b, TilePx, size) => Clipped(b, TilePx, size)[i] = i - b
    BY <1>0, ClippedRight
  <2>5. j = k <=> a <= i - (h - o) /\ i - (h - o) < a + TilePx
    BY <1>4, <1>5, <2>1, <2>2
  <2>6. i \in DOMAIN Clipped(b, TilePx, size) <=> j = k
    BY <1>0, <1>2, <2>2, <2>4, <2>5
  <2> HIDE DEF strip
  <2> QED
    BY <2>2, <2>3, <2>4, <2>6
<1>9. strip[k][i] = m
  <2>1. strip[k][i] = i - (origin + k * TilePx)
    BY <1>7, <1>8
  <2>2. PICK a \in Int : a = k * TilePx /\ a = TilePx * k
    BY <1>0
  <2> HIDE DEF strip
  <2> QED
    BY <1>2, <1>3, <2>1, <2>2
<1>10. on = {k}
  BY <1>7, <1>8
<1> HIDE DEF on, strip
<1>11. (CHOOSE l \in on : \A e \in on : e <= l) = k
  BY <1>10
<1>12. Line(c, size)[i] = <<k, m>>
  BY <1>6, <1>9, <1>10, <1>11
<1>13. PICK a \in Int, b \in Int : a = TilePx * t /\ b = TilePx * k
  BY <1>0
<1>14. TilePx * (t + k) = a + b /\ t + k \in Int
  BY <1>0, <1>13
<1>15. px = (a + o) - h + i /\ px \in Int
  BY <1>1, <1>13
<1>16. px = TilePx * (t + k) + m
  BY <1>3, <1>13, <1>14, <1>15
<1>17. PICK q \in Int : q = t + k
  BY <1>14
<1>18. px \div TilePx = q /\ px % TilePx = m
  <2>1. PICK n \in Nat \ {0}, x \in Int : n = TilePx /\ x = px
    BY <1>0, <1>15
  <2>2. x = n * q + m /\ m \in 0..n - 1
    BY <1>16, <1>17, <2>1
  <2>3. x \div n = q /\ x % n = m
    BY <2>2, DivModUnique
  <2> QED
    BY <2>1, <2>3
<1> QED
  BY <1>1, <1>12, <1>17, <1>18

-----------------------------------------------------------------------------
(* Where the centre is, and what is asked for around it                    *)

(* The zoom, the centre and the centre at the start of a drag are numbers. *)
Placed ==
    /\ zoom \in Nat /\ centre \in Int \X Int
    /\ DragMeasured /\ drag.from \in Int \X Int

LEMMA SpanPositive == ASSUME NEW z \in Nat PROVE Span(z) \in Nat \ {0}
<1>1. Two[z] \in Nat \ {0} /\ Tile \in Nat \ {0}
  BY TwoPositive, Units
<1>2. PICK a \in Nat \ {0}, b \in Nat \ {0} : a = Two[z] /\ b = Tile
  BY <1>1
<1> QED
  BY <1>2 DEF Span

(* The centre a flight loop paints around is on the map.                   *)
LEMMA CentreOnMap ==
    ASSUME Placed, NEW p \in Planes
    PROVE  \E a \in 0..Span(zoom), b \in Int :
              Normalised(CentreOn(p)) = <<a, b>>
<1>1. Span(zoom) \in Nat \ {0}
  BY SpanPositive DEF Placed
<1>2. CentreOn(p)[1] \in Int /\ CentreOn(p)[2] \in Int
  <2>1. CASE follow
    <3>1. p.y \in Int /\ p.x \in Int /\ p.ahead[1] \in Int /\ p.ahead[2] \in Int
      BY Units, ViewAssumption
    <3>2. Two[zoom] \in Int /\ Sub \in Int
      BY Units, TwoPositive DEF Placed
    <3>3. /\ PlaneTYX(p)[1] = p.y * Two[zoom] /\ PlaneTYX(p)[2] = p.x * Two[zoom]
      BY DEF PlaneTYX
    <3>4. /\ CentreOn(p)[1] = PlaneTYX(p)[1] - p.ahead[1] * Sub
          /\ CentreOn(p)[2] = PlaneTYX(p)[2] + p.ahead[2] * Sub
      BY <2>1 DEF CentreOn
    <3> QED
      BY <3>1, <3>2, <3>3, <3>4
  <2>2. CASE ~follow
    BY <2>2 DEF CentreOn, Placed
  <2> QED
    BY <2>1, <2>2
<1> DEFINE c == CentreOn(p)
           a == IF c[1] < 0 THEN 0 ELSE IF c[1] > Span(zoom) THEN Span(zoom) ELSE c[1]
           b == c[2] % Span(zoom)
<1>3. a \in 0..Span(zoom) /\ b \in Int
  <2> HIDE DEF c
  <2> QED
    BY <1>1, <1>2 DEF c
<1>4. Normalised(c) = <<a, b>>
  BY DEF Normalised, NormaliseTileYX
<1> QED
  BY <1>3, <1>4

LEMMA NextPlaced == Placed /\ [Next]_vars => Placed'
<1> SUFFICES ASSUME Placed, [Next]_vars PROVE Placed'
  OBVIOUS
<1>1. DragMeasured'
  BY NextDragMeasured DEF Placed
<1>2. zoom' \in Nat
  <2>1. ASSUME NEW z, SetZoom(z) PROVE zoom' \in Nat
    BY <2>1, TilesAssumption DEF SetZoom, Placed
  <2>2. ASSUME NEW d, ToolZoom(d) PROVE zoom' \in Nat
    BY <2>1, <2>2 DEF ToolZoom
  <2>3. FlightLoops \/ AppSelect \/ Gesture \/ Download \/ UNCHANGED vars => zoom' = zoom
    BY DEF FlightLoops, FlightLoop, GetTiles, AppSelect, Gesture, ToolCentre, MouseDown,
           MouseMove, MouseUp, Download, Downloaded, vars, provider
  <2>4. ASSUME NEW tick \in BOOLEAN, OtherFlightLoop(tick) PROVE zoom' = zoom
    BY <2>4 DEF OtherFlightLoop
  <2> QED
    BY <2>2, <2>3, <2>4 DEF Next, Gesture, Placed
<1>3. ASSUME UNCHANGED <<centre, drag>> PROVE Placed'
  BY <1>1, <1>2, <1>3 DEF Placed
<1>4. ASSUME NEW p \in Planes, NEW tick \in BOOLEAN, FlightLoop(p, tick) PROVE Placed'
  <2>1. centre' = Normalised(CentreOn(p)) /\ drag' = drag
    BY <1>4 DEF FlightLoop
  <2>2. centre' \in Int \X Int
    <3>1. PICK a \in 0..Span(zoom), b \in Int : Normalised(CentreOn(p)) = <<a, b>>
      BY CentreOnMap
    <3>2. a \in Int
      BY SpanPositive DEF Placed
    <3> QED
      BY <2>1, <3>1, <3>2
  <2> QED
    BY <1>1, <1>2, <2>1, <2>2 DEF Placed
<1>5. ASSUME NEW tick \in BOOLEAN, OtherFlightLoop(tick) PROVE Placed'
  BY <1>3, <1>5 DEF OtherFlightLoop, app
<1>6. ASSUME NEW d, ToolZoom(d) PROVE Placed'
  <2>1. drag' = drag
    BY <1>6 DEF ToolZoom
  <2>2. CASE centre' = centre
    BY <1>3, <2>1, <2>2
  <2>3. CASE centre' = CentreAfter(zoom)
    <3>1. Two[zoom] \in Nat \ {0} /\ Two[zoom'] \in Nat \ {0}
      BY <1>2, TwoPositive DEF Placed
    <3>2. PICK a \in Nat \ {0}, b \in Nat \ {0} : a = Two[zoom] /\ b = Two[zoom']
      BY <3>1
    <3>3. centre' = <<(centre[1] * b) \div a, (centre[2] * b) \div a>>
      BY <2>3, <3>2 DEF CentreAfter, Reproject
    <3>4. centre[1] * b \in Int /\ centre[2] * b \in Int
      BY <3>2 DEF Placed
    <3>5. centre' \in Int \X Int
      BY <3>3, <3>4
    <3> QED
      BY <1>1, <1>2, <2>1, <3>5 DEF Placed
  <2> QED
    BY <1>6, <2>2, <2>3 DEF ToolZoom
<1>7. CASE MouseDown
  BY <1>1, <1>2, <1>7 DEF MouseDown, Placed
<1>8. ASSUME NEW d \in Moves, MouseMove(d) PROVE Placed'
  <2>1. drag'.from = drag.from
    BY <1>8 DEF MouseMove, Placed, DragMeasured
  <2>2. d[1] \in Int /\ d[2] \in Int /\ Sub \in Int
    BY Units, ViewAssumption
  <2>3. centre' = <<drag.from[1] - d[1] * Sub, drag.from[2] - d[2] * Sub>>
    BY <1>8 DEF MouseMove
  <2>4. centre' \in Int \X Int
    <3>1. d[1] * Sub \in Int /\ d[2] * Sub \in Int
      BY <2>2
    <3> QED
      BY <2>3, <3>1 DEF Placed
  <2> QED
    BY <1>1, <1>2, <2>1, <2>4 DEF Placed
<1>9. CASE MouseUp
  <2>1. drag'.from = drag.from
    BY <1>9 DEF MouseUp, Placed, DragMeasured
  <2>2. centre' \in {centre, drag.from}
    BY <1>9 DEF MouseUp
  <2> QED
    BY <1>1, <1>2, <2>1, <2>2 DEF Placed
<1>10. CASE ToolCentre \/ AppSelect \/ Download \/ UNCHANGED vars
  BY <1>3, <1>10 DEF ToolCentre, AppSelect, Download, vars, app
<1> QED
  BY <1>4, <1>5, <1>6, <1>7, <1>8, <1>9, <1>10 DEF Next, FlightLoops

LEMMA InitPlaced == Init => Placed
BY TilesAssumption DEF Init, ProviderInit, NoDrag, DragMeasured, Placed

(* As many rows beyond the edge as a canvas around a centre on the edge    *)
(* reaches.                                                                *)
LEMMA OffsetBounds ==
    ASSUME NEW n \in Nat \ {0}, NEW size \in Nat, NEW h \in Nat, 2 * h <= size,
           NEW o \in 0..n - 1, NEW d \in Int,
           (h - o) + (d + 1) * n > 0, (h - o) + d * n < size,
           NEW reach \in Int, reach = (size + n) \div n
    PROVE  /\ reach \in Nat \ {0} /\ -reach <= d /\ d <= reach
           /\ o = 0 => d <= reach - 1
<1>1. reach * n <= size + n /\ size + n < (reach + 1) * n
  BY Multiples
<1>2. PICK p \in Int : p = reach * n /\ p + n = (reach + 1) * n
  OBVIOUS
<1>3. PICK e \in Int : e = d * n /\ e + n = (d + 1) * n
  OBVIOUS
<1>4. p >= size + 1
  BY <1>1, <1>2
<1>5. reach >= 1
  <2>1. CASE reach <= 0
    <3>1. p <= 0
      BY <1>2, <2>1
    <3> QED
      BY <1>4, <3>1
  <2> QED
    BY <2>1
<1>6. -reach <= d
  <2>1. CASE d + 1 <= -reach
    <3>1. (d + 1) * n <= -p
      BY <1>2, <2>1
    <3> QED
      BY <1>3, <1>4, <3>1
  <2> QED
    BY <2>1
<1>7. d <= reach
  <2>1. CASE d >= reach + 1
    <3>1. e >= p + n
      BY <1>2, <1>3, <2>1
    <3> QED
      BY <1>3, <1>4, <3>1
  <2> QED
    BY <2>1
<1>8. ASSUME o = 0 PROVE d <= reach - 1
  <2>1. CASE d >= reach
    <3>1. e >= p
      BY <1>2, <1>3, <2>1
    <3> QED
      BY <1>3, <1>4, <1>8, <3>1
  <2> QED
    BY <2>1
<1> QED
  BY <1>5, <1>6, <1>7, <1>8

LEMMA RowsNear ==
    ASSUME zoom \in Nat, NEW c \in Int, 0 <= c, c <= Span(zoom),
           NEW d \in Offsets(c, Height)
    PROVE  /\ TileRow(c + d * Tile) \in -Reach..Two[zoom] - 1 + Reach
           /\ TileRow(c) \in -Reach..Two[zoom] - 1 + Reach
<1>1. /\ Height \in Nat /\ TilePx \in Nat \ {0} /\ Tile \in Nat \ {0} /\ Sub \in Nat \ {0}
      /\ Two[zoom] \in Nat \ {0} /\ Span(zoom) \in Nat
  BY ViewAssumption, Units, TwoPositive, SpanPositive
<1>2. d \in Int
  BY <1>1 DEF Offsets, Shown
<1>3. PICK t \in Int, o \in 0..TilePx - 1, h \in Nat :
         /\ t = c \div Tile /\ h = Height \div 2
         /\ c \div Sub = TilePx * t + o
         /\ MainTileOrigin(c, Height) = h - o
         /\ 2 * h <= Height /\ Height <= 2 * h + 1
  <2>1. Height \in Nat
    BY <1>1
  <2> QED
    BY <2>1, OriginType
<1>4. (h - o) + (d + 1) * TilePx > 0 /\ (h - o) + d * TilePx < Height
  BY <1>3 DEF Offsets, Shown
<1>5. Reach \in Int /\ Reach = (Height + TilePx) \div TilePx
  BY <1>1 DEF Reach
<1>6. /\ Reach \in Nat \ {0} /\ -Reach <= d /\ d <= Reach
      /\ o = 0 => d <= Reach - 1
  BY <1>1, <1>2, <1>3, <1>4, <1>5, OffsetBounds
<1>7. t >= 0 /\ t <= Two[zoom] /\ (t = Two[zoom] => o = 0)
  <2>1. PICK k \in Nat \ {0}, u \in Nat \ {0} : k = Two[zoom] /\ u = Tile
    BY <1>1
  <2>2. PICK r \in 0..u - 1 : c = u * t + r
    <3>1. PICK q \in Int, r \in 0..u - 1 : q = c \div u /\ c = u * q + r
      BY <1>2, DivMod
    <3> QED
      BY <1>3, <2>1, <3>1
  <2>3. c >= 0 /\ c <= u * k
    BY <1>1, <2>1 DEF Span
  <2>4. PICK a \in Int, b \in Int : a = u * t /\ b = u * k
    OBVIOUS
  <2>5. t >= 0
    <3>1. CASE t <= -1
      <4>1. a <= -u
        BY <2>4, <3>1
      <4> QED
        BY <2>2, <2>3, <2>4, <4>1
    <3> QED
      BY <3>1
  <2>6. t <= k
    <3>1. CASE t >= k + 1
      <4>1. a >= b + u
        BY <2>4, <3>1
      <4> QED
        BY <2>2, <2>3, <2>4, <4>1
    <3> QED
      BY <3>1
  <2>7. ASSUME t = k PROVE o = 0
    <3>1. r = 0
      BY <2>2, <2>3, <2>4, <2>7
    <3>2. PICK e \in Int, n \in Int, m \in Nat \ {0} :
             m = Sub /\ n = TilePx /\ e = n * t /\ u = n * m
      BY <1>1, <2>1, Units
    <3>3. c = m * e + 0 /\ 0 \in 0..m - 1
      BY <2>2, <3>1, <3>2
    <3>4. c \div m = e
      BY <1>2, <3>3, DivModUnique
    <3> QED
      BY <1>3, <3>2, <3>4
  <2> QED
    BY <2>1, <2>5, <2>6, <2>7
<1>8. TileRow(c) = t /\ TileRow(c + d * Tile) = t + d
  BY <1>1, <1>2, <1>3, MultiplesOn DEF TileRow
<1>9. t \in -Reach..Two[zoom] - 1 + Reach /\ t + d \in -Reach..Two[zoom] - 1 + Reach
  BY <1>1, <1>2, <1>6, <1>7
<1> QED
  BY <1>8, <1>9

(* What a flight loop asks for is on the map, but for the rows that the    *)
(* canvas reaches beyond its edge.                                         *)
LEMMA AskedNear ==
    ASSUME zoom \in Nat, NEW a \in 0..Span(zoom), NEW b \in Int,
           NEW t \in DOMAIN Times(<<a, b>>)
    PROVE  t[2] \in 0..Two[zoom] - 1 /\ t[1] \in -Reach..Two[zoom] - 1 + Reach
<1>1. Span(zoom) \in Nat /\ Height \in Nat \ {0} /\ TilePx \in Nat \ {0}
  BY SpanPositive, ViewAssumption, TilesAssumption
<1>2. a \in Int /\ 0 <= a /\ a <= Span(zoom)
  BY <1>1
<1>3. ASSUME NEW x \in Int PROVE TileCol(x) \in 0..Two[zoom] - 1
  <2>1. PICK k \in Nat \ {0}, u \in Nat \ {0} : k = Two[zoom] /\ u = Tile
    BY TwoPositive, Units
  <2>2. x \div u \in Int
    OBVIOUS
  <2>3. (x \div u) % k \in 0..k - 1
    BY <2>2
  <2> QED
    BY <2>1, <2>3 DEF TileCol
<1>4. ASSUME NEW d \in Offsets(a, Height)
      PROVE  /\ TileRow(a + d * Tile) \in -Reach..Two[zoom] - 1 + Reach
             /\ TileRow(a) \in -Reach..Two[zoom] - 1 + Reach
  BY <1>2, <1>4, RowsNear
<1>5. ASSUME NEW d \in Offsets(b, Width) PROVE TileCol(b + d * Tile) \in 0..Two[zoom] - 1
  <2>1. b + d * Tile \in Int
    <3>1. d \in Int /\ Tile \in Int
      BY Units, ViewAssumption DEF Offsets, Shown
    <3>2. d * Tile \in Int
      BY <3>1
    <3> QED
      BY <3>2
  <2> QED
    BY <1>3, <2>1
<1>6. Offsets(a, Height) # {}
  <2>1. PICK s \in Int, o \in 0..TilePx - 1, h \in Nat :
           /\ s = a \div Tile /\ h = Height \div 2 /\ a \div Sub = TilePx * s + o
           /\ MainTileOrigin(a, Height) = h - o
           /\ 2 * h <= Height /\ Height <= 2 * h + 1
    <3>1. Height \in Nat /\ a \in Int
      BY <1>1, <1>2
    <3> QED
      BY <3>1, OriginType
  <2>2. 0 \in -Height..Height
    BY <1>1
  <2>3. (h - o) + (0 + 1) * TilePx > 0 /\ (h - o) + 0 * TilePx < Height
    BY <1>1, <2>1
  <2>4. 0 \in Offsets(a, Height)
    BY <2>1, <2>2, <2>3 DEF Offsets, Shown
  <2> QED
    BY <2>4
<1>7. CASE t = <<TileRow(a), TileCol(b)>>
  BY <1>3, <1>4, <1>6, <1>7
<1>8. ASSUME NEW dy \in Offsets(a, Height), NEW dx \in Offsets(b, Width),
             t = <<TileRow(a + dy * Tile), TileCol(b + dx * Tile)>>
      PROVE  t[2] \in 0..Two[zoom] - 1 /\ t[1] \in -Reach..Two[zoom] - 1 + Reach
  BY <1>4, <1>5, <1>8
<1>9. \/ t = <<TileRow(a), TileCol(b)>>
      \/ \E dy \in Offsets(a, Height), dx \in Offsets(b, Width) :
            t = <<TileRow(a + dy * Tile), TileCol(b + dx * Tile)>>
  <2> DEFINE c    == <<a, b>>
             at   == [dy \in Offsets(c[1], Height) |-> TileRow(c[1] + dy * Tile)]
             left == [dx \in Offsets(c[2], Width) |-> TileCol(c[2] + dx * Tile)]
             mid  == <<TileRow(c[1]), TileCol(c[2])>>
  <2>1. t \in {<<at[dy], left[dx]>> : dy \in DOMAIN at, dx \in DOMAIN left} \cup {mid}
    BY DEF Times
  <2>2. c[1] = a /\ c[2] = b
    OBVIOUS
  <2> QED
    BY <2>1, <2>2
<1> QED
  BY <1>7, <1>8, <1>9

LEMMA NextRequests == Placed /\ RequestsNearMap /\ [Next]_vars => RequestsNearMap'
<1> SUFFICES ASSUME Placed, RequestsNearMap, [Next]_vars PROVE RequestsNearMap'
  OBVIOUS
<1>1. ASSUME DOMAIN docs' = DOMAIN docs PROVE RequestsNearMap'
  BY <1>1 DEF RequestsNearMap
<1>2. ASSUME NEW p \in Planes, NEW tick \in BOOLEAN, FlightLoop(p, tick)
      PROVE  RequestsNearMap'
  <2>1. PICK a \in 0..Span(zoom), b \in Int : Normalised(CentreOn(p)) = <<a, b>>
    BY CentreOnMap
  <2> DEFINE times == Times(<<a, b>>)
             kept  == AfterTick(tick)
  <2>2. PICK host : GetTiles(kept, times, host)
    BY <1>2, <2>1 DEF FlightLoop
  <2>3. \A t \in DOMAIN times :
           t[2] \in 0..Two[zoom] - 1 /\ t[1] \in -Reach..Two[zoom] - 1 + Reach
    BY AskedNear DEF Placed
  <2> HIDE DEF times, kept
  <2>4. DOMAIN docs' = DOMAIN docs \cup
           {<<host[t], zoom, t[1], t[2]>> :
               t \in {s \in DOMAIN times \ DOMAIN kept : DocOf(s, host[s]) = "none"}}
    BY <2>2 DEF GetTiles
  <2>5. ASSUME NEW u \in DOMAIN docs'
        PROVE  u[4] \in 0..Two[u[2]] - 1 /\ u[3] \in -Reach..Two[u[2]] - 1 + Reach
    <3>1. CASE u \in DOMAIN docs
      BY <3>1 DEF RequestsNearMap
    <3>2. CASE u \notin DOMAIN docs
      <4>1. PICK t \in DOMAIN times : u = <<host[t], zoom, t[1], t[2]>>
        BY <2>4, <3>2
      <4>2. u[2] = zoom /\ u[3] = t[1] /\ u[4] = t[2]
        BY <4>1
      <4> QED
        BY <2>3, <4>2
    <3> QED
      BY <3>1, <3>2
  <2> QED
    BY <2>5 DEF RequestsNearMap
<1>3. CASE Download
  BY <1>1, <1>3 DEF Download, Downloaded
<1>4. ASSUME NEW tick \in BOOLEAN, OtherFlightLoop(tick) PROVE RequestsNearMap'
  BY <1>1, <1>4 DEF OtherFlightLoop
<1>5. ASSUME NEW d, ToolZoom(d) PROVE RequestsNearMap'
  BY <1>1, <1>5 DEF ToolZoom, SetZoom
<1>6. CASE AppSelect \/ Gesture \/ UNCHANGED vars
  BY <1>1, <1>6 DEF AppSelect, Gesture, ToolCentre, MouseDown, MouseMove, MouseUp,
                    vars, provider
<1> QED
  BY <1>2, <1>3, <1>4, <1>5, <1>6 DEF Next, FlightLoops, Gesture

(* For any canvas, tiles, zooms and moves, what is asked for of a server   *)
(* is a tile of the map, or of the rows that the canvas shows beyond it    *)
(* (maptileprovider.cpp:155).                                              *)
THEOREM RequestsStayNear == Spec => []RequestsNearMap
<1>1. Init => RequestsNearMap
  BY DEF Init, ProviderInit, RequestsNearMap
<1> QED
  BY <1>1, InitPlaced, NextPlaced, NextRequests, PTL DEF Spec

-----------------------------------------------------------------------------
(* What a flight loop paints                                               *)

(* A frame is painted by a flight loop, or left, or wiped.                 *)
LEMMA FramePainted ==
    ASSUME Placed, [Next]_vars
    PROVE  \/ frame' = frame \/ frame' = Blank
           \/ \E p \in Planes, c \in Int \X Int :
                 /\ frame'.at = c
                 /\ frame'.rows = Line(c[1], Height) /\ frame'.cols = Line(c[2], Width)
                 /\ frame'.of = p.hdg /\ frame'.hdg = HeadingToSteppedDegrees(p.hdg)
                 /\ frame'.hdg \in store'
<1>1. ASSUME NEW p \in Planes, NEW tick \in BOOLEAN, FlightLoop(p, tick)
      PROVE  \E c \in Int \X Int :
                /\ frame'.at = c
                /\ frame'.rows = Line(c[1], Height) /\ frame'.cols = Line(c[2], Width)
                /\ frame'.of = p.hdg /\ frame'.hdg = HeadingToSteppedDegrees(p.hdg)
                /\ frame'.hdg \in store'
  <2>1. PICK a \in 0..Span(zoom), b \in Int : Normalised(CentreOn(p)) = <<a, b>>
    BY CentreOnMap
  <2>2. <<a, b>> \in Int \X Int
    BY SpanPositive DEF Placed
  <2> DEFINE c == Normalised(CentreOn(p))
  <2>3. /\ frame' = [at |-> c, zoom |-> zoom,
                     tiles |-> DOMAIN Times(c) \cap DOMAIN cache',
                     plane |-> PlaneTYX(p), icon |-> IconAt(PlaneTYX(p), c),
                     of |-> p.hdg, hdg |-> HeadingToSteppedDegrees(p.hdg),
                     rows |-> Line(c[1], Height), cols |-> Line(c[2], Width)]
        /\ store' = store \cup {HeadingToSteppedDegrees(p.hdg)}
    BY <1>1 DEF FlightLoop
  <2> HIDE DEF c
  <2>4. /\ frame'.at = c /\ frame'.of = p.hdg /\ frame'.hdg = HeadingToSteppedDegrees(p.hdg)
        /\ frame'.rows = Line(c[1], Height) /\ frame'.cols = Line(c[2], Width)
        /\ frame'.hdg \in store'
    BY <2>3
  <2> QED
    BY <2>1, <2>2, <2>4 DEF c
<1>2. ASSUME NEW tick \in BOOLEAN, OtherFlightLoop(tick) PROVE frame' = frame
  BY <1>2 DEF OtherFlightLoop
<1>3. ASSUME NEW d, ToolZoom(d) PROVE frame' = frame
  BY <1>3 DEF ToolZoom
<1>4. AppSelect => frame' = Blank
  BY DEF AppSelect
<1>5. Gesture \/ Download \/ UNCHANGED vars => frame' = frame
  BY DEF Gesture, ToolCentre, MouseDown, MouseMove, MouseUp, Download, vars
<1> QED
  BY <1>1, <1>2, <1>3, <1>4, <1>5 DEF Next, FlightLoops, Gesture

(* For any canvas, any size of the tiles and any centre, every pixel of    *)
(* the frame shows its place: the tiles around the centre meet without a   *)
(* gap or an overlap (mapapp.cpp:121-137, pixelbuffer.cpp:7).              *)
THEOREM CanvasShowsItsPlace == Spec => []CanvasRight
<1>1. Init => CanvasRight
  BY DEF Init, CanvasRight
<1>2. Placed /\ CanvasRight /\ [Next]_vars => CanvasRight'
  <2> SUFFICES ASSUME Placed, CanvasRight, [Next]_vars PROVE CanvasRight'
    OBVIOUS
  <2>1. CASE frame' = frame
    BY <2>1 DEF CanvasRight
  <2>2. CASE frame' = Blank
    BY <2>2 DEF CanvasRight
  <2>3. ASSUME NEW c \in Int \X Int, frame'.at = c,
               frame'.rows = Line(c[1], Height), frame'.cols = Line(c[2], Width)
        PROVE  CanvasRight'
    <3>1. Height \in Nat \ {0} /\ Width \in Nat \ {0} /\ c[1] \in Int /\ c[2] \in Int
      BY ViewAssumption
    <3>2. \A i \in 0..Height - 1 :
             LET px == c[1] \div Sub - Height \div 2 + i
             IN  frame'.rows[i] = <<px \div TilePx - c[1] \div Tile, px % TilePx>>
      BY <2>3, <3>1, LineRight
    <3>3. \A i \in 0..Width - 1 :
             LET px == c[2] \div Sub - Width \div 2 + i
             IN  frame'.cols[i] = <<px \div TilePx - c[2] \div Tile, px % TilePx>>
      BY <2>3, <3>1, LineRight
    <3> QED
      BY <2>3, <3>2, <3>3 DEF CanvasRight
  <2> QED
    BY <2>1, <2>2, <2>3, FramePainted
<1> QED
  BY <1>1, <1>2, InitPlaced, NextPlaced, PTL DEF Spec

(* The icon that is blended points to within three degrees of the heading  *)
(* of the plane that the frame was painted for, whichever of the 360 that  *)
(* is, and has been made (mapapp.cpp:175).                                 *)
THEOREM IconPointsWithPlane == Spec => []IconHeading
<1>1. Init => IconHeading
  BY DEF Init, IconHeading
<1>2. ASSUME NEW h \in 0..359 PROVE (HeadingToSteppedDegrees(h) - h + 3) % 360 \in 0..6
  BY DEF HeadingToSteppedDegrees
<1>3. Placed /\ IconHeading /\ [Next]_vars => IconHeading'
  <2> SUFFICES ASSUME Placed, IconHeading, [Next]_vars PROVE IconHeading'
    OBVIOUS
  <2>1. CASE frame' = frame
    <3>1. store \subseteq store'
      <4>1. FlightLoops => store \subseteq store'
        BY DEF FlightLoops, FlightLoop
      <4>2. ASSUME NEW tick \in BOOLEAN, OtherFlightLoop(tick) PROVE store' = store
        BY <4>2 DEF OtherFlightLoop
      <4>3. AppSelect \/ ToolZoom(1) \/ ToolZoom(-1) \/ Gesture \/ Download \/ UNCHANGED vars
               => store' = store
        BY DEF AppSelect, ToolZoom, Gesture, ToolCentre, MouseDown, MouseMove, MouseUp,
               Download, Event, vars
      <4> QED
        BY <4>1, <4>2, <4>3 DEF Next, Gesture
    <3> QED
      BY <2>1, <3>1 DEF IconHeading
  <2>2. CASE frame' = Blank
    BY <2>2 DEF IconHeading
  <2>3. ASSUME NEW p \in Planes, frame'.of = p.hdg,
               frame'.hdg = HeadingToSteppedDegrees(p.hdg),
               frame'.hdg \in store'
        PROVE  IconHeading'
    <3>1. p.hdg \in 0..359
      BY ViewAssumption
    <3>2. (frame'.hdg - p.hdg + 3) % 360 \in 0..6
      BY <1>2, <2>3, <3>1
    <3> QED
      BY <2>3, <3>2 DEF IconHeading
  <2> QED
    BY <2>1, <2>2, <2>3, FramePainted
<1> QED
  BY <1>1, <1>3, InitPlaced, NextPlaced, PTL DEF Spec
=============================================================================
