-------------------------------- MODULE MapView --------------------------------
(***************************************************************************)
(* The map app: which place is at the centre of the canvas, how a press    *)
(* becomes a click or a drag, what a flight loop paints from the tiles of  *)
(* MapTiles, and where it puts the plane.                                  *)
(***************************************************************************)
EXTENDS MapTiles

CONSTANTS Height, Width,  \* the canvas, in pixels
          Planes,         \* the plane's places: [y, x at zoom 0, hdg, ahead]
          Moves,          \* where the mouse may be moved, relative to the press
          ClickPx,        \* a shorter drag is a click, 10 in the code
          Reply(_, _, _), \* what a server may send for zoom, row, column
          MaxEvents       \* bound on tool clicks, presses, moves, releases

ASSUME ViewAssumption ==
    /\ Height \in Nat \ {0} /\ Width \in Nat \ {0}
    /\ \A p \in Planes : /\ p.y \in 0..Tile - 1 /\ p.x \in 0..Tile - 1
                          /\ p.hdg \in 0..359 /\ p.ahead \in Int \X Int
    /\ Moves \subseteq Int \X Int /\ ClickPx \in Nat /\ MaxEvents \in Nat
    /\ \A z \in 0..MaxZoom, y, x \in -1..2 :
          Reply(z, y, x) \subseteq DocState \ {"pending"}

VARIABLES
    active,   \* the map is the active app
    follow,   \* MapApp::followPlane
    centre,   \* MapApp::centreTYX
    drag,     \* MapApp::mouseDrag
    frame,    \* what the last flight loop painted on the canvas
    store,    \* headings of the plane icons in the backing store
    events,   \* how many events so far
    crashed   \* an exception has ended the worker

app  == <<active, follow, centre, drag>>
vars == <<provider, app, frame, store, events, crashed>>

Pixels == (0..Height - 1) \X (0..Width - 1)
Blank  == [at |-> <<0, 0>>, zoom |-> 0, tiles |-> {}, plane |-> <<0, 0>>,
           icon |-> {}, of |-> 0, hdg |-> 0, rows |-> <<>>, cols |-> <<>>]

NoDrag == [down |-> FALSE, dist |-> 0, follow |-> FALSE, from |-> <<0, 0>>,
           far |-> FALSE, across |-> FALSE]

TypeOK ==
    /\ ProviderTyped
    /\ active \in BOOLEAN /\ follow \in BOOLEAN /\ crashed \in BOOLEAN
    /\ centre \in Int \X Int
    /\ drag \in [down : BOOLEAN, dist : Nat, follow : BOOLEAN,
                 from : Int \X Int, far : BOOLEAN, across : BOOLEAN]
    /\ frame.at \in Int \X Int
    /\ store \subseteq 0..359
    /\ events \in 0..MaxEvents

Init ==
    /\ ProviderInit
    /\ active = FALSE /\ follow = TRUE /\ centre = <<0, 0>> /\ drag = NoDrag
    /\ frame = Blank /\ store = {} /\ events = 0 /\ crashed = FALSE

AbsV(n) == IF n < 0 THEN -n ELSE n

-----------------------------------------------------------------------------
(* Painting                                                                *)

(* A slip: the offset into the source is forgotten.                        *)
ClippedUnshifted(dest, n, size) ==
    LET off   == IF dest < 0 THEN -dest ELSE 0
        first == IF dest < 0 THEN 0 ELSE dest
        left  == n - off
        count == IF first + left >= size THEN size - first ELSE left
    IN  [i \in first..first + count - 1 |-> i - first]

(* PixelBuffer::PaintRegion and BlendRegion, in one dimension: the pixels  *)
(* of a line of size pixels that a source of n pixels at dest writes, with *)
(* the source pixel each gets.                                             *)
Clipped(dest, n, size) ==
    LET off   == IF dest < 0 THEN -dest ELSE 0
        first == IF dest < 0 THEN 0 ELSE dest
        left  == n - off
        count == IF first + left >= size THEN size - first ELSE left
    IN  [i \in first..first + count - 1 |-> i - first + off]

(* Where the tile that holds coordinate c is put on a line of size pixels. *)
MainTileOrigin(c, size) == (size \div 2) - ((c % Tile) \div Sub)

(* The tiles to the left and right (above and below) that show: from the   *)
(* one that covers the first pixel to the one that covers the last.        *)
Shown(origin, size) ==
    {k \in -size..size : origin + (k + 1) * TilePx > 0 /\ origin + k * TilePx < size}

(* A line of the canvas, painted tile after tile: for every pixel, the     *)
(* tile, counted from the centre's, and the pixel of it that shows.        *)
Line(c, size) ==
    LET origin == MainTileOrigin(c, size)
        strip  == [k \in Shown(origin, size) |->
                      Clipped(origin + k * TilePx, TilePx, size)]
        on(i)  == {k \in DOMAIN strip : i \in DOMAIN strip[k]}
    IN  [i \in 0..size - 1 |->
            IF on(i) = {} THEN <<>>
            ELSE LET k == CHOOSE j \in on(i) : \A l \in on(i) : l <= j
                 IN  <<k, strip[k][i]>>]

(* The offsets of the tiles that are asked for around centre c.            *)
Offsets(c, size) == Shown(MainTileOrigin(c, size), size)

(* How often each tile is asked for, the centre's once more.               *)
Times(c) ==
    LET at    == [dy \in Offsets(c[1], Height) |-> TileRow(c[1] + dy * Tile)]
        left  == [dx \in Offsets(c[2], Width) |-> TileCol(c[2] + dx * Tile)]
        mid   == <<TileRow(c[1]), TileCol(c[2])>>
        calls(t) == Cardinality({d \in (DOMAIN at) \X (DOMAIN left) :
                                    <<at[d[1]], left[d[2]]>> = t})
    IN  [t \in {<<at[dy], left[dx]>> : dy \in DOMAIN at, dx \in DOMAIN left}
                  \cup {mid} |->
            calls(t) + (IF t = mid THEN 1 ELSE 0)]

Truncated(v) == IF v < 0 THEN -((-v) \div Sub) ELSE v \div Sub

(* The icon, a pixel here, is blended where the plane is relative to the   *)
(* centre, which was normalised while the plane was not.                   *)
IconAt(plane, c) ==
    LET py == Height \div 2 + Truncated(plane[1] - c[1])
        px == Width \div 2 + Truncated(plane[2] - c[2])
    IN  (DOMAIN Clipped(py, 1, Height)) \X (DOMAIN Clipped(px, 1, Width))

(* A slip: the heading is rounded down.                                    *)
SteppedDown(h) == 6 * (h \div 6)

(* HeadingToSteppedDegrees: one icon for each arc of six degrees.          *)
HeadingToSteppedDegrees(h) == 6 * (((h + 363) % 360) \div 6)

-----------------------------------------------------------------------------
(* Slips of the app                                                        *)

(* The rows of the centre are left to overflow.                            *)
CentreUnclamped(c) == <<c[1], c[2] % Span(zoom)>>

(* The lengths of the moves of a drag cancel out.                          *)
DistanceSigned(d) == drag.dist + d[1] + d[2]

-----------------------------------------------------------------------------

(* The centre a flight loop paints around: some way ahead of the plane, or *)
(* where it was left; normalised.                                          *)
PlaneTYX(p) == <<p.y * Two[zoom], p.x * Two[zoom]>>

CentreOn(p) ==
    IF follow THEN <<PlaneTYX(p)[1] - p.ahead[1] * Sub, PlaneTYX(p)[2] + p.ahead[2] * Sub>>
              ELSE centre

Normalised(c) == NormaliseTileYX(c)

(* Navitab::onSimFlightLoop with the map active: the provider's tick, when *)
(* it is its turn, and MapApp::FlightLoop.                                 *)
FlightLoop(p, tick) ==
    LET c     == Normalised(CentreOn(p))
        times == Times(c)
        hdg   == HeadingToSteppedDegrees(p.hdg)
    IN  /\ active
        /\ \E host \in [DOMAIN times -> Servers] :
              /\ GetTiles(AfterTick(tick), times, host)
              /\ crashed' \in Throws(AfterTick(tick), times, host)
        /\ centre' = c
        /\ frame' = [at |-> c, zoom |-> zoom,
                     tiles |-> DOMAIN times \cap DOMAIN cache',
                     plane |-> PlaneTYX(p), icon |-> IconAt(PlaneTYX(p), c),
                     of |-> p.hdg, hdg |-> hdg, rows |-> Line(c[1], Height),
                     cols |-> Line(c[2], Width)]
        /\ store' = store \cup {hdg}
        /\ UNCHANGED <<active, follow, drag, events>>

(* The same with another app active, whose picture is on the canvas.       *)
OtherFlightLoop(tick) ==
    /\ ~active
    /\ cache' = AfterTick(tick)
    /\ UNCHANGED <<zoom, docs, app, frame, store, events, crashed>>

Event ==
    /\ ~crashed
    /\ events < MaxEvents
    /\ events' = events + 1
    /\ UNCHANGED <<store, crashed>>

(* Navitab::onAppSelect: to the map, or away from it.  Nothing is held     *)
(* while an app is selected: the window has one pointer (WindowPointer).   *)
AppSelect ==
    /\ ~drag.down /\ ~crashed
    /\ active' = ~active
    /\ frame' = Blank
    /\ UNCHANGED <<provider, follow, centre, drag, store, events, crashed>>

CentreAfter(z) == Reproject(centre, z, zoom')

(* ToolClick(REDUCE) and ToolClick(MAGNIFY).                               *)
ToolZoom(d) ==
    /\ Event /\ active /\ ~drag.down
    /\ SetZoom(zoom + d)
    /\ centre' = IF zoom' # zoom THEN CentreAfter(zoom) ELSE centre
    /\ UNCHANGED <<active, follow, drag, frame>>

(* ToolClick(CENTRE).                                                      *)
ToolCentre ==
    /\ Event /\ active /\ ~drag.down
    /\ follow' = ~follow
    /\ UNCHANGED <<provider, active, centre, drag, frame>>

(* MouseEvent: the button goes down.                                       *)
MouseDown ==
    /\ Event /\ active /\ ~drag.down
    /\ drag' = [down |-> TRUE, dist |-> 0, follow |-> follow, from |-> centre,
                far |-> FALSE, across |-> FALSE]
    /\ follow' = FALSE
    /\ UNCHANGED <<provider, active, centre, frame>>

Distance(d) == drag.dist + AbsV(d[1] + d[2])

(* MouseEvent: the mouse is moved to d from where the button went down.    *)
(* far remembers whether it was ever as far away as a click may not be,    *)
(* and across whether that was so by the sum that the code adds up, which  *)
(* is nothing along one diagonal.                                          *)
MouseMove(d) ==
    /\ Event /\ active /\ drag.down
    /\ drag' = [drag EXCEPT
                  !.dist = Distance(d),
                  !.far = @ \/ AbsV(d[1]) >= ClickPx \/ AbsV(d[2]) >= ClickPx,
                  !.across = @ \/ AbsV(d[1] + d[2]) >= ClickPx]
    /\ centre' = <<drag.from[1] - d[1] * Sub, drag.from[2] - d[2] * Sub>>
    /\ UNCHANGED <<provider, active, follow, frame>>

(* MouseEvent: the button goes up, the end of a click or of a drag.        *)
MouseUp ==
    /\ Event /\ active /\ drag.down
    /\ drag' = [drag EXCEPT !.down = FALSE]
    /\ IF drag.dist < ClickPx
       THEN follow' = drag.follow /\ centre' = drag.from
       ELSE UNCHANGED <<follow, centre>>
    /\ UNCHANGED <<provider, active, frame>>

(* The download thread finishes a document.                                *)
Download ==
    /\ \E u \in DOMAIN docs : \E st \in Reply(u[2], u[3], u[4]) : Downloaded(u, st)
    /\ UNCHANGED <<app, frame, store, events, crashed>>

FlightLoops == ~crashed /\ \E p \in Planes, tick \in BOOLEAN : FlightLoop(p, tick)

Next ==
    \/ FlightLoops
    \/ \E tick \in BOOLEAN : ~crashed /\ OtherFlightLoop(tick)
    \/ AppSelect
    \/ ToolZoom(1) \/ ToolZoom(-1) \/ ToolCentre
    \/ MouseDown \/ (\E d \in Moves : MouseMove(d)) \/ MouseUp
    \/ Download

Spec == Init /\ [][Next]_vars

-----------------------------------------------------------------------------
(* Properties                                                              *)

(* A cached tile is a tile of the zoom that is shown, whatever zooming     *)
(* happened while its document was fetched (maptileprovider.cpp:130).      *)
CacheForZoom == \A t \in DOMAIN cache : cache[t].from = zoom

(* Columns are asked for within the map, and rows no further off it than   *)
(* the canvas reaches beyond a centre on the edge: the clamping of the     *)
(* centre keeps a drag from asking for tiles that exist nowhere            *)
(* (maptileprovider.cpp:155).                                              *)
Reach == (Height + TilePx) \div TilePx

RequestsNearMap ==
    \A u \in DOMAIN docs :
        /\ u[4] \in 0..Two[u[2]] - 1
        /\ u[3] \in -Reach..Two[u[2]] - 1 + Reach

(* Every pixel of the canvas shows the place it stands for: half a canvas  *)
(* from the centre, on the tile with that index, at that tile's pixel      *)
(* (mapapp.cpp:121-137, pixelbuffer.cpp:7).                                *)
CanvasRight ==
    LET right(line, c, size) ==
            \A i \in 0..size - 1 :
                LET px == c \div Sub - size \div 2 + i
                IN  line[i] = <<px \div TilePx - c \div Tile, px % TilePx>>
    IN  frame # Blank => /\ right(frame.rows, frame.at[1], Height)
                         /\ right(frame.cols, frame.at[2], Width)

(* The icon that is blended points to within three degrees of the heading  *)
(* of the plane that the frame was painted for, on either side of north,   *)
(* and is one that the backing store keeps (mapapp.cpp:175).               *)
IconHeading ==
    frame # Blank =>
        (frame.hdg - frame.of + 3) % 360 \in 0..6 /\ frame.hdg \in store

(* A tick of the provider drops no tile that the frame on the canvas shows *)
(* as long as the map stays active (maptileprovider.cpp:53).               *)
ShownTilesStay ==
    [][zoom' = zoom /\ frame # Blank
          => frame.tiles \cap DOMAIN cache \subseteq DOMAIN cache']_vars

(* Zooming keeps the place at the centre (mapapp.cpp:231).                 *)
ZoomKeepsPlace ==
    [][zoom' # zoom => centre[1] * Two[zoom'] = centre'[1] * Two[zoom]
                       /\ centre[2] * Two[zoom'] = centre'[2] * Two[zoom]]_vars

(* A drag that was ever ten pixels away, by the sum of its distances to    *)
(* the right and down, is not undone when the button is released, however  *)
(* it came back and whatever was painted meanwhile (mapapp.cpp:252, 263).  *)
DragAcrossIsKept ==
    [][drag.down /\ ~drag'.down /\ drag.across => follow' = FALSE /\ centre' = centre]_vars

(* Not so of every drag: one along the other diagonal, however long, is    *)
(* taken for a click and undone (mapapp.cpp:263).                          *)
AnyDragIsKept ==
    [][drag.down /\ ~drag'.down /\ drag.far => follow' = FALSE /\ centre' = centre]_vars

(* mapapp.cpp:167, "Draw (blend) the plane icon in its current location":  *)
(* where the canvas shows the plane's place, there is the icon.            *)
PlaneInItsLocation ==
    frame # Blank =>
        \A p \in Pixels :
            (/\ frame.at[1] \div Sub - Height \div 2 + p[1] = frame.plane[1] \div Sub
             /\ (frame.at[2] \div Sub - Width \div 2 + p[2]) % (Two[frame.zoom] * TilePx)
                   = frame.plane[2] \div Sub)
            => p \in frame.icon
=============================================================================
