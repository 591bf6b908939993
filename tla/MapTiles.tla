------------------------------- MODULE MapTiles -------------------------------
(***************************************************************************)
(* MapTileProvider: the tiles of one zoom level, cached for as long as     *)
(* they are used, made from documents that the document manager downloads. *)
(* The module has the provider's state and operations; MapView composes    *)
(* them with the map app that calls them.                                  *)
(*                                                                         *)
(* Tile coordinates are doubles in the code.  Here a coordinate at some    *)
(* zoom is an integer number of units, Sub units to a pixel, where Sub is  *)
(* a power of two that keeps halving exact over the zooms modelled.        *)
(***************************************************************************)
EXTENDS Integers, FiniteSets

CONSTANTS MinZoom, MaxZoom,  \* the zooms the provider's configuration allows
          InitZoom,          \* the zoom the provider starts with, 8 in the code
          TilePx,            \* height and width of a tile
          Servers,           \* the hosts a tile may be had from
          MaxUse             \* bound on a tile's use count

ASSUME TilesAssumption ==
    /\ MinZoom \in Nat /\ MaxZoom \in Nat /\ InitZoom \in Nat
    /\ MinZoom <= MaxZoom
    /\ TilePx \in Nat \ {0} /\ MaxUse \in Nat \ {0, 1}
    /\ Servers # {}

VARIABLES
    zoom,    \* MapTileProvider::zoom
    cache,   \* MapTileProvider::tileCache: how often each tile was used, and
             \* the zoom of the document it was drawn from
    docs     \* what the document manager has of each tile and host

provider == <<zoom, cache, docs>>

Two[n \in Nat] == IF n = 0 THEN 1 ELSE 2 * Two[n - 1]

Sub   == Two[MaxZoom]                  \* units in a pixel
Tile  == TilePx * Sub                  \* units in a tile
Span(z) == Two[z] * Tile               \* units in the whole map

Url == Servers \X (0..MaxZoom) \X Int \X Int

(* Not there yet; a tile; an error, or nothing MuPDF opens; and what MuPDF *)
(* opens but cannot count the pages of, cannot load, has no page of, or    *)
(* cannot parse.                                                           *)
Deadly   == {"unloadable", "pageless", "unparsable"}
DocState == {"pending", "ok", "bad", "uncounted"} \cup Deadly

ProviderTyped ==
    /\ zoom \in 0..MaxZoom \cup {InitZoom}
    /\ \A t \in DOMAIN cache :
          t \in Int \X Int /\ cache[t] \in [used : 0..MaxUse, from : Nat]
    /\ \A u \in DOMAIN docs : docs[u] \in DocState

ProviderInit ==
    /\ zoom = InitZoom
    /\ cache = [t \in {} |-> 0]
    /\ docs = [u \in {} |-> "pending"]

(* GetTile's index of the tile at y, x: columns wrap, rows do not.         *)
TileRow(y) == y \div Tile
TileCol(x) == (x \div Tile) % Two[zoom]

(* A centre whose column wraps and whose row is clamped, to one past the   *)
(* last row at the bottom.                                                 *)
NormaliseTileYX(c) ==
    <<IF c[1] < 0 THEN 0 ELSE IF c[1] > Span(zoom) THEN Span(zoom) ELSE c[1],
      c[2] % Span(zoom)>>

(* TileYX2Location and back, at another zoom: through the place on earth.  *)
Reproject(c, from, to) ==
    LET scaled(v) == (v * Two[to]) \div Two[from]
    IN  <<scaled(c[1]), scaled(c[2])>>

Capped(n) == IF n > MaxUse THEN MaxUse ELSE n

(* The document of a tile, if a host was asked for it before.              *)
DocOf(t, host) == LET u == <<host, zoom, t[1], t[2]>>
                  IN  IF u \in DOMAIN docs THEN docs[u] ELSE "none"

-----------------------------------------------------------------------------
(* Slips, used to see that a property notices.                             *)

(* SetZoom keeps the tiles of the previous zoom.                           *)
SetZoomKeepingTiles(z) ==
    /\ zoom' = IF z \in MinZoom..MaxZoom THEN z ELSE zoom
    /\ UNCHANGED <<cache, docs>>

(* MaintenanceTick drops a tile whose count reaches zero.                  *)
AfterTickEarly(tick) ==
    IF ~tick THEN cache
    ELSE [t \in {s \in DOMAIN cache : cache[s].used > 1} |->
             [cache[t] EXCEPT !.used = @ - 1]]

-----------------------------------------------------------------------------

(* SetZoom, with an unsigned argument: one below zero is out of range.     *)
SetZoom(z) ==
    /\ zoom' = IF z \in MinZoom..MaxZoom THEN z ELSE zoom
    /\ cache' = IF zoom' # zoom THEN [t \in {} |-> 0] ELSE cache
    /\ UNCHANGED docs

(* MaintenanceTick: every tile is counted down, and dropped below zero.    *)
AfterTick(tick) ==
    IF ~tick THEN cache
    ELSE [t \in {s \in DOMAIN cache : cache[s].used > 0} |->
             [cache[t] EXCEPT !.used = @ - 1]]

(* A document that is there and has status OK.                             *)
StatusOK(t, host) == DocOf(t, host) \in {"ok", "pageless", "unparsable"}

(* Whether drawing the tiles that are missed ends the program.  Nothing    *)
(* catches the error of Prepare when a page does not load, nor that of     *)
(* PageSize when there is no page, nor that of Document::GetTile, which    *)
(* asks for the bounds of page -1 when selectPage failed.  A count that    *)
(* failed leaves the number of pages to load uninitialised.                *)
Throws(kept, times, host) ==
    LET drawn == {DocOf(t, host[t]) : t \in DOMAIN times \ DOMAIN kept}
    IN  CASE drawn \cap Deadly # {} -> {TRUE}
          [] drawn \cap Deadly = {} /\ "uncounted" \in drawn -> BOOLEAN
          [] OTHER -> {FALSE}

(* All the calls of GetTile in a flight loop: tile t is wanted times[t]    *)
(* times, and host[t] is the server that rand() picks for it.  What is     *)
(* cached is counted; what is not is drawn if its document is there, and   *)
(* otherwise its document is asked for.  A document is prepared once, when *)
(* it is first handed out.                                                 *)
GetTiles(kept, times, host) ==
    LET wanted == DOMAIN times
        missed == wanted \ DOMAIN kept
        fresh  == {t \in missed : StatusOK(t, host[t])}
        asked  == {<<host[t], zoom, t[1], t[2]>> :
                      t \in {s \in missed : DocOf(s, host[s]) = "none"}}
        given  == {<<host[t], zoom, t[1], t[2]>> : t \in missed}
    IN  /\ cache' = [t \in DOMAIN kept \cup fresh |->
              IF t \in fresh
              THEN [used |-> Capped(times[t]), from |-> zoom]
              ELSE IF t \in wanted
                   THEN [kept[t] EXCEPT !.used = Capped(@ + times[t])]
                   ELSE kept[t]]
        /\ docs' = [u \in DOMAIN docs \cup asked |->
              IF u \in asked THEN "pending"
              ELSE IF u \in given /\ docs[u] = "uncounted" THEN "bad"
              ELSE docs[u]]
        /\ UNCHANGED zoom

(* A document arrives, or the note that there is none.                     *)
Downloaded(u, st) ==
    /\ docs[u] = "pending"
    /\ docs' = [docs EXCEPT ![u] = st]
    /\ UNCHANGED <<zoom, cache>>
=============================================================================
