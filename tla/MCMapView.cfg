SPECIFICATION Spec
CONSTANTS
    MinZoom = 0
    MaxZoom = 1
    InitZoom = 1
    TilePx = 4
    Servers = {h1}
    MaxUse = 2
    Height = 2
    Width = 3
    Planes <- MCPlanes
    Moves <- MCMoves
    ClickPx = 2
    Reply <- MCReply
    MaxEvents = 3
INVARIANTS
    CacheForZoom
    RequestsNearMap
    CanvasRight
    IconHeading
PROPERTIES
    ShownTilesStay
    DragAcrossIsKept
CHECK_DEADLOCK FALSE
