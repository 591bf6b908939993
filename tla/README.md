# Navitab: a TLA+ verification project

Navitab is a flight-simulator companion: a small tablet with a map, documents and
settings, drawn in a window of its own, in X-Plane or in a browser. This directory holds
TLA+ modules translated from its C++ source, the TLC configurations that check them and
the theorems that TLAPS proves about them. Paths below are relative to the repository.

## 1. Inventory

### Threads

| thread | started by | what it does |
|---|---|---|
| main | the shell's `main` or X-Plane | Start, Connect, Activate, event loop, Deactivate, Disconnect, Stop |
| worker | `Navitab::Start` | runs every job posted with `RunLater`, in order (`AsyncWorker`) |
| simulator | `MockSimulator::Connect`, or X-Plane's flight loop | posts flight loops |
| MSFS poll | `MsfsSimulator::Connect` | links to the simulator, takes what it dispatches, posts flight loops |
| LVGL looper | `lvglkit::Manager` | posts `DoTimerHandler` jobs |
| download | `DocumentManager` | one download at a time |
| HTTP server, its connections, command handler | `WindowHTTP` | serve the browser panel |

Almost all logic runs in jobs on the worker. The dangers are therefore in the hand-over:
what is posted in which order, what a posted job finds when it runs, and how all these
threads come down in `Stop`.

### Components

* **Core** (`src/core/navitab.cpp`). State: the parts, apps and providers it owns,
  `running`, `activated`, `activeApp`, the job queue. Operations: Start, Activate,
  Deactivate, Stop, RunLater, the handlers of every job kind. Hard: the flags are plain
  bools read on one thread and written on another; Stop takes objects apart while the
  worker runs. Correct when jobs run once and in order, no wake-up is lost, Stop
  returns, and no job meets a destroyed object.
* **Window parts** (`include/navitab/window.h`, `src/core/core*.cpp`, `appcanvas.cpp`).
  State: painter, image, dirty regions, per part; tools and pushed tool of the toolbar;
  highlighted mode. Correct when what is invalidated is painted, the tools shown are
  those of the active app, a click goes to what is under the pointer.
* **LVGL kit** (`src/lvglkit`). State: `pendingCalls`, `nextTimer`, the looper;
  displays. LVGL is not thread safe and must be called on the worker only. Correct when
  the manager outlives its jobs and LVGL has one caller at a time.
* **Windows** (`src/win/glfw`, `src/win/xplane`, `src/win/http`). State: part images,
  `active` flags, pointer and pen, pending button events; for HTTP a job queue of its
  own, connections, request parsers; for X-Plane the window handle, the settings it was
  last seen with, a watchdog for closing, textures. Correct when press and release go to
  the same part, when a request is understood whatever pieces it arrives in, and when
  stopping leaves no thread and no handle behind.
* **Simulators** (`src/sim`). Post flight loops at their own rate. The one for Microsoft
  Flight Simulator connects when the simulator runs, and fills two buffers in turn.
  Correct when a flight loop shows what the present flight reported.
* **Documents** (`src/docs`). State: cache of documents, the one-place job slot, the
  download thread. Correct when each document is filed under its URL, failures are not
  retried for ever, an accepted request is answered, and the destructor returns.
* **Map tiles** (`src/maps`), **map app** (`src/apps/map`). State: zoom, tile cache,
  pending tiles, use counts, centre, drag. Correct when the cache belongs to the zoom
  that is shown, every pixel shows its place, and a drag is not taken for a click.
* **Tile configuration** (`src/maps/tileprovidercfg.cpp`). The servers read from a file
  and the addresses made from them. Correct when an address is what the entry asks for.
* **Settings, logging, backing store, paths** (`src/core`, `src/store`, `src/platform`).
  State that lives across restarts. Correct when what is saved comes back, whatever the
  user or a crash did to the file, and every message is logged once.
* **Browser panel** (`src/panel/html`). A polling protocol over an unreliable link.
  Correct when the panel ends up showing the server that stays.
* **X-Plane plugin** (`src/shells/plugin`, `src/sim/xplane`). A life cycle driven by the
  host, and windows that are remade when VR is entered.

`PROJECT.json` lists every component with its status and every hazard at its line.

### Interactions

Simulator, window and looper call `RunLater` (a *call* that only queues); the worker
runs the handlers, which call apps, parts and providers, and post more jobs (Redraw
above all). Parts call the window back with `Paint`, under `paintMutex`. The map, while
it is drawn on the worker, calls `DocumentManager::GetDocument`, which hands a URL to
the download thread through the slot `job` and returns nothing until the cache has it.

## 2. Modules

| module | models | role |
|---|---|---|
| `JobService` | what `DeferredJobRunner` promises (`deferred.h`) | abstract specification |
| `JobQueue` | `RunLater`, `AsyncWorker`, end of `Stop` | implements `JobService` |
| `DocManager` | `docmanager.cpp`, `downloader.cpp`, `Document::Prepare` | |
| `NavitabCore` | desktop `main`, the core, parts, GLFW window, looper, mock simulator as jobs | uses the promise of `JobService` |
| `WindowPointer` | event loop, mouse and pen of the GLFW window; mouse handlers of `CoreToolbar` and `CoreModebar`; clicks | the gestures of `NavitabCore`, event by event |
| `MapTiles` | `maptileprovider.cpp`: zoom, cache, ticks, `GetTile` | operations, used by `MapView` |
| `MapView` | `mapapp.cpp`; clipping in `pixelbuffer.cpp` | composes the map app with `MapTiles` and the documents that `DocManager` promises |
| `XPlanePlugin` | the plugin's entry points, `xpsimenvoy.cpp`, `xpwin.cpp`, `xpdesktopwin.cpp`, `xpvrwin.cpp` | host-driven life cycle, with the worker |
| `HttpReq` | `httpreq.cpp` | the parser as operators on a record |
| `HtmlServer` | `htmlserver.cpp` with its clients | connections over `HttpReq` |
| `PanelServer` | `winhttp.cpp` and the web shell's `main` | composes the program with `HtmlServer` |
| `PanelLink` | `NavitabProtocol.js.hpp`, `NavitabPanel.js.hpp` and the server's side of them | |
| `Settings` | `settingsmgr.cpp`, the directories of `pathmgr.cpp` | operations, used by `MsfsProgram` |
| `LogManager` | `logmanager.cpp` | operations, used by `MsfsProgram` |
| `TileConfig` | `tileprovidercfg.cpp` | operators, used by `MsfsProgram` |
| `MsfsLink` | `msfssim.cpp` and the simulator behind it | used by `MsfsProgram` |
| `MsfsProgram` | the MSFS shell's `main`, run after run | composes the four above |
| `Subsequence` | what is left of a sequence when only some elements are kept | operators, used by `LogManager`, `HtmlServer`, `MsfsProgram` |
| `*Proofs` | | theorems about `JobQueue`, `DocManager`, `NavitabCore`, `WindowPointer`, `MapView`, `XPlanePlugin`, `PanelServer`, `MsfsProgram` |
| `MC*` | | instances for TLC |

Each module starts with the code it is about. *Slips*, near the start of a module or
before the action they are a wrong version of, are used by no specification. They are
there so that every property can be seen to fail when the code is changed in a plausible
way.

### JobQueue and JobService

One step is one access to shared state between two points where another thread can act:
lock, predicate, block, decide, take, run. `Push` is the critical section of `RunLater`,
`Notify` the `notify_one` after it, which wakes the worker only if it has already
blocked. `Block` is separate from `Test`, because `running` is not protected by the
mutex. `SpuriousWake` is allowed at any time. The null job that `Stop` posts is what
makes the unguarded `running = false` safe: a post needs the mutex, so the notification
cannot fall between predicate and block. `NoLostWakeup` is that argument as an
invariant, and the slip `StopNotifyOnly` (what `~DocumentManager` does) breaks it.

`JobService` is a sequence of posted jobs and the prefix that has begun, with a phase
(open, closing, closed). The refinement maps the posted sequence to `executed \o jobs`.
In the code jobs that are still queued at Stop are dropped, which the abstract service
allows from the phase `closing` on.

### DocManager

The requester is the worker, inside `GetDocument`, the download thread is `AsyncWorker`,
the third actor is the destructor. The slot `job` is tested under `jmutex` but assigned
and notified outside it. With `TornWrites` an assignment takes two steps, and a string
whose length is seen before its characters is the value `Torn`: the predicate of the
wait reads `job.empty()` concurrently with the assignment, which is a data race. The
outcome of a transfer is `ok`, `missing` (kept as a document that stands for the
failure) or `none` (cancelled, or curl failed to initialise when `CurlMayFail`). With
`BadServers` it need not end either: no time limit is given to curl
(`downloader.cpp:33-46`), so that only the progress callback of a cancelled transfer is
sure to end it, and an answer without a Content-Type makes a string of a null pointer,
which ends the process (`aborted`). `Prepare` has an outcome for each of its steps:
contents that MuPDF does not open, whose pages it cannot count, or of which it cannot
load one; the last is outside any `fz_try` and ends the process. The destructor is
assumed to start when no call of `GetDocument` is in progress. `MaintenanceTick` is
empty in the code.

### NavitabCore

One step is a statement of main's script, one post of another thread, `Take` (the worker
takes a job and evaluates its handler's early return) or the rest of that job. Main can
act between the two. `PartsUsed`, `UsesActiveApp` and `Safe` say what the rest of a job
dereferences; a job that is not safe makes `Fault`, after which nothing is claimed
(`crashed`). `todo` holds the parts main still has to create, to notify of a size or to
reset, in the order of the code.

LVGL is external: `stale` holds the displays that have invalid areas, a timer job
flushes them or not, and the flush calls `Update` as LVGL does. A gesture (press, moves,
release) is one `Mouse` job whose effect is what it may post. App, tool and mode masks
are represented by the app they belong to. `Stop` takes a step for each thing it drops;
the providers go before the document manager, whose destructor waits for the download
thread (`DropDocs`), and only then are `running` cleared and the worker joined. The
worker exits when `running` is cleared, a `running` that is read just before being
behaviourally the same as a job taken just before.

### WindowPointer

One step of main is a callback of `glfwPollEvents`, the pen's poll, or the handling of
one event (or of none, while a button is held); one step of the worker is a job.
Positions are pixels in a window whose dimensions are constants, and outside it too:
GLFW reports a press wherever the mouse is, and another button that is held keeps it
captured, so that a left press may come from left of the window. The handlers then have
the modebar for the part, and NONE for the item. The pen presses inside only.
`latestPen` is not initialised by the code, so its pressure starts as either value. A
pen that is not in proximity leaves its last pressure behind (`GetPenState`), so that a
pen lifted while it is away holds its part until it is back. Whether `nextRepeatTime`
has passed is a choice at each comparison: once it has it is set again at once, so no
run of choices is impossible. `ToSize` is the conversion to `size_t` of line 147. `seen`
is a history variable: which parts are in the middle of a gesture, the item it was
pressed on, and how often it has clicked a tool.

A gesture that ends outside the icons leaves `pushedToolIdx` behind, and the next press
on a tool is then lost or counts as long at once. The model shows this, and no property
forbids it, since nothing in the repository says otherwise.

### MapTiles and MapView

A coordinate is a double in the code and here an integer number of units, `Sub` to a
pixel, a power of two that makes every halving by a zoom exact. `MapTiles` has the cache
(row, column) to a tile with its use count and the zoom of its document, and `docs`,
what the document manager has or is fetching: `GetDocument` returns nothing while a
document is pending, and `Download` is the moment it arrives, as good, as an error, or
as a document that MuPDF cannot count the pages of, cannot load, finds no page in, or
cannot parse. `Throws` says what may become of the program when such a document is asked
for its tile: a page that cannot be loaded or parsed, and the memory of a page that was
never counted, end it (`document.cpp:64-114`). `Tick` counts tiles down and drops those
that reach zero, `GetTile` counts them up.

`MapView` has the centre, the drag, whether the map follows the plane, and `frame`,
which holds what the last flight loop put on each row and column of the canvas: the tile
index and the pixel within the tile, clipped as `PaintRegion` and `BlendRegion` clip,
with the icon that was drawn and the heading of the plane that the frame is for.
`drag.across` and `drag.far` are history variables: whether the pointer was ever ten
pixels from the press, by the sum of its distances to the right and down, or along
either axis. The window has one pointer, so no zoom comes between press and release;
that the code keeps the press in tile coordinates of the zoom at the press
(`mapapp.cpp:247`) is therefore never felt.

The icons in the backing store are kept as the set of headings that have one.

### XPlanePlugin

X-Plane calls the plugin on one thread: one action is one call of an entry point, of the
flight loop, of a draw, of a menu item or of a window handler. The worker and LVGL's
timer act in between. `prefs` is the copy of the settings that `Disable` and the window
write, `file` what is on disk, `last` a history variable for the window as it was last
seen. A window handle is a number that is never used again, so that a stale one shows. A
window has one coordinate: a left edge, and a size that stands for width and height. VR
may be entered or left with or without the message that says so (`VRBehindOurBack`).
X-Plane may crash, losing what was not saved.

### HttpReq, HtmlServer and PanelServer

A symbol stands for a run of characters that the parser treats alike. `feedData` is the
loop of `httpreq.cpp` on a piece of the request, `Turn` one turn of it, with the states
of the code and what each leaves in `working`; `Endless` is a loop that no longer gets
anywhere. A request may report several events at once, the mouse, a wheel, new sizes,
and a mode or a tool, each only with all of its values (`Events`); a value that is no
number makes `std::stoi` throw, after the events before it have been passed on, and ends
the process (`threw`). When select reports an error the server's thread ends by itself
(`failed`). An answer is sent in one step, though `send` may block; connections that the
kernel has and nobody has accepted are dropped with the others. `HtmlServer` cuts a
request into pieces anywhere (`Deliver`), answers what is complete, and keeps or drops
the connection as asked. A server whose parser loops for ever is in the state `stuck`.
`PanelServer` adds the program: main's script, the job queue that keeps `EventLoop`
going, the thread that reads commands, the console's closing, and the posts of a panel
to the parts that the window holds (`clients`).

`Stop` is here in the steps that matter for the settings: parts, then the document
manager (`DocsStopped`, which need not come), then the settings are saved, then the
worker is joined; until it is, one of its jobs may meet a part that is gone
(`WorkerFaults`).

### PanelLink

The panel's update loop, its requests, their answers and errors are actions, and so are
a server's start, death and answers. Answers may be late and overtake each other, also
across a restart of the server; a request to a server that has died fails. The panel
pings the ports in turn, polls the status of the one found, fetches the image when it
has changed, and counts failures up to `FailedLimit` before it looks again.

### Settings, LogManager, TileConfig, MsfsLink, MsfsProgram

A settings file is a `Text` of values, a function from the names of the top level, or
`Absent` or `Corrupt`, one that cannot be parsed; saving first empties the file, and a
run that is killed before it has written leaves `Corrupt` behind (`cut`, while `kept`, a
history variable, stays what was saved last). Directories are tried in the order of the
code: one may be missing and made, or be barred from being made. `LogManager` keeps what
was logged before `Configure` and sends it on afterwards, each message by the filter
with the longest matching pattern. `Log` has no mutex (`logmanager.cpp:128-167`), and
the link's thread logs too: its message is under way for two steps (`writing`), and of a
message of main's that falls between them, and of the one it falls into, nothing is
claimed; they are no longer marked `alone`, and `logFile` is without them. The worker
and the download thread, which log in the same way, are not part of `MsfsProgram`.
`TileConfig` reads entries as the loader does (`NewConfig` and what each field
overrides), finds the order of the placeholders by the nested comparisons of the code
(`fmtOrder`), splits the address at them, lower-cases the protocol, and puts an address
together by the six cases of `FormatUrl`. Placeholders next to each other fail an
assertion, which ends a debug build (`Asserts`, `Asserted`); another one finds an empty
text between them. `MsfsLink` has the simulator's reports, the dispatch queue, the two
buffers and the flight loops posted. `MsfsProgram` runs all of these in the order of
`main`, lets a run be killed at any step, and lets the user edit the files between two
runs.

## 3. What is checked

| run | expects | shows |
|---|---|---|
| `queue` | pass | no lost wake-up, never a job taken from an empty queue, every job begins unless stopped, and the queue implements `JobService` with its liveness: order, once each, a prompt stop |
| `docs` | pass | on a build that may tear the assignment of the slot and with a curl that may fail, with servers that stall or send what cannot be read: no assignment begins during a download, and only the one whose torn beginning was taken for the job ends during it; a document is filed under its own URL (or came from the torn one), at most one refetch, nothing outlives MuPDF, a started download ends unless its server stalls, and a cancelled one always, or an error ends the process |
| `docs_accepted` | violation | a URL put in the slot may never be taken: the notification is lost when it falls between predicate and block (`docmanager.cpp:95`) |
| `core_life` | pass | start to stop with a flight loop and a timer job at any point: timer jobs have a manager, dirty parts have a Redraw queued, painters come before dirty bits, Stop returns unless a job faults or the document manager's destructor waits for ever |
| `core_clicks` | pass | a flight loop with a gesture or a resize: until Stop no job but a flight loop that overtakes the toolbar's first resize finds anything missing; the toolbar shows the tools of the active app or LVGL owes it a flush |
| `core_cleanstop` | violation | Stop destroys parts that queued jobs still use (`navitab.cpp:240`) |
| `pointer` | pass | mouse and pen in any order, pressed in and (the mouse) outside the window, dragged anywhere: an up device is not taken for a down one, a gesture belongs to one part and ends, a gesture that began on an item of the modebar selects its app if and only if it is released on that item, and nothing else selects an app but a gesture that began on no item (section 5), a tool is clicked again only if it repeats |
| `maps` | pass | zooms, drags and flight loops with downloads that end at any time: the cache belongs to the zoom, requests stay near the map, every pixel shows its place, the icon is turned as the plane of its frame, shown tiles stay, a drag that went far by the sum of its distances right and down is not undone |
| `xplane` | pass | starting, enabling, disabling, VR changes, reloads, crashes, closing, moving and resizing: no handle dangles, a window comes back as it was, whatever is shown gets painted to fit, closing is noticed |
| `server` | pass | two requests on kept or new connections, cut anywhere, a command to quit and a closed console at any point: a success answers what was sent, only a piece that ends between the two characters of a line end catches the server's thread, posts reach only parts that are held, a request ends unless the thread spins, has ended or has thrown, and a command to quit has the settings saved unless the server's thread spins or throws, Stop faults or the download thread does not end |
| `panel` | pass | a server that starts on either of two ports, dies and starts again, answers that come late and in any order: the panel ends up showing the server that stays, or none |
| `startup` | pass | two runs that may be killed anywhere, with edits in between: every message is logged once and in order, but for two that are logged at the same time; addresses are as configured; no plane of a flight that was quit is shown; settings survive, but for a run that is killed while it saves |

**Bounds.** `MaxPosts = 2` posts for each of three callers: two are needed to see order
within a thread, two threads beside the worker to see interleaving. Two URLs: one to
occupy the slot while the other waits; the requester may ask any number of times. In
`NavitabCore`, `MaxFlights`, `MaxTimers`, `MaxEvents` are 0 or 1 by run: each property
is about one such job against the twenty or so jobs of start-up and the steps of `Stop`,
and the runs pair them. Two apps, so one may be selected in place of the other. In
`WindowPointer` two presses, so that mouse and pen overlap and a gesture finds what the
last one left; two events and two jobs in flight; moves are not bounded. Its window has
eight columns, two tools of three columns, and the points over each tool, a first
column, an app's item and the keypad's, the canvas, and left of the toolbar and of the
modebar.

In `maps` a tile has four pixels and the canvas two by three, less than a tile, so that
it lies on one tile or across two in either direction; zooms 0 and 1, one tile and four,
so that columns wrap and rows end; planes near two edges of the map; one move that
leaves the map and one that goes back on itself diagonally, which is where the code's
sum of signed distances matters; three gestures. In `xplane` two parts, one size beside
the standard one, and four events of the user or of X-Plane, enough for open, VR,
disable and start again. In `server` one connection with two requests in two pieces
each: the second finds what the first left in the parser; two connections, which share
no state but the server's loop, are beyond what a run can finish. In `panel` two ports,
two starts and one change of image. In `startup` two runs, one edit, one frame of one
flight and one other plane, which is enough for a buffer to keep what it should have let
go; directories of which the first is missing and the second can be used, the first is
barred and the second missing, or none can be used; and tile servers with their
placeholders in all six orders, two of them next to each other in one. No symmetry is
used: the sets are small and some properties are temporal.

The theorems of section 4 hold without these bounds.

**Fairness.** Weak fairness for a thread that is able to run (worker, notifier, main
after the event loop has returned or, in `WindowPointer`, while it goes round, the
destructor, X-Plane's flight loops and draws, LVGL's looper, the panel's update loop),
because the operating system or the host schedules them and every job of the code ends.
A transfer has it only when it has been cancelled or no server stalls, and the
destructor of the document manager has none where it is one step of `Stop` (`DropDocs`,
`DocsStopped`), since `DocManager` shows that it may wait for ever. Answers and errors
of requests arrive in the end, as TCP and `fetch` guarantee. The server thread's is
stated as `[]<>~Waiting(c)`: a connection that has something to be read does not wait
for ever; this says the same as weak fairness of the step that serves it and saves TLC
from parsing each request twice. Strong fairness only for the requester of documents,
which asks again at every frame while the map is shown. None for spurious wake-ups, for
users, for anyone to post, for servers to start, or for Stop to be called. `maps` and
`startup` have only safety properties, and no fairness.

`core_clicks` and `core_cleanstop` use `SafeSpec`, which has no fairness: their
properties do not need any.

**Deadlock** is checked in `queue`, `docs`, the `core` runs, `pointer` and `panel`; a
finished or dead process stutters through the action `Finished` (`Aborted` in
`WindowPointer`), so that any other state without a successor is an error. It is not
checked in `maps`, `xplane`, `server` and `startup`, which come to rest when their
bounded events or runs are used up, when a page has ended the program, or when the
server spins.

## 4. What is proved

For every value of the constants that the named assumptions allow: any number of
callers, posts, URLs, apps, flight loops, timer jobs, gestures, zooms, windows,
connections, requests and their pieces, settings files, log messages and runs of the
program.

* **JobQueueProofs.** `TypeCorrect`, `NeverTakesFromEmpty`, `WakeupsAreKept`,
  `StopIsPrompt`, `JobsRunInOrderOnce` and `QueueRefinesService` (`SafeSpec =>
  ServiceSafeSpec`). `RunsInOrderOnce` speaks of `executed` alone and is not inductive;
  the invariant is on the log `executed \o jobs`: job (t, k) occurs exactly once for
  each k up to `posted[t]`, and the k's of a thread appear in order. `NoLostWakeup`
  needs that a worker in `wait` holds the mutex, so that no push can come between.
* **DocManagerProofs.** `DocTypeCorrect`, `SlotNeverStolen`, `RefetchedAtMostOnce`,
  `DocumentsFiledByUrl`, `MuPDFOutlivesDocuments`. The strengthening ties the two
  program counters together: while the requester is past its test the download thread
  cannot be past its own, because a non-empty job is only ever cleared by the thread and
  only ever set by the requester. `SlotNeverStolen` (`NoJobDisplaced`) says no more than
  the code gives: the one assignment that may be completed under a download is the
  second half of a torn one, of which the thread has seen the beginning, and then the
  job is still `Torn`. The bound on refetches counts the one request that may be under
  way when the first answer is filed. For the filing, the slot still holds what was
  fetched when the thread reads it again, except that the second half of a torn
  assignment may have come in between. For the last one, the destructor is past its join
  only when the thread has ended.
* **NavitabCoreProofs.** `CoreTypeCorrect`, `ManagerOutlivesTimers` (for
  `TimerJobsHaveManager`), `PaintersBeforeDirt` (`PaintersFirst`), `DirtAlwaysQueued`
  (`DirtyIsRedrawn`) and `ToolsFollowApp` (`ToolsCurrent`). Types are proved in two
  steps: everything but the sign of `pendingCalls` is inductive by itself; the sign
  follows from the count of timer jobs. That count is inductive once the jobs' ordinals
  are known to be distinct and not newer than the last one posted. `PaintersFirst` rests
  on the order of the queue: until the last `SetPainter` has run, no part has an image,
  no display is stale and nothing is dirty, and every job that could change this is
  queued behind the `SetPainter`s, which only flight loops and timer jobs can precede.
  `DirtyIsRedrawn` is inductive with the types. `ToolsCurrent` needs that a toolbar with
  an image shows `activeToolsMask`, and that only the start makes parts.
  `JobsFindWhatTheyUse` (`FaultsOnlyKnown`) is the strongest statement about the core:
  its invariant `FaultInv` says that until Stop the core has every app and an active
  one, and every part once the window is there; before that only flight loops, which are
  ignored, timer jobs that find nothing stale, and `SetPainter`s of parts made before
  them are queued.
* **WindowPointerProofs.** `PointerTracksDevices` (`PointerConsistent`) and
  `GesturesDoNotMix` (`OnePartHeld`), for every geometry and any number of events. The
  first speaks of the last event queued, or of `latestPointer` when none is. The second
  rests on the order of the mouse jobs (`Tidy`): between a press of a part and a mouse
  event of another part that follows it, in the queue or across what has been run, there
  is a release of the first, and a part whose last press has no release yet is
  `activeWinPart`. `AppsAreSelectedWherePressed` (`ModeSelectedWherePressed`) and
  `ToolsClickOnceOrRepeat` (`ClicksAgainOnlyRepeating`) go on from there: the modebar's
  mouse jobs are one gesture after another (`Orderly`), so that the item the code
  remembers at a press is the one the history variable saw (`ItemInv`), and before its
  long press a gesture has clicked no tool (`ClickInv`). They hold for presses anywhere;
  that a gesture begun beside all items may select NONE is part of what they say.
  `PointerTypes` has the types, which these proofs need: what a release of the modebar
  selects is an app or NONE.
* **MapViewProofs.** `CacheFollowsZoom`, `ShownTilesAreKept`, `DragsAcrossAreKept`. That
  a tick drops no shown tile needs that every tile of the frame that is in the cache has
  been counted up since the last tick, which is why `GetTile` is called for each of a
  finite, non-empty set of tiles. That a drag is kept needs that `drag.dist`, which the
  code sums up over the moves, is at least ten pixels once `drag.across` holds.
  `RequestsStayNear` (`RequestsNearMap`), `CanvasShowsItsPlace` (`CanvasRight`) and
  `IconPointsWithPlane` (`IconHeading`) are about the arithmetic of a flight loop, for
  every size of tile, canvas and zoom: the centre is normalised onto the map before the
  tiles around it are asked for, the clipped tiles cover each row and column of the
  canvas once and without a gap, and the steps of the icon's heading close at north: the
  icon on the canvas is the one for the plane of that very frame. They need of the state
  only that the centre and the start of a drag are numbers (`Placed`), and that icons
  once made are kept.
* **XPlanePluginProofs.** `NoDanglingHandles` (`HandlesLive`) needs that there is a
  panel exactly while the plugin is enabled, with a number that no window had before;
  `WindowsComeBack` (`WindowRemembered`) that the copy of the settings in force, the
  run's while the plugin is started and the file while it is not, agrees with the window
  last seen, once it has been through the limits on its size and place.
* **PanelServerProofs.** `EventsReachHeldParts` (`PostsReachClients`): the server's
  thread runs only while the window holds the parts. `AnswersFitRequests`
  (`AnsweredAsSent`) and `OnlyCutLineEndsHang` (`CaughtByCutLineEnds`): however the text
  of a request is cut, whatever came before it on the connection, an answer of success
  is for the address that was sent, keeps the connection as it was asked to, and only a
  piece that ends between the CR and the LF of a header can catch the thread in the
  parser's loop. The proof lays out the text of a request as words and lines
  (`TextWords`, `TextLines`), shows what one turn of the loop does to a word and to a
  line (`WordTurn`, `HeaderTurn`), carries "the parser has what the first k characters
  say" through the turns with a measure of how far they got (`Fed`), and through the
  server's steps (`ConnInv`): what the parser has, what waits in the stream and what is
  still to be sent are the text, in order.
* **MsfsProgramProofs.** About a program that may be killed at any step and whose files
  are edited between its runs. `FlightsLeaveNoGhosts` (`NoGhostPlanes`): without a
  connection neither buffer, nor what was posted last, counts other planes (`GhostInv`).
  `SettingsAreKept` (`SettingsKept`): the directory of a run is the first one that can
  be used, and what was saved or written last is in its file, unless a run since was
  killed between the two steps of saving (`SettingsInv`, with `cut` for that loss).
  `EachMessageIsLoggedOnce` (`LoggedOnce`): until the log is configured everything said
  is in the cache, from then on the file is what it was before followed by what was said
  and passes; the filter that each logger has cached is the one that a search would
  find, and the search finds the longest match (`LogInv`, `ConfInv`). What was logged
  while the other thread was logging is left out of both sides.
  `AddressesAreAsConfigured` (`UrlAsConfigured`), about every tile server that a run
  accepts: the nested comparisons name the order in which the placeholders are
  (`OrderIs`), what is cut at them and joined by the case of `FormatUrl` for that order
  is the address with its placeholders replaced (`PartsFillIn`, `FormatIs`), and the
  loader has taken it from an entry that is not disabled (`ServersAreRead`).

The assumptions are on what the environment gives, not on what the code does. The least
obvious are `ServerAssumption`, that the address of a request is not empty and has no
white space in it, as HTTP requires of the browser, and `ProgramAssumption`, on what the
files that a user leaves may hold: settings that cannot be parsed, or are a map of names
in which `logging`, if it is there, is empty or has filters by pattern, and tile servers
whose entries have hosts and an address, right or wrong. The defaults configure the log.

Only model-checked: liveness, since fairness and ENABLED are out of the prover's reach.
That is `EveryJobRuns`, `StartedJobEnds`, `StopReturns`, `HoldsEnd`,
`ContentFitsWindow`, `CloseIsNoticed`, `RequestEnds`, `FinishIsHeeded`,
`PanelFollowsServer` and the fairness of `JobService`. Every invariant and action
property of a passing run has a theorem. The induction theorems of the library take an
operator as an argument, which none of the provers can instantiate; where induction over
data is needed (the turns of the parser's loop, the elements of a subsequence, the loops
of a tile server's address) the proofs argue by a least counterexample instead, and show
in the same way that the recursive function in question exists. No module with theorems
reaches a `RECURSIVE` operator.

## 5. Where the code departs from what it says

Two departures are findings with a run each, `docs_accepted` and `core_cleanstop`. The
modules state others, which no run checks and which TLC refutes. `StopReturns` and
`FinishIsHeeded` make an exception for the first of them:

| property | module | what the code does |
|---|---|---|
| `DestructorReturns` | `DocManager` | `~DocumentManager` notifies in the same window as `docs_accepted` shows, and may wait for ever (`docmanager.cpp:40`) |
| `LvglOnOneThread` | `NavitabCore` | Stop deletes LVGL objects on main while the worker is in LVGL (`toolkit.cpp:61` forbids it) |
| `StatusHasLabel` | `NavitabCore` | a flight loop can reach the toolbar before its label exists (`coretoolbar.cpp:59`) |
| `DoodlerNeedsActivation` | `NavitabCore` | the doodler takes the canvas's clicks although nothing activates it (`coredoodler.cpp:52`) |
| `ToolIdxInRange` | `WindowPointer` | the first column of the leftmost tool, and a drag over the window's left edge, give an index past the last tool (`coretoolbar.cpp:150`) |
| `ClickForActiveApp` | `WindowPointer` | a tool click that was queued behind an app selection is delivered to the new app (`navitab.cpp:341`); it takes three mouse events that wait, one more than the run `pointer` has |
| `NoneNeverSelected` | `WindowPointer` | a press left of the window, which arrives while another button is held, is on no item, and neither is a release outside: the modebar selects the app NONE (`coremodebar.cpp:58`) |
| `AnyDragIsKept` | `MapView` | distances are summed as `abs(dx + dy)`, which is 0 for a move along one diagonal: such a drag, however long, is taken for a click and undone (`mapapp.cpp:263`) |
| `PlaneInItsLocation` | `MapView` | the centre is normalised and the plane's place is not: across the date line the icon is a map away (`mapapp.cpp:168`) |
| `ClickConverted` | `XPlanePlugin` | a press is converted with the window's edges of the last poll (`xpdesktopwin.cpp:159`) |
| `ContinuedOnReloadOnly` | `XPlanePlugin` | the reload mark is removed from the run's settings but is on disk until they are saved: a crash in between continues the log at the next start (`navitab.cpp:94`) |
| `NeverStuck` | `PanelServer` | a piece that ends between the CR and LF of a header leaves a parser that makes no progress, and the server's thread spins (`httpreq.cpp`), which is the only way it can (`OnlyCutLineEndsHang`); after the version it is answered 404, and a request without headers is never complete |
| `ProviderAccepted` | `MCMsfsProgram` | an entry that is not valid, which `tileprovidercfg.cpp:155-163` says is ignored, is kept all the same (line 164) |
| `NeverAborts` | `MCMsfsProgram` | a tile server that the settings name and the user has removed ends every later run |
| `SettingsSurviveKills` | `MCMsfsProgram` | the file is emptied before it is written: a run that is killed in between loses what earlier runs had saved (`settingsmgr.cpp:131`) |
| `AllAreLogged` | `MCMsfsProgram` | two threads that log at a time share the stream and the filter's number without a mutex: lines are mixed or lost (`logmanager.cpp:128-167`) |
| `PlanesReported` | `MCMsfsProgram` | the number of other planes is bounded with `max` for `min` (`msfssim.cpp:226`); it takes two other planes to see |
| `NeverBackwards` | `MCMsfsProgram` | with three frames the two buffers may show an older position after a newer one |

Seen while translating, and modelled as the code has it: `GetTiles` marks every tile it
asks for as pending though `GetDocument` takes one at a time; the loop that strips
trailing slashes of servers works on copies; an object where an array is expected is
logged as "giving up now" and then read; empty arrays and objects vanish from flattened
settings; a crash while saving leaves a file that cannot be parsed, and later runs then
save nothing over it (`SettingsSurviveKills`); a directory that cannot be created ends
the program; placeholders next to each other fail an assertion; a press that jitters on
the spot for ten pixels, all told, is taken for a drag; closing the console saves the
settings, but the program ends only with `quit` or the end of its input.

## 6. Not modelled, and the plan

Not modelled though it is code of this repository: the encoding of the image and of the
status in `winhttp.cpp` (`activeApp` is uninitialised there, and the server thread reads
what the core's thread writes, `winhttp.cpp:223`); the reference that
`SettingsManager::Get` returns and that outlives its lock (`settingsmgr.cpp:37`); the
copy of the doodle to a smaller or larger image (`coredoodler.cpp:45`); a window that
cannot be created is in `NavitabCore` as the end of the process, with no property about
it (`winglfw.cpp:219`); the panel's requests for the status have no timeout, which is
taken to be the browser's, and another server on a lower port that answers pings would
keep the panel from settling.

Planned next: the LVGL looper's timing and the pile-up of timer jobs (`LvglLooper`); the
data races of `winhttp.cpp`; type correctness of the components that have no such
theorem yet, and what of `PanelLink` can be said without fairness.

Not planned: OpenGL rendering, LVGL, MuPDF, curl, SQLite (external); HID decoding; SVG
compilation; rasterising; floating-point geometry; the empty navigation database and
charts. A model of them would have nothing that interleaves, fails part-way or is
bounded in a way that a model checker could decide.
