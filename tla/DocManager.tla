----------------------------- MODULE DocManager -----------------------------
(***************************************************************************)
(* The document manager: GetDocument, called by the core's worker thread   *)
(* (the requester; MapTileProvider::GetTile is the only caller), its own   *)
(* download thread (AsyncWorker, with what a Downloader may return), and   *)
(* the destructor, run by the thread that stops the core.                  *)
(*                                                                         *)
(* `job' is the one-place slot through which a URL is handed to the        *)
(* download thread.  It is tested under `jmutex' but assigned outside it.  *)
(***************************************************************************)
EXTENDS Naturals

CONSTANTS Urls,        \* the URLs that are ever asked for
          NoJob,       \* the empty job string
          Torn,        \* a job string read while it is being assigned
          TornWrites,  \* whether the build lets a half-assigned job be seen
          CurlMayFail, \* whether curl_easy_init may fail
          BadServers   \* whether a server may stall, leave out the type of
                       \* what it sends, or send pages that cannot be loaded

ASSUME UrlsAssumption ==
    /\ NoJob \notin Urls
    /\ Torn \notin Urls
    /\ NoJob # Torn

ASSUME BuildAssumption ==
    TornWrites \in BOOLEAN /\ CurlMayFail \in BOOLEAN /\ BadServers \in BOOLEAN

VARIABLES
    job,      \* DocumentManager::job
    running,  \* DocumentManager::running
    cancel,   \* DocumentManager::cancelDownload
    cache,    \* DocumentManager::docCache
    wpc,      \* where the download thread is in AsyncWorker
    fetched,  \* the URL the Downloader was built for, with its outcome
    rpc,      \* where the requester is in GetDocument
    rurl,     \* the URL the requester asks for
    dpc,      \* where the stopping thread is in the destructor
    stored,   \* history: how often a document was put in the cache per URL
    aborted   \* an error that nothing catches has ended the process

docVars  == <<job, running, cancel, cache, stored>>
procVars == <<docVars, wpc, fetched, rpc, rurl, dpc>>
vars     == <<procVars, aborted>>

Status  == {"absent", "ok", "missing", "unsupported"}
Entry   == [status : Status, prepared : BOOLEAN, of : Urls \cup {NoJob, Torn}]
Absent  == [status |-> "absent", prepared |-> FALSE, of |-> NoJob]
Outcome == {"none", "ok", "missing"}

TypeOK ==
    /\ job \in Urls \cup {NoJob, Torn}
    /\ running \in BOOLEAN
    /\ cancel \in BOOLEAN
    /\ cache \in [Urls -> Entry]
    /\ wpc \in {"lock", "test", "wait", "blocked", "decide", "fetch",
                "store", "clear", "exit"}
    /\ fetched \in [url : Urls \cup {NoJob, Torn}, outcome : Outcome]
    /\ rpc \in {"idle", "busy", "assign", "assigning", "notify"}
    /\ rurl \in Urls \cup {NoJob}
    /\ dpc \in {"alive", "cancelled", "cleared", "notified", "gone"}
    /\ stored \in [Urls -> Nat]
    /\ aborted \in BOOLEAN

Nothing == [url |-> NoJob, outcome |-> "none"]

Init ==
    /\ job = NoJob
    /\ running = TRUE
    /\ cancel = FALSE
    /\ cache = [u \in Urls |-> Absent]
    /\ wpc = "lock"
    /\ fetched = Nothing
    /\ rpc = "idle"
    /\ rurl = NoJob
    /\ dpc = "alive"
    /\ stored = [u \in Urls |-> 0]
    /\ aborted = FALSE

Cached(u) == cache[u].status # "absent"

(* jmutex is held by the download thread around its wait and while it      *)
(* clears the job (which is one step); the requester holds it for one read.*)
WorkerHoldsMutex == wpc \in {"test", "wait", "decide"}

-----------------------------------------------------------------------------
(* Slips a change to this code could make, used only to see that a         *)
(* property notices.                                                       *)

(* GetDocument starts a job without looking whether one is in progress.    *)
ReadBusyIgnored ==
    /\ rpc = "busy"
    /\ ~WorkerHoldsMutex
    /\ rpc' = "assign"
    /\ UNCHANGED <<docVars, wpc, fetched, rurl, dpc>>

(* A missing document is not kept in the cache.                            *)
StoreOnlyGood ==
    /\ wpc = "store"
    /\ LET u == job
           d == [status |-> fetched.outcome, prepared |-> FALSE, of |-> fetched.url]
           good == fetched.outcome = "ok" /\ u \in Urls
       IN  /\ cache' = IF good THEN [cache EXCEPT ![u] = d] ELSE cache
           /\ stored' = IF fetched.outcome # "none" /\ u \in Urls /\ stored[u] < 4
                        THEN [stored EXCEPT ![u] = @ + 1] ELSE stored
    /\ wpc' = "clear"
    /\ UNCHANGED <<job, running, cancel, fetched, rpc, rurl, dpc>>

(* The progress callback does not tell curl that the download is           *)
(* cancelled.                                                              *)
TransferDeaf == ~BadServers

(* The slot is emptied, ready for another job, as soon as it is read.      *)
FetchAndClear(o) ==
    /\ wpc = "fetch"
    /\ o = "none" => cancel \/ CurlMayFail
    /\ fetched' = [url |-> job, outcome |-> o]
    /\ job' = NoJob
    /\ wpc' = "store"
    /\ UNCHANGED <<running, cancel, cache, stored, rpc, rurl, dpc>>

(* A null document is stored like any other.                               *)
StoreNull ==
    /\ wpc = "store"
    /\ LET u == job
           d == [status |-> fetched.outcome, prepared |-> FALSE, of |-> fetched.url]
       IN  IF u \in Urls
           THEN /\ cache' = [cache EXCEPT ![u] = d]
                /\ stored' = [stored EXCEPT ![u] = @ + 1]
           ELSE UNCHANGED <<cache, stored>>
    /\ wpc' = "clear"
    /\ UNCHANGED <<job, running, cancel, fetched, rpc, rurl, dpc>>

(* The destructor drops the cache and MuPDF without joining the thread.    *)
DtorNoJoin ==
    /\ dpc = "notified"
    /\ cache' = [u \in Urls |-> Absent]
    /\ dpc' = "gone"
    /\ UNCHANGED <<job, running, cancel, stored, wpc, fetched, rpc, rurl>>

-----------------------------------------------------------------------------
(* GetDocument                                                             *)

(* What MuPDF may make of contents: open them or not, count the pages or   *)
(* not, and load all of them or not.  Those of a missing document are      *)
(* empty and do not open; a document that did not open has no pages.       *)
Verdicts(d) ==
    { m \in [opens : BOOLEAN, counts : BOOLEAN, pages : {0, 1}, loads : BOOLEAN] :
          /\ m.opens => d.status = "ok"
          /\ ~m.opens => m.counts /\ m.pages = 0 }

(* Pages are loaded outside any fz_try, and a count that failed leaves the *)
(* number of them uninitialised: a page that does not load ends the        *)
(* process.                                                                *)
LoadThrows(m) == m.pages > 0 /\ ~m.loads

(* Document::Prepare, on the first hand-out only.                          *)
Prepared(d) ==
    IF d.prepared THEN {d}
    ELSE { [d EXCEPT !.prepared = TRUE,
                     !.status = IF m.opens /\ m.counts THEN @ ELSE "unsupported"] :
               m \in {v \in Verdicts(d) : ~LoadThrows(v)} }

PrepareThrows(d) ==
    BadServers /\ ~d.prepared /\ \E m \in Verdicts(d) : LoadThrows(m)

(* Found in the cache: it is prepared and returned, under cacheMutex.      *)
GetDocumentHit(u) ==
    /\ rpc = "idle" /\ dpc = "alive"
    /\ Cached(u)
    /\ \E d \in Prepared(cache[u]) : cache' = [cache EXCEPT ![u] = d]
    /\ rurl' = u
    /\ UNCHANGED <<job, running, cancel, wpc, fetched, rpc, dpc, stored>>

GetDocumentMiss(u) ==
    /\ rpc = "idle" /\ dpc = "alive"
    /\ ~Cached(u)
    /\ rpc' = "busy"
    /\ rurl' = u
    /\ UNCHANGED <<docVars, wpc, fetched, dpc>>

(* busy = !job.empty(), under jmutex; a busy slot ends the call.           *)
ReadBusy ==
    /\ rpc = "busy"
    /\ ~WorkerHoldsMutex
    /\ rpc' = IF job = NoJob THEN "assign" ELSE "idle"
    /\ UNCHANGED <<docVars, wpc, fetched, rurl, dpc>>

(* job = url, outside jmutex.                                              *)
AssignJob ==
    /\ rpc = "assign"
    /\ job' = rurl
    /\ rpc' = "notify"
    /\ UNCHANGED <<running, cancel, cache, stored, wpc, fetched, rurl, dpc>>

(* Where the length of a string may be seen before its characters, the     *)
(* assignment takes two steps.                                             *)
AssignJobBegin ==
    /\ TornWrites
    /\ rpc = "assign"
    /\ job' = Torn
    /\ rpc' = "assigning"
    /\ UNCHANGED <<running, cancel, cache, stored, wpc, fetched, rurl, dpc>>

AssignJobEnd ==
    /\ rpc = "assigning"
    /\ job' = rurl
    /\ rpc' = "notify"
    /\ UNCHANGED <<running, cancel, cache, stored, wpc, fetched, rurl, dpc>>

(* jsync.notify_one(): heard only by a thread already blocked.             *)
Awoken == IF wpc = "blocked" THEN "lock" ELSE wpc

NotifyJob ==
    /\ rpc = "notify"
    /\ rpc' = "idle"
    /\ wpc' = Awoken
    /\ UNCHANGED <<docVars, fetched, rurl, dpc>>

GetDocument ==
    \/ \E u \in Urls : GetDocumentHit(u) \/ GetDocumentMiss(u)
    \/ ReadBusy
    \/ AssignJob \/ AssignJobBegin \/ AssignJobEnd
    \/ NotifyJob

-----------------------------------------------------------------------------
(* AsyncWorker                                                             *)

Step(from, to) ==
    /\ wpc = from
    /\ wpc' = to
    /\ UNCHANGED <<docVars, fetched, rpc, rurl, dpc>>

Lock == Step("lock", "test")

(* The predicate of jsync.wait.                                            *)
Test == Step("test", IF ~running \/ job # NoJob THEN "decide" ELSE "wait")

Block == Step("wait", "blocked")

SpuriousWake == Step("blocked", "lock")

Decide == Step("decide", IF running THEN "fetch" ELSE "exit")

(* Downloader::Download of what job holds now: a document, a document that *)
(* stands for a failed download, or nothing when the transfer is cancelled *)
(* or curl could not be initialised.                                       *)
Fetch(o) ==
    /\ wpc = "fetch"
    /\ o = "none" => cancel \/ CurlMayFail
    /\ fetched' = [url |-> job, outcome |-> o]
    /\ wpc' = "store"
    /\ UNCHANGED <<docVars, rpc, rurl, dpc>>

(* curl_easy_perform is sure to return only when its progress callback     *)
(* finds the download cancelled: no time limit is set, so that a server    *)
(* which stalls holds the thread for ever.                                 *)
TransferEnds == cancel \/ ~BadServers

(* An answer without a Content-Type: a string is made of a null pointer.   *)
FetchThrows == BadServers /\ wpc = "fetch"

(* docCache[job] = doc, under cacheMutex, if there is a document.  job is  *)
(* read again; a torn name is filed under no URL anybody asks for.         *)
Store ==
    /\ wpc = "store"
    /\ LET u == job
           d == [status |-> fetched.outcome, prepared |-> FALSE, of |-> fetched.url]
       IN  IF fetched.outcome # "none" /\ u \in Urls
           THEN /\ cache' = [cache EXCEPT ![u] = d]
                /\ stored' = [stored EXCEPT ![u] = @ + 1]
           ELSE UNCHANGED <<cache, stored>>
    /\ wpc' = "clear"
    /\ UNCHANGED <<job, running, cancel, fetched, rpc, rurl, dpc>>

(* job = "" under jmutex, released at the end of the round.                *)
Clear ==
    /\ wpc = "clear"
    /\ job' = NoJob
    /\ fetched' = Nothing
    /\ wpc' = "lock"
    /\ UNCHANGED <<running, cancel, cache, stored, rpc, rurl, dpc>>

WorkerStep ==
    \/ Lock \/ Test \/ Block \/ Decide
    \/ Store
    \/ Clear

Transfer == \E o \in Outcome : Fetch(o)

-----------------------------------------------------------------------------
(* ~DocumentManager, once no call of GetDocument is in progress            *)

DtorCancel ==
    /\ dpc = "alive" /\ rpc = "idle"
    /\ cancel' = TRUE
    /\ dpc' = "cancelled"
    /\ UNCHANGED <<job, running, cache, stored, wpc, fetched, rpc, rurl>>

(* running = false, without jmutex.                                        *)
DtorClearRunning ==
    /\ dpc = "cancelled"
    /\ running' = FALSE
    /\ dpc' = "cleared"
    /\ UNCHANGED <<job, cancel, cache, stored, wpc, fetched, rpc, rurl>>

DtorNotify ==
    /\ dpc = "cleared"
    /\ wpc' = Awoken
    /\ dpc' = "notified"
    /\ UNCHANGED <<docVars, fetched, rpc, rurl>>

(* worker->join(), docCache.clear(), fz_drop_context.                      *)
DtorJoin ==
    /\ dpc = "notified"
    /\ wpc = "exit"
    /\ cache' = [u \in Urls |-> Absent]
    /\ dpc' = "gone"
    /\ UNCHANGED <<job, running, cancel, stored, wpc, fetched, rpc, rurl>>

(* An error that nothing catches, in the download thread or in the         *)
(* requester's.                                                            *)
Abort ==
    /\ \/ FetchThrows
       \/ /\ rpc = "idle" /\ dpc = "alive"
          /\ \E u \in Urls : Cached(u) /\ PrepareThrows(cache[u])
    /\ ~aborted
    /\ aborted' = TRUE
    /\ UNCHANGED procVars

Finished == (dpc = "gone" \/ aborted) /\ UNCHANGED vars

-----------------------------------------------------------------------------

(* A step of a process that still runs.                                    *)
Live(A) == ~aborted /\ A /\ UNCHANGED aborted

Act ==
    \/ GetDocument
    \/ WorkerStep \/ Transfer
    \/ SpuriousWake
    \/ DtorCancel \/ DtorClearRunning \/ DtorNotify \/ DtorJoin

Next == Live(Act) \/ Abort \/ Finished

SafeSpec == Init /\ [][Next]_vars

(* Each thread that can run does run; a transfer is only sure to end where *)
(* it is cancelled or no server stalls; the requester asks for every URL   *)
(* it misses again and again, as the map does while it is drawn; no        *)
(* spurious wake-up is owed and nobody has to destroy the manager.         *)
Fairness ==
    /\ WF_vars(Live(WorkerStep))
    /\ WF_vars(Live(TransferEnds /\ Transfer))
    /\ WF_vars(Live(ReadBusy)) /\ WF_vars(Live(AssignJob))
    /\ WF_vars(Live(AssignJobEnd)) /\ WF_vars(Live(NotifyJob))
    /\ \A u \in Urls : /\ SF_vars(Live(GetDocumentMiss(u)))
                       /\ SF_vars(Live(GetDocumentHit(u)))
    /\ WF_vars(Live(DtorClearRunning)) /\ WF_vars(Live(DtorNotify))
    /\ WF_vars(Live(DtorJoin))

Spec == SafeSpec /\ Fairness

-----------------------------------------------------------------------------
(* Properties                                                              *)

(* A job that the download thread works on is not displaced, although it   *)
(* holds no mutex (docmanager.cpp:110-128): between its read of the slot   *)
(* and the clear nobody begins an assignment.  The one assignment that can *)
(* still be under way is the one whose torn beginning the thread took for  *)
(* the job (docmanager.cpp:95, 108): that one may be completed under it.   *)
NoJobDisplaced ==
    wpc \in {"fetch", "store", "clear"} =>
        /\ job # NoJob
        /\ rpc # "assign"
        /\ rpc = "assigning" => TornWrites /\ job = Torn

(* What is filed under a URL is what was downloaded from that URL, or from *)
(* the torn URL that the predicate of the wait let through, where the      *)
(* build lets one be seen; never the document of another URL.              *)
FiledUnderItsUrl ==
    \A u \in Urls : Cached(u) =>
        cache[u].of = u \/ (TornWrites /\ cache[u].of = Torn)

(* Keeping a failed download in the cache avoids continuous retrying: a    *)
(* URL is downloaded at most once more after its first answer, by a        *)
(* request that missed the cache just before the answer was put there.     *)
AtMostOneRefetch == \A u \in Urls : stored[u] <= 2

(* No document outlives the MuPDF context it is opened in: when the        *)
(* destructor is done the download thread has ended and the cache, which   *)
(* it could still fill, is empty (docmanager.cpp:41-48).                   *)
NothingOutlivesMuPDF ==
    dpc = "gone" => wpc = "exit" /\ \A u \in Urls : ~Cached(u)

(* A download that was started comes to an end and frees the slot, unless  *)
(* an error ends the process, or the server stalls for ever and nobody     *)
(* cancels the download: cancelling always ends it.                        *)
StartedJobEnds ==
    wpc = "fetch" ~> job = NoJob \/ aborted \/ [](wpc = "fetch" /\ ~cancel)

(* "otherwise start a job to initiate the fetch in the background": a job  *)
(* put in the slot is taken by the download thread and ends, unless the    *)
(* manager is destroyed first.                                             *)
AcceptedJobEnds == job # NoJob ~> job = NoJob \/ cancel

(* The destructor returns ("Navitab core will now shutdown gracefully").   *)
DestructorReturns == dpc = "cancelled" ~> dpc = "gone"
=============================================================================
