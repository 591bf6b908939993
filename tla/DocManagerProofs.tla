-------------------------- MODULE DocManagerProofs --------------------------
(***************************************************************************)
(* Proofs about DocManager for every set of URLs, every build and every    *)
(* server: a job the download thread works on is not displaced, documents  *)
(* are filed under the URL they came from, and a URL that was answered is  *)
(* downloaded at most once more.                                           *)
(***************************************************************************)
EXTENDS DocManager, TLAPS

-----------------------------------------------------------------------------
(* Types                                                                   *)

LEMMA PreparedIsEntry ==
    ASSUME NEW d \in Entry, NEW e \in Prepared(d)
    PROVE  /\ e \in Entry
           /\ e.of = d.of
           /\ d.status # "absent" => e.status # "absent"
<1>1. CASE d.prepared
  BY <1>1 DEF Prepared
<1>2. CASE ~d.prepared
  <2> DEFINE t(m) == IF m.opens /\ m.counts THEN d.status ELSE "unsupported"
  <2>1. PICK m \in {v \in Verdicts(d) : ~LoadThrows(v)} :
            e = [d EXCEPT !.prepared = TRUE, !.status = t(m)]
    BY <1>2, Zenon DEF Prepared
  <2>2. t(m) \in Status /\ (d.status # "absent" => t(m) # "absent")
    BY DEF Entry, Status
  <2>3. e = [status |-> t(m), prepared |-> TRUE, of |-> d.of]
    BY <2>1 DEF Entry
  <2>4. QED
    BY <2>2, <2>3 DEF Entry
<1>3. QED
  BY <1>1, <1>2

LEMMA InitTypes == Init => TypeOK
<1> SUFFICES ASSUME Init PROVE TypeOK
  OBVIOUS
<1>1. Absent \in Entry /\ Nothing \in [url : Urls \cup {NoJob, Torn}, outcome : Outcome]
  BY DEF Absent, Entry, Status, Nothing, Outcome
<1>2. QED
  BY <1>1 DEF Init, TypeOK

LEMMA NextTypes == TypeOK /\ [Next]_vars => TypeOK'
<1> SUFFICES ASSUME TypeOK, [Next]_vars PROVE TypeOK'
  OBVIOUS
<1>0. aborted' \in BOOLEAN
  BY DEF Next, Live, Abort, Finished, vars, TypeOK
<1>1. ASSUME NEW u \in Urls, GetDocumentHit(u) PROVE TypeOK'
  <2>1. PICK d \in Prepared(cache[u]) : cache' = [cache EXCEPT ![u] = d]
    BY <1>1 DEF GetDocumentHit
  <2>2. cache[u] \in Entry
    BY <1>0 DEF TypeOK
  <2>3. d \in Entry
    BY <2>1, <2>2, PreparedIsEntry
  <2>4. cache' \in [Urls -> Entry]
    BY <1>0, <2>1, <2>3 DEF TypeOK
  <2>5. QED
    BY <1>0, <1>1, <2>4 DEF GetDocumentHit, TypeOK
<1>2. ASSUME NEW u \in Urls, GetDocumentMiss(u) PROVE TypeOK'
  BY <1>0, <1>2 DEF GetDocumentMiss, TypeOK, docVars
<1>3. CASE ReadBusy
  BY <1>0, <1>3 DEF ReadBusy, TypeOK, docVars
<1>4. CASE AssignJob \/ AssignJobBegin \/ AssignJobEnd
  BY <1>0, <1>4 DEF AssignJob, AssignJobBegin, AssignJobEnd, TypeOK
<1>5. CASE NotifyJob
  BY <1>0, <1>5 DEF NotifyJob, Awoken, TypeOK, docVars
<1>6. CASE Lock \/ Test \/ Block \/ Decide \/ SpuriousWake
  BY <1>0, <1>6 DEF Lock, Test, Block, Decide, SpuriousWake, Step, TypeOK, docVars
<1>7. ASSUME NEW o \in Outcome, Fetch(o) PROVE TypeOK'
  BY <1>0, <1>7 DEF Fetch, TypeOK, docVars
<1>8. CASE Store
  <2> DEFINE d == [status |-> fetched.outcome, prepared |-> FALSE, of |-> fetched.url]
  <2>1. CASE fetched.outcome # "none" /\ job \in Urls
    <3>1. d \in Entry
      BY <2>1 DEF TypeOK, Entry, Status, Outcome
    <3>2. /\ cache' = [cache EXCEPT ![job] = d]
          /\ stored' = [stored EXCEPT ![job] = @ + 1]
      BY <1>8, <2>1 DEF Store
    <3>3. cache' \in [Urls -> Entry] /\ stored' \in [Urls -> Nat]
      BY <2>1, <3>1, <3>2 DEF TypeOK
    <3>4. QED
      BY <1>0, <1>8, <3>3 DEF Store, TypeOK
  <2>2. CASE ~(fetched.outcome # "none" /\ job \in Urls)
    BY <1>0, <1>8, <2>2 DEF Store, TypeOK
  <2>3. QED
    BY <2>1, <2>2
<1>9. CASE Clear
  BY <1>0, <1>9 DEF Clear, Nothing, TypeOK, Outcome
<1>10. CASE DtorCancel \/ DtorClearRunning
  BY <1>0, <1>10 DEF DtorCancel, DtorClearRunning, TypeOK
<1>11. CASE DtorNotify
  BY <1>0, <1>11 DEF DtorNotify, Awoken, TypeOK, docVars
<1>12. CASE DtorJoin
  <2>1. Absent \in Entry
    BY DEF Absent, Entry, Status
  <2>2. QED
    BY <1>0, <1>12, <2>1 DEF DtorJoin, TypeOK
<1>13. CASE UNCHANGED procVars
  BY <1>0, <1>13 DEF procVars, docVars, TypeOK
<1>14. QED
  BY <1>1, <1>2, <1>3, <1>4, <1>5, <1>6, <1>7, <1>8, <1>9, <1>10, <1>11,
     <1>12, <1>13
  DEF Next, Live, Act, GetDocument, WorkerStep, Transfer, Abort, Finished, vars

THEOREM DocTypeCorrect == SafeSpec => []TypeOK
BY InitTypes, NextTypes, PTL DEF SafeSpec

-----------------------------------------------------------------------------
(* The slot                                                                *)

(* The requester is past its test only while the slot is empty, and the    *)
(* thread is past its own only while the slot is full: neither can enter   *)
(* while the other is in, with no mutex held by either.                    *)
SlotHandshake ==
    /\ rpc # "idle" => rurl \in Urls
    /\ rpc = "assign" => job = NoJob
    /\ rpc = "assigning" => TornWrites /\ job \in {Torn, NoJob}
    /\ wpc \in {"fetch", "store", "clear"} => job # NoJob
    /\ wpc = "decide" => ~running \/ job # NoJob

LEMMA NextSlotHandshake ==
    TypeOK /\ SlotHandshake /\ [Next]_vars => SlotHandshake'
<1> SUFFICES ASSUME TypeOK, SlotHandshake, [Next]_vars PROVE SlotHandshake'
  OBVIOUS
<1> USE DEF SlotHandshake
<1>1. CASE GetDocument
  <2>1. ASSUME NEW u \in Urls, GetDocumentHit(u) PROVE SlotHandshake'
    BY <2>1 DEF GetDocumentHit
  <2>2. ASSUME NEW u \in Urls, GetDocumentMiss(u) PROVE SlotHandshake'
    BY <2>2 DEF GetDocumentMiss, docVars
  <2>3. CASE ReadBusy
    BY <2>3 DEF ReadBusy, docVars
  <2>4. CASE AssignJob \/ AssignJobBegin \/ AssignJobEnd
    <3>1. rurl \in Urls
      BY <2>4 DEF AssignJob, AssignJobBegin, AssignJobEnd
    <3>2. job' # NoJob
      BY <2>4, <3>1, UrlsAssumption DEF AssignJob, AssignJobBegin, AssignJobEnd
    <3>3. QED
      BY <2>4, <3>2 DEF AssignJob, AssignJobBegin, AssignJobEnd
  <2>5. CASE NotifyJob
    BY <2>5 DEF NotifyJob, Awoken, docVars
  <2>6. QED
    BY <1>1, <2>1, <2>2, <2>3, <2>4, <2>5 DEF GetDocument
<1>2. CASE Lock \/ Test \/ Block \/ Decide \/ SpuriousWake
  BY <1>2 DEF Lock, Test, Block, Decide, SpuriousWake, Step, docVars
<1>3. ASSUME NEW o \in Outcome, Fetch(o) PROVE SlotHandshake'
  BY <1>3 DEF Fetch, docVars
<1>4. CASE Store
  BY <1>4 DEF Store
<1>5. CASE Clear
  BY <1>5 DEF Clear
<1>6. CASE DtorCancel \/ DtorClearRunning \/ DtorNotify \/ DtorJoin
  BY <1>6 DEF DtorCancel, DtorClearRunning, DtorNotify, DtorJoin, Awoken, docVars
<1>7. CASE UNCHANGED procVars
  BY <1>7 DEF procVars, docVars
<1>8. QED
  BY <1>1, <1>2, <1>3, <1>4, <1>5, <1>6, <1>7 DEF Next, Live, Act, WorkerStep, Transfer, Abort, Finished, vars

LEMMA SlotHandshakeInvariant == SafeSpec => []SlotHandshake
<1>1. Init => SlotHandshake
  BY DEF Init, SlotHandshake
<1>2. QED
  BY <1>1, NextSlotHandshake, DocTypeCorrect, PTL DEF SafeSpec

(* A job the download thread works on is displaced by no other: the        *)
(* requester begins no assignment then, and completes only one whose torn  *)
(* beginning is the very job the thread works on.                          *)
THEOREM SlotNeverStolen == SafeSpec => []NoJobDisplaced
<1>1. SlotHandshake => NoJobDisplaced
  BY DEF SlotHandshake, NoJobDisplaced
<1>2. QED
  BY <1>1, SlotHandshakeInvariant, PTL

-----------------------------------------------------------------------------
(* Refetching                                                              *)

(* The downloads a URL may still get: one if the requester is past a miss  *)
(* for it, one if it is in the slot and not put away yet.                  *)
Asked(u)   == rurl = u /\ rpc \in {"busy", "assign", "assigning"}
Pending(u) == job = u /\ wpc # "clear"

RefetchBudget ==
    \A u \in Urls :
        /\ stored[u] + (IF Asked(u) THEN 1 ELSE 0)
                     + (IF Pending(u) THEN 1 ELSE 0) <= 2
        /\ stored[u] > 0 => Cached(u) \/ dpc = "gone"

LEMMA NextRefetchBudget ==
    TypeOK /\ SlotHandshake /\ RefetchBudget /\ [Next]_vars => RefetchBudget'
<1> SUFFICES ASSUME TypeOK, SlotHandshake, RefetchBudget, [Next]_vars,
                    NEW u \in Urls
             PROVE  /\ stored'[u] + (IF Asked(u)' THEN 1 ELSE 0)
                                  + (IF Pending(u)' THEN 1 ELSE 0) <= 2
                    /\ stored'[u] > 0 => Cached(u)' \/ dpc' = "gone"
  BY DEF RefetchBudget
<1> DEFINE Goal == /\ stored'[u] + (IF Asked(u)' THEN 1 ELSE 0)
                                 + (IF Pending(u)' THEN 1 ELSE 0) <= 2
                   /\ stored'[u] > 0 => Cached(u)' \/ dpc' = "gone"
<1>1. /\ stored[u] \in Nat
      /\ stored[u] + (IF Asked(u) THEN 1 ELSE 0)
                   + (IF Pending(u) THEN 1 ELSE 0) <= 2
      /\ stored[u] > 0 => Cached(u) \/ dpc = "gone"
  BY DEF TypeOK, RefetchBudget
<1>2. ASSUME NEW v \in Urls, GetDocumentHit(v) PROVE Goal
  <2>1. PICK d \in Prepared(cache[v]) : cache' = [cache EXCEPT ![v] = d]
    BY <1>2 DEF GetDocumentHit
  <2>2. d.status # "absent"
    BY <1>2, <2>1, PreparedIsEntry DEF GetDocumentHit, Cached, TypeOK
  <2>3. Cached(u) => Cached(u)'
    BY <2>1, <2>2 DEF Cached, TypeOK
  <2>4. UNCHANGED <<stored, job, wpc, rpc, dpc>> /\ rpc = "idle"
    BY <1>2 DEF GetDocumentHit
  <2>5. ~Asked(u)' /\ (Pending(u)' <=> Pending(u))
    BY <2>4 DEF Asked, Pending
  <2>6. QED
    BY <1>1, <2>3, <2>4, <2>5
<1>3. ASSUME NEW v \in Urls, GetDocumentMiss(v) PROVE Goal
  <2>1. UNCHANGED <<stored, job, wpc, cache, dpc>> /\ rurl' = v /\ rpc' = "busy"
        /\ dpc = "alive" /\ ~Cached(v)
    BY <1>3 DEF GetDocumentMiss, docVars
  <2>2. Pending(u)' <=> Pending(u)
    BY <2>1 DEF Pending
  <2>3. u = v => stored[u] = 0
    BY <1>1, <2>1
  <2>4. u # v => ~Asked(u)'
    BY <2>1 DEF Asked
  <2>5. Cached(u)' <=> Cached(u)
    BY <2>1 DEF Cached
  <2>6. QED
    BY <1>1, <2>1, <2>2, <2>3, <2>4, <2>5
<1>4. CASE AssignJob \/ AssignJobEnd
  <2>1. UNCHANGED <<stored, cache, dpc, wpc, rurl>> /\ rpc' = "notify" /\ job' = rurl
    BY <1>4 DEF AssignJob, AssignJobEnd
  <2>2. rpc \in {"assign", "assigning"}
    BY <1>4 DEF AssignJob, AssignJobEnd
  <2>3. ~Asked(u)' /\ (Pending(u)' => Asked(u))
    BY <2>1, <2>2 DEF Asked, Pending
  <2>4. Cached(u)' <=> Cached(u)
    BY <2>1 DEF Cached
  <2>5. QED
    BY <1>1, <2>1, <2>3, <2>4
<1>5. CASE AssignJobBegin
  <2>1. UNCHANGED <<stored, cache, dpc, wpc, rurl>> /\ rpc = "assign"
        /\ job' = Torn
    BY <1>5 DEF AssignJobBegin
  <2>2. (Asked(u)' => Asked(u)) /\ ~Pending(u)'
    BY <2>1, UrlsAssumption DEF Asked, Pending
  <2>3. Cached(u)' <=> Cached(u)
    BY <2>1 DEF Cached
  <2>4. QED
    BY <1>1, <2>1, <2>2, <2>3
<1>6. CASE Store
  <2> DEFINE d == [status |-> fetched.outcome, prepared |-> FALSE, of |-> fetched.url]
  <2>1. UNCHANGED <<job, rpc, rurl, dpc>> /\ wpc = "store" /\ wpc' = "clear"
    BY <1>6 DEF Store
  <2>2. (Asked(u)' <=> Asked(u)) /\ ~Pending(u)'
    BY <2>1 DEF Asked, Pending
  <2>3. CASE fetched.outcome # "none" /\ job \in Urls
    <3>1. /\ cache' = [cache EXCEPT ![job] = d]
          /\ stored' = [stored EXCEPT ![job] = @ + 1]
      BY <1>6, <2>3 DEF Store
    <3>2. fetched.outcome # "absent" /\ d.status = fetched.outcome
      BY DEF TypeOK, Outcome
    <3>3. CASE u = job
      <4>1. Pending(u)
        BY <2>1, <3>3 DEF Pending
      <4>2. stored'[u] = stored[u] + 1
        BY <3>1, <3>3 DEF TypeOK
      <4>3. Cached(u)'
        BY <3>1, <3>2, <3>3 DEF TypeOK, Cached
      <4>4. QED
        BY <1>1, <2>2, <4>1, <4>2, <4>3
    <3>4. CASE u # job
      <4>1. stored'[u] = stored[u] /\ (Cached(u)' <=> Cached(u))
        BY <3>1, <3>4 DEF TypeOK, Cached
      <4>2. QED
        BY <1>1, <2>1, <2>2, <4>1
    <3>5. QED
      BY <3>3, <3>4
  <2>4. CASE ~(fetched.outcome # "none" /\ job \in Urls)
    <3>1. UNCHANGED <<cache, stored>>
      BY <1>6, <2>4 DEF Store
    <3>2. Cached(u)' <=> Cached(u)
      BY <3>1 DEF Cached
    <3>3. QED
      BY <1>1, <2>1, <2>2, <3>1, <3>2
  <2>5. QED
    BY <2>3, <2>4
<1>7. CASE Clear
  <2>1. UNCHANGED <<stored, cache, dpc, rpc, rurl>> /\ job' = NoJob
    BY <1>7 DEF Clear
  <2>2. (Asked(u)' <=> Asked(u)) /\ ~Pending(u)'
    BY <2>1, UrlsAssumption DEF Asked, Pending
  <2>3. Cached(u)' <=> Cached(u)
    BY <2>1 DEF Cached
  <2>4. QED
    BY <1>1, <2>1, <2>2, <2>3
<1>8. CASE DtorJoin
  <2>1. UNCHANGED <<stored, job, wpc, rpc, rurl>> /\ dpc' = "gone"
    BY <1>8 DEF DtorJoin
  <2>2. (Asked(u)' <=> Asked(u)) /\ (Pending(u)' <=> Pending(u))
    BY <2>1 DEF Asked, Pending
  <2>3. QED
    BY <1>1, <2>1, <2>2
<1>9. CASE ReadBusy \/ NotifyJob \/ DtorCancel \/ DtorClearRunning \/ DtorNotify
           \/ Lock \/ Test \/ Block \/ Decide \/ SpuriousWake
           \/ (\E o \in Outcome : Fetch(o)) \/ UNCHANGED procVars
  <2>1. UNCHANGED <<stored, cache, job, rurl>>
    BY <1>9 DEF ReadBusy, NotifyJob, DtorCancel, DtorClearRunning, DtorNotify,
                Lock, Test, Block, Decide, SpuriousWake, Step, Fetch, docVars, procVars
  <2>2. rpc' \in {"busy", "assign", "assigning"} => rpc \in {"busy", "assign", "assigning"}
    BY <1>9 DEF ReadBusy, NotifyJob, DtorCancel, DtorClearRunning, DtorNotify,
                Lock, Test, Block, Decide, SpuriousWake, Step, Fetch, docVars, procVars
  <2>3. wpc' # "clear" => wpc # "clear"
    BY <1>9 DEF ReadBusy, NotifyJob, DtorCancel, DtorClearRunning, DtorNotify,
                Lock, Test, Block, Decide, SpuriousWake, Step, Fetch, docVars,
                procVars, Awoken
  <2>4. dpc = "gone" => dpc' = "gone"
    BY <1>9 DEF ReadBusy, NotifyJob, DtorCancel, DtorClearRunning, DtorNotify,
                Lock, Test, Block, Decide, SpuriousWake, Step, Fetch, docVars, procVars
  <2>5. (Asked(u)' => Asked(u)) /\ (Pending(u)' => Pending(u))
    BY <2>1, <2>2, <2>3 DEF Asked, Pending
  <2>6. Cached(u)' <=> Cached(u)
    BY <2>1 DEF Cached
  <2>7. QED
    BY <1>1, <2>1, <2>4, <2>5, <2>6
<1>10. QED
  BY <1>2, <1>3, <1>4, <1>5, <1>6, <1>7, <1>8, <1>9
  DEF Next, Live, Act, GetDocument, WorkerStep, Transfer, Abort, Finished, vars

(* Failed or not, an answered URL is downloaded at most once more.         *)
THEOREM RefetchedAtMostOnce == SafeSpec => []AtMostOneRefetch
<1>1. Init => RefetchBudget
  <2> SUFFICES ASSUME Init, NEW u \in Urls
               PROVE  /\ stored[u] + (IF Asked(u) THEN 1 ELSE 0)
                                   + (IF Pending(u) THEN 1 ELSE 0) <= 2
                      /\ stored[u] > 0 => Cached(u) \/ dpc = "gone"
    BY DEF RefetchBudget
  <2>1. stored[u] = 0 /\ ~Asked(u) /\ ~Pending(u)
    BY UrlsAssumption DEF Init, Asked, Pending
  <2>2. QED
    BY <2>1
<1>2. TypeOK /\ RefetchBudget => AtMostOneRefetch
  <2> SUFFICES ASSUME TypeOK, RefetchBudget, NEW u \in Urls PROVE stored[u] <= 2
    BY DEF AtMostOneRefetch
  <2>1. stored[u] \in Nat
    BY DEF TypeOK
  <2>2. stored[u] + (IF Asked(u) THEN 1 ELSE 0) + (IF Pending(u) THEN 1 ELSE 0) <= 2
    BY DEF RefetchBudget
  <2>3. QED
    BY <2>1, <2>2
<1>3. QED
  BY <1>1, <1>2, NextRefetchBudget, SlotHandshakeInvariant, DocTypeCorrect, PTL
  DEF SafeSpec

-----------------------------------------------------------------------------
(* Filing                                                                  *)

(* Store reads the slot again, without a mutex.  It holds what was         *)
(* downloaded, unless what was downloaded is a torn URL: the end of a torn *)
(* assignment is the only write that can come in between.                  *)
SlotIsWhatWasFetched ==
    wpc = "store" => fetched.url = job \/ (TornWrites /\ fetched.url = Torn)

FilingInv == SlotIsWhatWasFetched /\ FiledUnderItsUrl

LEMMA NextFilingInv ==
    TypeOK /\ SlotHandshake /\ FilingInv /\ [Next]_vars => FilingInv'
<1> SUFFICES ASSUME TypeOK, SlotHandshake, FilingInv, [Next]_vars PROVE FilingInv'
  OBVIOUS
<1>1. SlotIsWhatWasFetched'
  <2> USE DEF SlotIsWhatWasFetched
  <2>0. SlotIsWhatWasFetched
    BY DEF FilingInv
  <2>1. ASSUME NEW u \in Urls, GetDocumentHit(u) \/ GetDocumentMiss(u)
        PROVE  SlotIsWhatWasFetched'
    BY <2>0, <2>1 DEF GetDocumentHit, GetDocumentMiss, docVars
  <2>2. CASE ReadBusy \/ NotifyJob
    BY <2>0, <2>2 DEF ReadBusy, NotifyJob, Awoken, docVars
  <2>3. CASE AssignJob \/ AssignJobBegin
    BY <2>0, <2>3 DEF AssignJob, AssignJobBegin, SlotHandshake
  <2>4. CASE AssignJobEnd
    BY <2>0, <2>4 DEF AssignJobEnd, SlotHandshake
  <2>5. CASE Lock \/ Test \/ Block \/ Decide \/ SpuriousWake
    BY <2>0, <2>5 DEF Lock, Test, Block, Decide, SpuriousWake, Step, docVars
  <2>6. ASSUME NEW o \in Outcome, Fetch(o) PROVE SlotIsWhatWasFetched'
    BY <2>0, <2>6 DEF Fetch, docVars
  <2>7. CASE Store \/ Clear
    BY <2>0, <2>7 DEF Store, Clear
  <2>8. CASE DtorCancel \/ DtorClearRunning \/ DtorNotify \/ DtorJoin
    BY <2>0, <2>8 DEF DtorCancel, DtorClearRunning, DtorNotify, DtorJoin, Awoken, docVars
  <2>9. CASE UNCHANGED procVars
    BY <2>0, <2>9 DEF procVars, docVars
  <2>10. QED
    BY <2>1, <2>2, <2>3, <2>4, <2>5, <2>6, <2>7, <2>8, <2>9
    DEF Next, Live, Act, GetDocument, WorkerStep, Transfer, Abort, Finished, vars
<1>2. FiledUnderItsUrl'
  <2> SUFFICES ASSUME NEW u \in Urls, Cached(u)'
               PROVE  cache'[u].of = u \/ (TornWrites /\ cache'[u].of = Torn)
    BY DEF FiledUnderItsUrl
  <2>1. Cached(u) => cache[u].of = u \/ (TornWrites /\ cache[u].of = Torn)
    BY DEF FilingInv, FiledUnderItsUrl
  <2>2. CASE UNCHANGED cache
    BY <2>1, <2>2 DEF Cached
  <2>3. ASSUME NEW v \in Urls, GetDocumentHit(v)
        PROVE  cache'[u].of = u \/ (TornWrites /\ cache'[u].of = Torn)
    <3>1. PICK d \in Prepared(cache[v]) : cache' = [cache EXCEPT ![v] = d]
      BY <2>3 DEF GetDocumentHit
    <3>2. cache[v] \in Entry /\ Cached(v)
      BY <2>3 DEF TypeOK, GetDocumentHit
    <3>3. d.of = cache[v].of
      BY <3>1, <3>2, PreparedIsEntry
    <3>4. cache'[u].of = cache[u].of /\ Cached(u)
      BY <3>1, <3>2, <3>3 DEF TypeOK, Cached
    <3>5. QED
      BY <2>1, <3>4
  <2>4. CASE Store
    <3> DEFINE d == [status |-> fetched.outcome, prepared |-> FALSE, of |-> fetched.url]
    <3>1. CASE cache' = [cache EXCEPT ![job] = d] /\ job \in Urls
      <4>1. CASE u = job
        <5>1. cache'[u].of = fetched.url
          BY <3>1, <4>1 DEF TypeOK
        <5>2. QED
          BY <2>4, <4>1, <5>1 DEF Store, FilingInv, SlotIsWhatWasFetched
      <4>2. CASE u # job
        BY <2>1, <3>1, <4>2 DEF TypeOK, Cached
      <4>3. QED
        BY <4>1, <4>2
    <3>2. QED
      BY <2>2, <2>4, <3>1 DEF Store
  <2>5. CASE DtorJoin
    BY <2>5 DEF DtorJoin, Cached, Absent
  <2>6. UNCHANGED cache \/ (\E v \in Urls : GetDocumentHit(v)) \/ Store \/ DtorJoin
    BY DEF Next, GetDocument, GetDocumentMiss, ReadBusy, AssignJob, AssignJobBegin,
           AssignJobEnd, NotifyJob, WorkerStep, Lock, Test, Block, Decide, Step,
           Fetch, Clear, SpuriousWake, DtorCancel, DtorClearRunning, DtorNotify,
           Finished, Live, Act, Transfer, Abort, docVars, procVars, vars
  <2>7. QED
    BY <2>2, <2>3, <2>4, <2>5, <2>6
<1>3. QED
  BY <1>1, <1>2 DEF FilingInv

(* A document is filed under the URL it was downloaded from; only a build  *)
(* that lets a half-assigned URL be read (docmanager.cpp:95 writes job     *)
(* without jmutex) can file the answer to such a URL, and never that to    *)
(* another request's.                                                      *)
THEOREM DocumentsFiledByUrl == SafeSpec => []FiledUnderItsUrl
<1>1. Init => FilingInv
  BY DEF Init, FilingInv, SlotIsWhatWasFetched, FiledUnderItsUrl, Cached, Absent
<1>2. FilingInv => FiledUnderItsUrl
  BY DEF FilingInv
<1>3. QED
  BY <1>1, <1>2, NextFilingInv, SlotHandshakeInvariant, DocTypeCorrect, PTL
  DEF SafeSpec

-----------------------------------------------------------------------------
(* The end                                                                 *)

(* An ended thread does not start again and it alone fills the cache; the  *)
(* destructor empties the cache only after it has seen the thread end.     *)
LEMMA NextGone ==
    NothingOutlivesMuPDF /\ [Next]_vars => NothingOutlivesMuPDF'
<1> SUFFICES ASSUME NothingOutlivesMuPDF, [Next]_vars PROVE NothingOutlivesMuPDF'
  OBVIOUS
<1> USE DEF NothingOutlivesMuPDF, Cached
<1>1. ASSUME NEW u \in Urls, GetDocumentHit(u) \/ GetDocumentMiss(u)
      PROVE  NothingOutlivesMuPDF'
  BY <1>1 DEF GetDocumentHit, GetDocumentMiss
<1>2. CASE ReadBusy \/ AssignJob \/ AssignJobBegin \/ AssignJobEnd \/ NotifyJob
  BY <1>2 DEF ReadBusy, AssignJob, AssignJobBegin, AssignJobEnd, NotifyJob, Awoken,
              docVars
<1>3. CASE Lock \/ Test \/ Block \/ Decide \/ SpuriousWake
  BY <1>3 DEF Lock, Test, Block, Decide, SpuriousWake, Step, docVars
<1>4. ASSUME NEW o \in Outcome, Fetch(o) PROVE NothingOutlivesMuPDF'
  BY <1>4 DEF Fetch, docVars
<1>5. CASE Store \/ Clear
  BY <1>5 DEF Store, Clear
<1>6. CASE DtorCancel \/ DtorClearRunning \/ DtorNotify
  BY <1>6 DEF DtorCancel, DtorClearRunning, DtorNotify, docVars
<1>7. CASE DtorJoin
  BY <1>7 DEF DtorJoin, Absent
<1>8. CASE UNCHANGED procVars
  BY <1>8 DEF procVars, docVars
<1>9. QED
  BY <1>1, <1>2, <1>3, <1>4, <1>5, <1>6, <1>7, <1>8
  DEF Next, Live, Act, GetDocument, WorkerStep, Transfer, Abort, Finished, vars

(* When the destructor is done the download thread has ended and no        *)
(* document is left behind the MuPDF context it was opened in.             *)
THEOREM MuPDFOutlivesDocuments == SafeSpec => []NothingOutlivesMuPDF
<1>1. Init => NothingOutlivesMuPDF
  BY DEF Init, NothingOutlivesMuPDF
<1>2. QED
  BY <1>1, NextGone, PTL DEF SafeSpec
=============================================================================
