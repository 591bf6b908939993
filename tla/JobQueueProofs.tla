--------------------------- MODULE JobQueueProofs ---------------------------
(***************************************************************************)
(* Proofs about JobQueue, for every set of callers and every bound on      *)
(* their posts.  The argument has three layers: the control invariant      *)
(* (where the worker and Stop are, and what they know), the log invariant  *)
(* (what has been posted and begun), and the step-by-step simulation of    *)
(* JobService.                                                             *)
(***************************************************************************)
EXTENDS JobQueue, TLAPS

-----------------------------------------------------------------------------
(* Types and control                                                       *)

(* Only Main exceeds MaxPosts, by the null job, and only after posting it. *)
PostsBounded ==
    \A t \in Callers :
        t # Main \/ spc \in {"up", "cleared"} => posted[t] <= MaxPosts

(* What the worker has established when it leaves the wait.                *)
WorkerKnows ==
    /\ running <=> spc = "up"
    /\ wpc = "decide" => ~running \/ jobs # <<>>
    /\ wpc = "take" => jobs # <<>>
    /\ wpc = "wait" => jobs = <<>>
    /\ wpc = "wait" => spc \in {"up", "cleared"}

(* Stop joins only a worker that has left its loop.                        *)
JoinedIsExit == spc = "joined" => wpc = "exit"

Control == TypeOK /\ PostsBounded /\ WorkerKnows /\ JoinedIsExit

(* A push of the worker's RunLater, Main's or another thread's: the queue  *)
(* grows by the caller's next job, the types and bounds hold.              *)
LEMMA PushTypes ==
    ASSUME TypeOK, NEW t \in Callers, Push(t), posted[t] <= MaxPosts
    PROVE  /\ jobs' \in Seq(Job)
           /\ jobs' # <<>>
           /\ posted' \in [Callers -> 0 .. MaxPosts + 1]
           /\ rpc' \in [Callers -> {"idle", "notify"}]
           /\ \A u \in Callers : u # t => posted'[u] = posted[u]
           /\ posted'[t] = posted[t] + 1
           /\ rpc'[t] = "notify"
<1>1. posted[t] + 1 \in 1 .. MaxPosts + 1
  BY MaxPostsAssumption DEF TypeOK
<1>2. <<t, posted[t] + 1>> \in Job
  BY <1>1 DEF Job
<1>3. jobs' = Append(jobs, <<t, posted[t] + 1>>)
  BY DEF Push
<1>4. jobs' \in Seq(Job) /\ jobs' # <<>>
  BY <1>2, <1>3 DEF TypeOK
<1>5. QED
  BY <1>1, <1>4 DEF Push, TypeOK

LEMMA InitControl == Init => Control
BY CallersAssumption, MaxPostsAssumption
   DEF Init, Control, TypeOK, PostsBounded, WorkerKnows, JoinedIsExit, WorkerPC, StopPC

LEMMA NextControl == Control /\ [Next]_vars => Control'
<1> SUFFICES ASSUME Control, [Next]_vars PROVE Control'
  OBVIOUS
<1> USE DEF Control
<1>1. ASSUME NEW t \in Callers, RunLater(t) PROVE Control'
  <2>1. posted[t] < MaxPosts
    BY <1>1 DEF RunLater
  <2>2. posted[t] <= MaxPosts
    BY <2>1, MaxPostsAssumption DEF TypeOK
  <2>3. Push(t)
    BY <1>1 DEF RunLater
  <2>4. TypeOK'
    BY <1>1, <2>2, <2>3, PushTypes DEF RunLater, TypeOK
  <2>5. PostsBounded'
    <3>1. posted[t] \in Nat /\ posted'[t] = posted[t] + 1
      BY <2>2, <2>3, PushTypes DEF TypeOK
    <3>2. posted'[t] <= MaxPosts
      BY <3>1, <2>1, MaxPostsAssumption
    <3>3. \A u \in Callers : u # t => posted'[u] = posted[u]
      BY <2>2, <2>3, PushTypes
    <3>4. spc' = spc
      BY <1>1 DEF RunLater
    <3>5. QED
      BY <3>2, <3>3, <3>4 DEF PostsBounded
  <2>6. WorkerKnows'
    BY <1>1, <2>2, <2>3, PushTypes
       DEF RunLater, TypeOK, WorkerKnows, Push, WorkerHoldsMutex
  <2>7. JoinedIsExit'
    BY <1>1 DEF RunLater, JoinedIsExit
  <2>8. QED
    BY <2>4, <2>5, <2>6, <2>7
<1>2. ASSUME NEW t \in Callers, Notify(t) PROVE Control'
  BY <1>2 DEF Notify, TypeOK, PostsBounded, WorkerKnows, JoinedIsExit, WorkerPC
<1>3. CASE Lock
  BY <1>3 DEF Lock, TypeOK, PostsBounded, WorkerKnows, JoinedIsExit, WorkerPC
<1>4. CASE Test
  BY <1>4 DEF Test, TypeOK, PostsBounded, WorkerKnows, JoinedIsExit, WorkerPC
<1>5. CASE Block
  BY <1>5 DEF Block, TypeOK, PostsBounded, WorkerKnows, JoinedIsExit, WorkerPC
<1>6. CASE Decide
  BY <1>6 DEF Decide, TypeOK, PostsBounded, WorkerKnows, JoinedIsExit, WorkerPC
<1>7. CASE Take
  <2>1. jobs # <<>>
    BY <1>7 DEF Take, WorkerKnows
  <2>2. Head(jobs) \in Job /\ Tail(jobs) \in Seq(Job)
    BY <2>1 DEF TypeOK
  <2>3. executed' \in Seq(Job) /\ jobs' \in Seq(Job)
    BY <1>7, <2>2 DEF Take, TypeOK
  <2>4. QED
    BY <1>7, <2>3 DEF Take, TypeOK, PostsBounded, WorkerKnows, JoinedIsExit, WorkerPC
<1>8. CASE JobDone
  BY <1>8 DEF JobDone, TypeOK, PostsBounded, WorkerKnows, JoinedIsExit, WorkerPC
<1>9. CASE SpuriousWake
  BY <1>9 DEF SpuriousWake, TypeOK, PostsBounded, WorkerKnows, JoinedIsExit, WorkerPC
<1>10. CASE StopClear
  <2>1. TypeOK'
    <3>1. Len(executed) \in Nat
      BY DEF TypeOK
    <3>2. running' \in BOOLEAN
      BY <1>10 DEF StopClear
    <3>3. QED
      BY <1>10, <3>1, <3>2 DEF StopClear, TypeOK, StopPC
  <2>2. PostsBounded'
    BY <1>10 DEF StopClear, PostsBounded
  <2>3. WorkerKnows'
    BY <1>10 DEF StopClear, WorkerKnows
  <2>4. JoinedIsExit'
    BY <1>10 DEF StopClear, JoinedIsExit
  <2>5. QED
    BY <2>1, <2>2, <2>3, <2>4
<1>11. CASE StopPost
  <2>1. Main \in Callers /\ Push(Main) /\ spc = "cleared" /\ spc' = "posted"
    BY <1>11, CallersAssumption DEF StopPost
  <2>2. posted[Main] <= MaxPosts
    BY <2>1 DEF PostsBounded
  <2>3. TypeOK'
    BY <1>11, <2>1, <2>2, PushTypes DEF StopPost, TypeOK, StopPC
  <2>4. PostsBounded'
    BY <2>1, <2>2, PushTypes DEF PostsBounded
  <2>5. WorkerKnows'
    BY <1>11, <2>1, <2>2, PushTypes
       DEF StopPost, WorkerKnows, Push, WorkerHoldsMutex
  <2>6. JoinedIsExit'
    BY <2>1 DEF JoinedIsExit
  <2>7. QED
    BY <2>3, <2>4, <2>5, <2>6
<1>12. CASE StopJoin
  BY <1>12 DEF StopJoin, TypeOK, PostsBounded, WorkerKnows, JoinedIsExit, StopPC
<1>13. CASE UNCHANGED vars
  BY <1>13 DEF vars, TypeOK, PostsBounded, WorkerKnows, JoinedIsExit
<1>14. QED
  BY <1>1, <1>2, <1>3, <1>4, <1>5, <1>6, <1>7, <1>8, <1>9, <1>10, <1>11,
     <1>12, <1>13
  DEF Next, WorkerStep, StopStep, Finished

THEOREM ControlInvariant == SafeSpec => []Control
BY InitControl, NextControl, PTL DEF SafeSpec

(* The types hold for every number of callers and posts.                   *)
THEOREM TypeCorrect == SafeSpec => []TypeOK
<1>1. Control => TypeOK
  BY DEF Control
<1>2. QED
  BY <1>1, ControlInvariant, PTL

(* AsyncWorker never takes the front of an empty queue.                    *)
THEOREM NeverTakesFromEmpty == SafeSpec => []TakeHasJob
<1>1. Control => TakeHasJob
  BY DEF Control, WorkerKnows, TakeHasJob
<1>2. QED
  BY <1>1, ControlInvariant, PTL

-----------------------------------------------------------------------------
(* Wake-ups                                                                *)

(* No wake-up is lost.  The only thread that changes what the predicate    *)
(* reads without the mutex is Stop, and until it posts the null job it is  *)
(* at "cleared"; the post itself has to wait for the mutex, which a worker *)
(* between its predicate and its block still holds.                        *)
LEMMA NextNoLostWakeup == Control /\ NoLostWakeup /\ [Next]_vars => NoLostWakeup'
<1> SUFFICES ASSUME Control, NoLostWakeup, [Next]_vars PROVE NoLostWakeup'
  OBVIOUS
<1> USE DEF NoLostWakeup
<1>1. ASSUME NEW t \in Callers, RunLater(t) PROVE NoLostWakeup'
  <2>1. rpc'[t] = "notify"
    BY <1>1 DEF RunLater, Push, Control, TypeOK
  <2>2. QED
    BY <2>1
<1>2. ASSUME NEW t \in Callers, Notify(t) PROVE NoLostWakeup'
  <2>1. wpc' # "blocked"
    BY <1>2 DEF Notify
  <2>2. wpc' = "wait" => jobs' = <<>> /\ (running' \/ spc' = "cleared")
    BY <1>2 DEF Notify, Control, WorkerKnows
  <2>3. QED
    BY <2>1, <2>2
<1>3. CASE Test
  BY <1>3 DEF Test
<1>4. CASE Block
  BY <1>4 DEF Block, Control, WorkerKnows
<1>5. CASE Lock \/ Decide \/ Take \/ JobDone \/ SpuriousWake
  BY <1>5 DEF Lock, Decide, Take, JobDone, SpuriousWake
<1>6. CASE StopClear
  BY <1>6 DEF StopClear
<1>7. CASE StopPost
  <2>1. rpc'[Main] = "notify"
    BY <1>7, CallersAssumption DEF StopPost, Push, Control, TypeOK
  <2>2. QED
    BY <2>1, CallersAssumption
<1>8. CASE StopJoin
  BY <1>8 DEF StopJoin
<1>9. CASE UNCHANGED vars
  BY <1>9 DEF vars
<1>10. QED
  BY <1>1, <1>2, <1>3, <1>4, <1>5, <1>6, <1>7, <1>8, <1>9
  DEF Next, WorkerStep, StopStep, Finished

(* A worker blocked with work to do is owed a notification, whatever the   *)
(* number of threads that post.                                            *)
THEOREM WakeupsAreKept == SafeSpec => []NoLostWakeup
<1>1. Init => NoLostWakeup
  BY DEF Init, NoLostWakeup
<1>2. QED
  BY <1>1, NextNoLostWakeup, ControlInvariant, PTL DEF SafeSpec

-----------------------------------------------------------------------------
(* Stopping                                                                *)

(* The strengthening: the one late job is the one the worker is about to   *)
(* take when running is cleared.                                           *)
LateJob ==
    ~running => Len(executed) <= atStop + (IF wpc = "take" THEN 0 ELSE 1)

LEMMA NextLateJob == Control /\ LateJob /\ [Next]_vars => LateJob'
<1> SUFFICES ASSUME Control, LateJob, [Next]_vars PROVE LateJob'
  OBVIOUS
<1>1. Len(executed) \in Nat /\ atStop \in Nat
  BY DEF Control, TypeOK
<1>2. CASE Decide
  BY <1>1, <1>2 DEF Decide, LateJob
<1>3. CASE Take
  <2>1. jobs # <<>>
    BY <1>3 DEF Take, Control, WorkerKnows
  <2>2. Head(jobs) \in Job
    BY <2>1 DEF Control, TypeOK
  <2>3. Len(executed') = Len(executed) + 1
    BY <1>3, <2>2 DEF Take, Control, TypeOK
  <2>4. QED
    BY <1>1, <1>3, <2>3 DEF Take, LateJob
<1>4. CASE StopClear
  BY <1>1, <1>4 DEF StopClear, LateJob
<1>5. CASE \/ \E t \in Callers : RunLater(t) \/ Notify(t)
           \/ Lock \/ Test \/ Block \/ JobDone \/ SpuriousWake
           \/ StopPost \/ StopJoin \/ UNCHANGED vars
  <2>1. UNCHANGED <<running, executed, atStop>>
    BY <1>5 DEF RunLater, Notify, Lock, Test, Block, JobDone, SpuriousWake,
                StopPost, StopJoin, vars
  <2>2. wpc' = "take" => wpc = "take"
    BY <1>5 DEF RunLater, Notify, Lock, Test, Block, JobDone, SpuriousWake,
                StopPost, StopJoin, vars
  <2>3. QED
    BY <1>1, <2>1, <2>2 DEF LateJob
<1>6. QED
  BY <1>2, <1>3, <1>4, <1>5 DEF Next, WorkerStep, StopStep, Finished

(* Once running is cleared at most one more job begins.                    *)
THEOREM StopIsPrompt == SafeSpec => []AtMostOneJobAfterStop
<1>1. Init => LateJob
  BY DEF Init, LateJob
<1>2. Control /\ LateJob => AtMostOneJobAfterStop
  <2>1. Control => Len(executed) \in Nat /\ atStop \in Nat
    BY DEF Control, TypeOK
  <2>2. QED
    BY <2>1 DEF LateJob, AtMostOneJobAfterStop
<1>3. QED
  BY <1>1, <1>2, NextLateJob, ControlInvariant, PTL DEF SafeSpec

-----------------------------------------------------------------------------
(* Order                                                                   *)

(* The log of all pushes holds each thread's jobs numbered from one, in    *)
(* order, each once.                                                       *)
LogOrdered ==
    /\ \A i \in 1 .. Len(Log) : Log[i][2] \in 1 .. posted[Log[i][1]]
    /\ \A i \in 1 .. Len(Log) : \A k \in 1 .. Log[i][2] :
          \E n \in 1 .. i : Log[n] = <<Log[i][1], k>>
    /\ \A i, j \in 1 .. Len(Log) : Log[i] = Log[j] => i = j
    /\ \A t \in Callers : \A k \in 1 .. posted[t] :
          \E n \in 1 .. Len(Log) : Log[n] = <<t, k>>

(* Taking a job moves it from one half of the log to the other.            *)
LEMMA TakeKeepsLog ==
    ASSUME Control, Take
    PROVE  Log' = Log
<1>1. jobs # <<>> /\ jobs \in Seq(Job) /\ executed \in Seq(Job)
  BY DEF Take, Control, WorkerKnows, TypeOK
<1>2. jobs' = Tail(jobs) /\ executed' = Append(executed, Head(jobs))
  BY DEF Take
<1>3. QED
  BY <1>1, <1>2 DEF Log

(* A push extends the log by the caller's next job.                        *)
LEMMA PushExtendsLog ==
    ASSUME Control, NEW t \in Callers, Push(t), posted[t] <= MaxPosts,
           UNCHANGED executed
    PROVE  /\ Log \in Seq(Job)
           /\ <<t, posted[t] + 1>> \in Job
           /\ Log' = Append(Log, <<t, posted[t] + 1>>)
<1>1. jobs \in Seq(Job) /\ executed \in Seq(Job)
  BY DEF Control, TypeOK
<1>2. posted[t] + 1 \in 1 .. MaxPosts + 1
  BY MaxPostsAssumption DEF Control, TypeOK
<1>3. <<t, posted[t] + 1>> \in Job
  BY <1>2 DEF Job
<1>4. jobs' = Append(jobs, <<t, posted[t] + 1>>)
  BY DEF Push
<1>5. executed' = executed
  OBVIOUS
<1>6. QED
  BY <1>1, <1>3, <1>4, <1>5 DEF Log

LEMMA PushKeepsOrder ==
    ASSUME Control, LogOrdered, NEW t \in Callers, Push(t),
           posted[t] <= MaxPosts, UNCHANGED executed
    PROVE  LogOrdered'
<1> DEFINE c == posted[t] + 1
           L == Len(Log)
<1>1. Log \in Seq(Job) /\ <<t, c>> \in Job /\ Log' = Append(Log, <<t, c>>)
  BY PushExtendsLog
<1>2. L \in Nat /\ Len(Log') = L + 1
  BY <1>1
<1>3. Log'[L + 1] = <<t, c>> /\ \A i \in 1 .. L : Log'[i] = Log[i]
  BY <1>1, <1>2
<1>4. posted[t] \in Nat /\ c \in Nat /\ c >= 1
  BY DEF Control, TypeOK
<1>5. /\ posted'[t] = c
      /\ \A u \in Callers : u # t => posted'[u] = posted[u]
  BY PushTypes DEF Control
<1>6. \A i \in 1 .. L : Log[i][1] \in Callers /\ Log[i][2] \in Nat
  BY <1>1, <1>2 DEF Job
<1>7. \A u \in Callers : posted[u] \in Nat /\ posted'[u] \in Nat
                          /\ posted[u] <= posted'[u]
  BY <1>4, <1>5 DEF Control, TypeOK
<1>8. \A i \in 1 .. L : Log[i] # <<t, c>>
  <2> SUFFICES ASSUME NEW i \in 1 .. L, Log[i] = <<t, c>> PROVE FALSE
    OBVIOUS
  <2>1. Log[i][1] = t /\ Log[i][2] = c
    OBVIOUS
  <2>2. c \in 1 .. posted[t]
    BY <2>1 DEF LogOrdered
  <2>3. QED
    BY <2>2, <1>4
<1> DEFINE M == Log'
           p == posted'
<1>9. \A i \in 1 .. L + 1 : M[i][2] \in 1 .. p[M[i][1]]
  <2> SUFFICES ASSUME NEW i \in 1 .. L + 1
               PROVE  M[i][2] \in 1 .. p[M[i][1]]
    OBVIOUS
  <2>1. CASE i = L + 1
    BY <2>1, <1>3, <1>4, <1>5
  <2>2. CASE i \in 1 .. L
    <3>1. Log[i][2] \in 1 .. posted[Log[i][1]]
      BY <2>2 DEF LogOrdered
    <3>2. QED
      BY <2>2, <3>1, <1>3, <1>6, <1>7
  <2>3. QED
    BY <2>1, <2>2, <1>2
<1>10. \A i \in 1 .. L + 1 : \A k \in 1 .. M[i][2] :
          \E n \in 1 .. i : M[n] = <<M[i][1], k>>
  <2> SUFFICES ASSUME NEW i \in 1 .. L + 1, NEW k \in 1 .. M[i][2]
               PROVE  \E n \in 1 .. i : M[n] = <<M[i][1], k>>
    OBVIOUS
  <2>1. CASE i = L + 1 /\ k = c
    BY <2>1, <1>2, <1>3
  <2>2. CASE i = L + 1 /\ k # c
    <3>1. M[i][1] = t /\ k \in 1 .. c
      BY <2>2, <1>3
    <3>2. k \in 1 .. posted[t]
      BY <2>2, <3>1, <1>4
    <3>3. PICK n \in 1 .. L : Log[n] = <<t, k>>
      BY <3>2 DEF LogOrdered
    <3>4. n \in 1 .. i /\ M[n] = <<t, k>>
      BY <2>2, <3>3, <1>2, <1>3
    <3>5. QED
      BY <3>1, <3>4
  <2>3. CASE i \in 1 .. L
    <3>1. M[i] = Log[i]
      BY <2>3, <1>3
    <3>2. PICK n \in 1 .. i : Log[n] = <<Log[i][1], k>>
      BY <2>3, <3>1 DEF LogOrdered
    <3>3. n \in 1 .. L
      BY <2>3, <3>2, <1>2
    <3>4. QED
      BY <3>1, <3>2, <3>3, <1>3
  <2>4. QED
    BY <2>1, <2>2, <2>3, <1>2
<1>11. \A i, j \in 1 .. L + 1 : M[i] = M[j] => i = j
  <2> SUFFICES ASSUME NEW i \in 1 .. L + 1, NEW j \in 1 .. L + 1, M[i] = M[j]
               PROVE  i = j
    OBVIOUS
  <2>1. CASE i = L + 1
    BY <2>1, <1>2, <1>3, <1>8
  <2>2. CASE j = L + 1
    BY <2>2, <1>2, <1>3, <1>8
  <2>3. CASE i \in 1 .. L /\ j \in 1 .. L
    BY <2>3, <1>3 DEF LogOrdered
  <2>4. QED
    BY <2>1, <2>2, <2>3, <1>2
<1>12. \A u \in Callers : \A k \in 1 .. p[u] :
          \E n \in 1 .. L + 1 : M[n] = <<u, k>>
  <2> SUFFICES ASSUME NEW u \in Callers, NEW k \in 1 .. p[u]
               PROVE  \E n \in 1 .. L + 1 : M[n] = <<u, k>>
    OBVIOUS
  <2>1. CASE u = t /\ k = c
    BY <2>1, <1>2, <1>3
  <2>2. CASE ~(u = t /\ k = c)
    <3>1. k \in 1 .. posted[u]
      BY <2>2, <1>4, <1>5
    <3>2. PICK n \in 1 .. L : Log[n] = <<u, k>>
      BY <3>1 DEF LogOrdered
    <3>3. n \in 1 .. L + 1 /\ M[n] = <<u, k>>
      BY <3>2, <1>2, <1>3
    <3>4. QED
      BY <3>3
  <2>3. QED
    BY <2>1, <2>2
<1>13. QED
  BY <1>2, <1>9, <1>10, <1>11, <1>12 DEF LogOrdered

LEMMA NextLogOrdered == Control /\ LogOrdered /\ [Next]_vars => LogOrdered'
<1> SUFFICES ASSUME Control, LogOrdered, [Next]_vars PROVE LogOrdered'
  OBVIOUS
<1>1. ASSUME NEW t \in Callers, RunLater(t) PROVE LogOrdered'
  <2>1. posted[t] <= MaxPosts
    BY <1>1, MaxPostsAssumption DEF RunLater, Control, TypeOK
  <2>2. QED
    BY <1>1, <2>1, PushKeepsOrder DEF RunLater
<1>2. CASE StopPost
  <2>1. posted[Main] <= MaxPosts
    BY <1>2, CallersAssumption DEF StopPost, Control, PostsBounded
  <2>2. QED
    BY <1>2, <2>1, CallersAssumption, PushKeepsOrder DEF StopPost
<1>3. CASE Take
  <2>1. Log' = Log
    BY <1>3, TakeKeepsLog
  <2>2. posted' = posted
    BY <1>3 DEF Take
  <2>3. QED
    BY <2>1, <2>2 DEF LogOrdered
<1>4. CASE \/ \E t \in Callers : Notify(t)
           \/ Lock \/ Test \/ Block \/ Decide \/ JobDone \/ SpuriousWake
           \/ StopClear \/ StopJoin \/ UNCHANGED vars
  <2>1. UNCHANGED <<executed, jobs, posted>>
    BY <1>4 DEF Notify, Lock, Test, Block, Decide, JobDone, SpuriousWake,
                StopClear, StopJoin, vars
  <2>2. Log' = Log
    BY <2>1 DEF Log
  <2>3. QED
    BY <2>1, <2>2 DEF LogOrdered
<1>5. QED
  BY <1>1, <1>2, <1>3, <1>4 DEF Next, WorkerStep, StopStep, Finished

LEMMA LogOrderInvariant == SafeSpec => []LogOrdered
<1>1. Init => LogOrdered
  BY DEF Init, LogOrdered, Log
<1>2. QED
  BY <1>1, NextLogOrdered, ControlInvariant, PTL DEF SafeSpec

(* Every thread's jobs begin in the order it posted them, each once and    *)
(* with none skipped.                                                      *)
THEOREM JobsRunInOrderOnce == SafeSpec => []RunsInOrderOnce
<1>1. Control /\ LogOrdered => RunsInOrderOnce
  <2> SUFFICES ASSUME Control, LogOrdered,
                      NEW i \in 1 .. Len(executed),
                      NEW k \in 1 .. executed[i][2]
               PROVE  \E n \in 1 .. i :
                         /\ executed[n] = <<executed[i][1], k>>
                         /\ \A m \in 1 .. Len(executed) :
                               executed[m] = executed[n] => m = n
    BY DEF RunsInOrderOnce
  <2>1. executed \in Seq(Job) /\ jobs \in Seq(Job)
    BY DEF Control, TypeOK
  <2>2. /\ Len(executed) \in Nat
        /\ 1 .. Len(executed) \subseteq 1 .. Len(Log)
        /\ \A m \in 1 .. Len(executed) : Log[m] = executed[m]
    BY <2>1 DEF Log
  <2>3. PICK n \in 1 .. i : Log[n] = <<Log[i][1], k>>
    BY <2>2 DEF LogOrdered
  <2>4. n \in 1 .. Len(executed)
    BY <2>2, <2>3
  <2>5. \A m \in 1 .. Len(executed) : executed[m] = executed[n] => m = n
    BY <2>2, <2>4 DEF LogOrdered
  <2>6. QED
    BY <2>2, <2>3, <2>4, <2>5
<1>2. QED
  BY <1>1, LogOrderInvariant, ControlInvariant, PTL

-----------------------------------------------------------------------------
(* Refinement                                                              *)

LEMMA InitRefines == Init => Service!Init
BY DEF Init, Service!Init, Log

(* Posting is the abstract Post, taking is Run, clearing is Close, the     *)
(* join is Closed, and everything the mutex and the condition variable do  *)
(* in between stutters.                                                    *)
LEMMA StepRefines == Control /\ [Next]_vars => [Service!Next]_(Service!vars)
<1> SUFFICES ASSUME Control, [Next]_vars
             PROVE  Service!Next \/ UNCHANGED Service!vars
  OBVIOUS
<1>1. ASSUME NEW t \in Callers, RunLater(t) PROVE Service!Next
  <2>1. posted[t] <= MaxPosts
    BY <1>1, MaxPostsAssumption DEF RunLater, Control, TypeOK
  <2>2. /\ <<t, posted[t] + 1>> \in Job
        /\ Log' = Append(Log, <<t, posted[t] + 1>>)
    BY <1>1, <2>1, PushExtendsLog DEF RunLater
  <2>3. Service!Post(<<t, posted[t] + 1>>)
    BY <1>1, <2>2 DEF RunLater, Service!Post
  <2>4. QED
    BY <2>2, <2>3 DEF Service!Next
<1>2. CASE StopPost
  <2>1. posted[Main] <= MaxPosts
    BY <1>2, CallersAssumption DEF StopPost, Control, PostsBounded
  <2>2. /\ <<Main, posted[Main] + 1>> \in Job
        /\ Log' = Append(Log, <<Main, posted[Main] + 1>>)
    BY <1>2, <2>1, CallersAssumption, PushExtendsLog DEF StopPost
  <2>3. Service!Post(<<Main, posted[Main] + 1>>)
    BY <1>2, <2>2 DEF StopPost, Service!Post
  <2>4. QED
    BY <2>2, <2>3 DEF Service!Next
<1>3. CASE Take
  <2>1. jobs # <<>> /\ jobs \in Seq(Job) /\ executed \in Seq(Job)
    BY <1>3 DEF Take, Control, WorkerKnows, TypeOK
  <2>2. Log' = Log
    BY <1>3, TakeKeepsLog
  <2>3. /\ Len(executed) < Len(Log)
        /\ Log[Len(executed) + 1] = Head(jobs)
    BY <2>1 DEF Log
  <2>4. executed' = Append(executed, Log[Len(executed) + 1])
    BY <1>3, <2>3 DEF Take
  <2>5. spc # "joined"
    BY <1>3 DEF Take, Control, JoinedIsExit
  <2>6. Service!Run
    BY <1>3, <2>2, <2>3, <2>4, <2>5 DEF Take, Service!Run, Control, TypeOK, StopPC
  <2>7. QED
    BY <2>6 DEF Service!Next
<1>4. CASE StopClear
  BY <1>4 DEF StopClear, Service!Next, Service!Close, Log
<1>5. CASE StopJoin
  BY <1>5 DEF StopJoin, Service!Next, Service!Closed, Log
<1>6. CASE \/ \E t \in Callers : Notify(t)
           \/ Lock \/ Test \/ Block \/ Decide \/ JobDone \/ SpuriousWake
           \/ UNCHANGED vars
  <2>1. UNCHANGED <<executed, jobs, spc>>
    BY <1>6 DEF Notify, Lock, Test, Block, Decide, JobDone, SpuriousWake, vars
  <2>2. QED
    BY <2>1 DEF Service!vars, Log
<1>7. QED
  BY <1>1, <1>2, <1>3, <1>4, <1>5, <1>6 DEF Next, WorkerStep, StopStep, Finished

(* The queue with its mutex, condition variable and unguarded flag         *)
(* implements the abstract job service.                                    *)
THEOREM QueueRefinesService == SafeSpec => ServiceSafeSpec
BY InitRefines, StepRefines, ControlInvariant, PTL
   DEF SafeSpec, ServiceSafeSpec, Service!SafeSpec
=============================================================================
