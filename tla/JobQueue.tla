------------------------------ MODULE JobQueue ------------------------------
(***************************************************************************)
(* The job queue of the Navitab core: RunLater, AsyncWorker and the end of *)
(* Stop, at the granularity of the mutex `qmutex' and the condition        *)
(* variable `qsync'.  `running' is a plain bool written by Stop without    *)
(* the mutex.                                                              *)
(*                                                                         *)
(* Callers are the threads that call RunLater: the simulator's, the        *)
(* window's, the LVGL looper, Main (which also calls Stop) and the worker  *)
(* itself, from inside a job.  A job is named by the thread that posts it  *)
(* and the number of the post among that thread's posts.                   *)
(***************************************************************************)
EXTENDS Naturals, Sequences

CONSTANTS Callers,   \* threads that may post a job
          Main,      \* the thread that calls Navitab::Stop
          Worker,    \* the thread that runs AsyncWorker
          MaxPosts   \* bound on the posts of one thread

ASSUME CallersAssumption ==
    /\ Main \in Callers
    /\ Worker \in Callers
    /\ Main # Worker

ASSUME MaxPostsAssumption == MaxPosts \in Nat \ {0}

VARIABLES
    running,   \* Navitab::running
    jobs,      \* Navitab::jobs
    wpc,       \* where the worker is in AsyncWorker
    rpc,       \* where each caller is in RunLater
    spc,       \* where Main is in Stop
    posted,    \* number of jobs each caller has pushed
    executed,  \* history: the jobs the worker has begun, in order
    atStop     \* history: how many jobs had begun when running was cleared

vars == <<running, jobs, wpc, rpc, spc, posted, executed, atStop>>

WorkerPC == {"lock", "test", "wait", "blocked", "decide", "take", "run", "exit"}
StopPC   == {"up", "cleared", "posted", "joined"}
(* Main posts one job more than the others, the null job of Stop.          *)
Job      == Callers \X (1 .. MaxPosts + 1)

TypeOK ==
    /\ running \in BOOLEAN
    /\ jobs \in Seq(Job)
    /\ wpc \in WorkerPC
    /\ rpc \in [Callers -> {"idle", "notify"}]
    /\ spc \in StopPC
    /\ posted \in [Callers -> 0 .. MaxPosts + 1]
    /\ executed \in Seq(Job)
    /\ atStop \in Nat

(* qmutex is held by the worker from the lock to the wait or the unlock;   *)
(* RunLater holds it for the push only, which is one step here.            *)
WorkerHoldsMutex == wpc \in {"test", "wait", "decide", "take"}

Init ==
    /\ running = TRUE
    /\ jobs = <<>>
    /\ wpc = "lock"
    /\ rpc = [t \in Callers |-> "idle"]
    /\ spc = "up"
    /\ posted = [t \in Callers |-> 0]
    /\ executed = <<>>
    /\ atStop = 0

-----------------------------------------------------------------------------
(* Slips a change to this code could make; no specification below uses     *)
(* them, the model checker replaces an action by one of them to see that   *)
(* a property notices.                                                     *)

(* RunLater pushes a moved-from, empty std::function.                      *)
PushEmpty(t) ==
    /\ rpc[t] = "idle"
    /\ ~WorkerHoldsMutex
    /\ jobs' = Append(jobs, <<>>)
    /\ posted' = [posted EXCEPT ![t] = @ + 1]
    /\ rpc' = [rpc EXCEPT ![t] = "notify"]

(* RunLater does not notify.                                               *)
PushSilently(t) ==
    /\ rpc[t] = "idle"
    /\ ~WorkerHoldsMutex
    /\ jobs' = Append(jobs, <<t, posted[t] + 1>>)
    /\ posted' = [posted EXCEPT ![t] = @ + 1]
    /\ UNCHANGED rpc

(* The wait has no predicate: any wake-up goes on to the pop.              *)
TestNothing ==
    /\ wpc = "test"
    /\ wpc' \in {"decide", "wait"}
    /\ UNCHANGED <<running, jobs, rpc, spc, posted, executed, atStop>>

(* The worker drains the queue before it looks at running.                 *)
DecideDrain ==
    /\ wpc = "decide"
    /\ wpc' = IF jobs # <<>> THEN "take" ELSE "exit"
    /\ UNCHANGED <<running, jobs, rpc, spc, posted, executed, atStop>>

(* The job is run but left at the front of the queue.                      *)
TakeNoPop ==
    /\ wpc = "take"
    /\ executed' = Append(executed, Head(jobs))
    /\ wpc' = "run"
    /\ UNCHANGED <<running, jobs, rpc, spc, posted, atStop>>

(* The queue is used as a stack.                                           *)
TakeLast ==
    /\ wpc = "take"
    /\ executed' = Append(executed, jobs[Len(jobs)])
    /\ jobs' = SubSeq(jobs, 1, Len(jobs) - 1)
    /\ wpc' = "run"
    /\ UNCHANGED <<running, rpc, spc, posted, atStop>>

(* Stop only notifies, as ~DocumentManager does, and posts no null job.    *)
StopNotifyOnly ==
    /\ spc = "cleared"
    /\ rpc' = [rpc EXCEPT ![Main] = "notify"]
    /\ spc' = "posted"
    /\ UNCHANGED <<running, jobs, wpc, posted, executed, atStop>>

-----------------------------------------------------------------------------
(* RunLater                                                                *)

(* Lock, push, unlock: the critical section of RunLater.                   *)
Push(t) ==
    /\ rpc[t] = "idle"
    /\ ~WorkerHoldsMutex
    /\ jobs' = Append(jobs, <<t, posted[t] + 1>>)
    /\ posted' = [posted EXCEPT ![t] = @ + 1]
    /\ rpc' = [rpc EXCEPT ![t] = "notify"]

(* A thread calls RunLater: the worker only from inside a job, Main only   *)
(* before it enters Stop.                                                  *)
RunLater(t) ==
    /\ posted[t] < MaxPosts
    /\ t = Worker => wpc = "run"
    /\ t = Main => spc = "up"
    /\ Push(t)
    /\ UNCHANGED <<running, wpc, spc, executed, atStop>>

(* qsync.notify_one(), after the mutex is released.  Without a waiter the  *)
(* notification is gone.                                                   *)
Notify(t) ==
    /\ rpc[t] = "notify"
    /\ rpc' = [rpc EXCEPT ![t] = "idle"]
    /\ wpc' = IF wpc = "blocked" THEN "lock" ELSE wpc
    /\ UNCHANGED <<running, jobs, spc, posted, executed, atStop>>

-----------------------------------------------------------------------------
(* AsyncWorker                                                             *)

Lock ==
    /\ wpc = "lock"
    /\ wpc' = "test"
    /\ UNCHANGED <<running, jobs, rpc, spc, posted, executed, atStop>>

(* The predicate of qsync.wait, read under the mutex.                      *)
Test ==
    /\ wpc = "test"
    /\ wpc' = IF ~running \/ jobs # <<>> THEN "decide" ELSE "wait"
    /\ UNCHANGED <<running, jobs, rpc, spc, posted, executed, atStop>>

(* qsync.wait releases the mutex and blocks, in one step; what is not      *)
(* under the mutex may have changed since the predicate was read.          *)
Block ==
    /\ wpc = "wait"
    /\ wpc' = "blocked"
    /\ UNCHANGED <<running, jobs, rpc, spc, posted, executed, atStop>>

(* A condition variable may wake its waiter without a notification.        *)
SpuriousWake ==
    /\ wpc = "blocked"
    /\ wpc' = "lock"
    /\ UNCHANGED <<running, jobs, rpc, spc, posted, executed, atStop>>

(* if (!running) break, the second read of running in one round.           *)
Decide ==
    /\ wpc = "decide"
    /\ wpc' = IF running THEN "take" ELSE "exit"
    /\ UNCHANGED <<running, jobs, rpc, spc, posted, executed, atStop>>

(* front, pop, unlock and the start of job().                              *)
Take ==
    /\ wpc = "take"
    /\ executed' = Append(executed, Head(jobs))
    /\ jobs' = Tail(jobs)
    /\ wpc' = "run"
    /\ UNCHANGED <<running, rpc, spc, posted, atStop>>

(* job() returns, having finished every RunLater it made.                  *)
JobDone ==
    /\ wpc = "run"
    /\ rpc[Worker] = "idle"
    /\ wpc' = "lock"
    /\ UNCHANGED <<running, jobs, rpc, spc, posted, executed, atStop>>

-----------------------------------------------------------------------------
(* The end of Stop                                                         *)

(* running = false, without the mutex.                                     *)
StopClear ==
    /\ spc = "up"
    /\ rpc[Main] = "idle"
    /\ running' = FALSE
    /\ spc' = "cleared"
    /\ atStop' = Len(executed)
    /\ UNCHANGED <<jobs, wpc, rpc, posted, executed>>

(* RunLater of the null job that triggers the work loop.                   *)
StopPost ==
    /\ spc = "cleared"
    /\ Push(Main)
    /\ spc' = "posted"
    /\ UNCHANGED <<running, wpc, executed, atStop>>

(* worker->join().                                                         *)
StopJoin ==
    /\ spc = "posted"
    /\ rpc[Main] = "idle"
    /\ wpc = "exit"
    /\ spc' = "joined"
    /\ UNCHANGED <<running, jobs, wpc, rpc, posted, executed, atStop>>

-----------------------------------------------------------------------------
(* Every caller has made all its posts and Stop has returned.              *)
Finished ==
    /\ spc = "joined"
    /\ \A t \in Callers : rpc[t] = "idle"
    /\ UNCHANGED vars

WorkerStep == Lock \/ Test \/ Block \/ Decide \/ Take \/ JobDone
StopStep   == StopPost \/ StopJoin

Next ==
    \/ \E t \in Callers : RunLater(t) \/ Notify(t)
    \/ WorkerStep
    \/ SpuriousWake
    \/ StopClear
    \/ StopStep
    \/ Finished

SafeSpec == Init /\ [][Next]_vars

(* Every thread that is able to run does run, and a job returns.  Nobody   *)
(* has to post and nobody has to call Stop; no spurious wake-up is owed.   *)
Fairness ==
    /\ \A t \in Callers : WF_vars(Notify(t))
    /\ WF_vars(WorkerStep)
    /\ WF_vars(StopStep)

Spec == SafeSpec /\ Fairness

-----------------------------------------------------------------------------
(* Properties                                                              *)

(* Every job that was ever pushed, begun or not, in pushing order.         *)
Log == executed \o jobs

(* The jobs a thread posts run in the order it posted them, each at most   *)
(* once and with none skipped: the worker never begins a thread's k-th job *)
(* unless it is the next one of that thread (a resize before the redraw    *)
(* that follows it, AppCanvas::PostResize then Redraw).                    *)
RunsInOrderOnce ==
    \A i \in 1..Len(executed) :
        \A k \in 1..executed[i][2] :
            \E n \in 1..i :
                /\ executed[n] = <<executed[i][1], k>>
                /\ \A m \in 1..Len(executed) :
                      executed[m] = executed[n] => m = n

(* No wake-up is lost: a worker that blocks in qsync.wait with work to do, *)
(* or with running cleared, is always owed a notification (Stop clears     *)
(* running without the mutex; the null job it posts is what saves it).     *)
NoLostWakeup ==
    wpc \in {"wait", "blocked"} /\ (jobs # <<>> \/ ~running) =>
        spc = "cleared" \/ \E t \in Callers : rpc[t] = "notify"

(* Stop does not wait for the queue: once running is cleared, at most the  *)
(* one job for which `if (!running) break' was already passed begins.      *)
AtMostOneJobAfterStop == ~running => Len(executed) <= atStop + 1

(* Take is reached with a job in the queue: front() on an empty std::queue *)
(* would be undefined.                                                     *)
TakeHasJob == wpc = "take" => jobs # <<>>

(* Stop returns: the worker sees running cleared and join() ends.          *)
StopReturns == spc = "cleared" ~> spc = "joined"

(* Unless Stop is called, every job that is posted is eventually begun.    *)
EveryJobRuns ==
    \A t \in Callers : \A k \in 1..MaxPosts :
        posted[t] >= k ~>
            \/ ~running
            \/ \E i \in 1..Len(executed) : executed[i] = <<t, k>>

(* The queue implements the abstract job service.                          *)
Service == INSTANCE JobService WITH
    Jobs <- Job,
    posted <- Log,
    phase <- CASE spc = "up" -> "open"
               [] spc \in {"cleared", "posted"} -> "closing"
               [] spc = "joined" -> "closed"

ServiceSpec     == Service!Spec
ServiceSafeSpec == Service!SafeSpec

=============================================================================
