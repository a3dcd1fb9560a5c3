------------------------------ MODULE JobQueue ------------------------------
(***************************************************************************)
(* The job queue (JobQueue.cpp, JobQueue.h, ClosureCounter.h, Coro.ipp) on *)
(* its pool of workers.  Threads add jobs, from outside and from inside    *)
(* other jobs; a job of a type that is at its limit is deferred; workers   *)
(* run the first job that its limit allows; coroutines leave their thread  *)
(* and are posted again; the owner of the queue stops it, which must wait  *)
(* for all of that, and then the pool.                                     *)
(*                                                                         *)
(* The owner may also change the number of threads while no job is         *)
(* outstanding, as the pool's test does between its batches of tasks.      *)
(***************************************************************************)
EXTENDS Workers

CONSTANTS
    Clients,     \* threads outside the pool that use the queue
    JobTypes,    \* types, which are also priorities: a larger one is served first
    jobLimit,    \* for each type, how many of its jobs may run at once
    Coros,       \* coroutines
    CoroType,    \* the type they are posted as
    None,
    ThreadCount, \* threads of a new pool
    Sizes,       \* sizes it may be changed to
    MaxJobs,     \* bound on the jobs that are not posts of coroutines
    MaxResizes   \* bound on the changes of size

VARIABLES
    m_jobSet,         \* jobs waiting
    m_lastJob,        \* number of jobs ever added
    data,             \* for each type, how many are waiting, running, deferred
    m_processCount,   \* workers between getNextJob and the end of processTask
    closureCount,     \* live copies of the functions of jobs
    waitForClosures,  \* the queue has been joined: no more jobs
    stopped,
    job,              \* the job each worker runs
    arg,              \* the job or the coroutine a thread is calling with
    coro,             \* the coroutines
    mutex,            \* for each coroutine, the thread that holds its mutex_
    plain,            \* jobs that are not posts of coroutines, so far
    resizes           \* changes of size so far

countVars == <<m_jobSet, m_lastJob, data, m_processCount>>
closureVars == <<closureCount, waitForClosures, stopped>>
coroVars == <<coro, mutex>>
boundVars == <<plain, resizes>>
vars == <<pc, poolVars, countVars, closureVars, job, arg, coroVars, boundVars>>

Callers == Threads \cup Clients

(* A job; its place in the queue is decided when it gets there. *)
NewJob(type, c) == [type |-> type, coro |-> c, index |-> 0]

Init ==
    /\ PoolInit
    /\ pc = [t \in Callers \cup {Owner} |->
               IF t \in Threads THEN "none" ELSE IF t \in Clients THEN "free" ELSE "make"]
    /\ m_jobSet = {} /\ m_lastJob = 0 /\ m_processCount = 0
    /\ data = [t \in JobTypes |-> [waiting |-> 0, running |-> 0, deferred |-> 0]]
    /\ closureCount = 0 /\ waitForClosures = FALSE /\ stopped = FALSE
    /\ job = [w \in Threads |-> None]
    /\ arg = [t \in Callers |-> None]
    /\ coro = [c \in Coros |-> [status |-> "none", phase |-> "new", armed |-> FALSE]]
    /\ mutex = [c \in Coros |-> None]
    /\ plain = 0 /\ resizes = 0

-----------------------------------------------------------------------------
(* Code outside the queue runs in a client, or in a worker that runs an    *)
(* ordinary job.  It uses the queue while the queue exists, and not while  *)
(* the owner changes the number of threads.                                *)
Free(t) ==
    /\ pc[t] \in {"free", "body"}
    /\ pc[Owner] \in {"up", "join", "joining", "drain", "draining", "stopped"}
Return(t) == IF t \in Clients THEN "free"
             ELSE IF job[t].coro = None THEN "body" ELSE "destroy"

(* addJob, up to and including jobCounter_.wrap: the caller holds a copy.  *)
Wrap(t, j) ==
    /\ ~waitForClosures
    /\ closureCount' = closureCount + 1
    /\ arg' = [arg EXCEPT ![t] = j]
    /\ Go(t, "wrapped")

AddJob(t, type) ==
    /\ Free(t) /\ plain < MaxJobs
    /\ Wrap(t, NewJob(type, None))
    /\ plain' = plain + 1
    /\ UNCHANGED <<poolVars, countVars, waitForClosures, stopped, job, coroVars, resizes>>

(* Mutant: a type at its limit takes one more. *)
BelowLimitOrAt(d, limit) == d.waiting + d.running <= limit

BelowLimit(d, limit) == d.waiting + d.running < limit

(* Mutant: the copy that the queue makes is not counted. *)
CopyUncounted == UNCHANGED closureCount

(* The queue has its own copy of the function. *)
CopyClosure == closureCount' = closureCount + 1

addRefCountedJob(t) ==
    LET type == arg[t].type
        below == BelowLimit(data[type], jobLimit[type])
    IN  /\ pc[t] = "wrapped"
        /\ m_lastJob' = m_lastJob + 1
        /\ m_jobSet' = m_jobSet \cup {[arg[t] EXCEPT !.index = m_lastJob']}
        /\ CopyClosure
        /\ IF below THEN addTask ELSE UNCHANGED m_semaphore
        /\ data' = [data EXCEPT ![type].waiting = @ + 1,
                                ![type].deferred = IF below THEN @ ELSE @ + 1]
        /\ Go(t, "release")
        /\ UNCHANGED <<sizeVars, pauseVars, wakeVars, m_processCount, waitForClosures,
                       stopped, job, arg, coroVars, boundVars>>

(* Mutant: the last copy goes without a notification. *)
DropClosureSilently(t, label) ==
    /\ closureCount' = closureCount - 1
    /\ Go(t, label)

(* ClosureCounter::operator--; the last copy wakes join(). *)
DropClosure(t, label) ==
    /\ closureCount' = closureCount - 1
    /\ pc' = [pc EXCEPT ![t] = label,
                        ![Owner] = IF closureCount' = 0 /\ waitForClosures /\ @ = "joining"
                                   THEN "join" ELSE @]

(* addJob returns and the caller's copy is destroyed. *)
AddReturns(t) ==
    /\ pc[t] = "release"
    /\ DropClosure(t, Return(t))
    /\ arg' = [arg EXCEPT ![t] = None]
    /\ UNCHANGED <<poolVars, countVars, waitForClosures, stopped, job, coroVars, boundVars>>

-----------------------------------------------------------------------------
(* Coroutines.  The body of one arranges for somebody to post it again and *)
(* then yields; that somebody may be faster than the yield.                *)

(* postCoro: a new coroutine, suspended at the start of its body, is       *)
(* posted: a job that resumes it.  If there can be no job the coroutine is *)
(* given up (expectEarlyExit).                                             *)
PostCoro(t, c) ==
    /\ t \in Clients /\ Free(t) /\ coro[c].status = "none"
    /\ IF waitForClosures
       THEN /\ coro' = [coro EXCEPT ![c].status = "finished"]
            /\ UNCHANGED <<pc, closureCount, arg>>
       ELSE /\ coro' = [coro EXCEPT ![c].status = "suspended"]
            /\ Wrap(t, NewJob(CoroType, c))
    /\ UNCHANGED <<poolVars, countVars, waitForClosures, stopped, job, mutex, boundVars>>

(* Whoever was to wake the coroutine does so: with post(), and if that     *)
(* fails by resuming it on its own thread.                                 *)
WakeCoro(t, c) ==
    /\ Free(t) /\ coro[c].armed
    /\ coro' = [coro EXCEPT ![c].armed = FALSE]
    /\ IF waitForClosures
       THEN /\ arg' = [arg EXCEPT ![t] = c]
            /\ Go(t, "resume")
            /\ UNCHANGED closureCount
       ELSE Wrap(t, NewJob(CoroType, c))
    /\ UNCHANGED <<poolVars, countVars, waitForClosures, stopped, job, mutex, boundVars>>

(* The body of a coroutine arranges to be woken and then yields, once (as  *)
(* that of ripple_path_find does); when it is back it runs to its end.     *)
Entered(r) ==
    IF r.phase = "new"
    THEN [status |-> "running", phase |-> "leaving", armed |-> TRUE]
    ELSE [r EXCEPT !.status = "running"]

(* Mutant: the coroutine is entered without taking its mutex. *)
EnterUnlocked(t) ==
    LET c == arg[t] IN
    /\ pc[t] = "resume"
    /\ mutex' = [mutex EXCEPT ![c] = t]
    /\ coro' = [coro EXCEPT ![c] = Entered(@)]
    /\ Go(t, "coro")
    /\ UNCHANGED <<poolVars, countVars, closureVars, job, arg, boundVars>>

(* resume(): waits on mutex_ until the coroutine has left its thread. *)
Enter(t) ==
    LET c == arg[t] IN
    /\ pc[t] = "resume" /\ mutex[c] = None
    /\ mutex' = [mutex EXCEPT ![c] = t]
    /\ coro' = [coro EXCEPT ![c] = Entered(@)]
    /\ Go(t, "coro")
    /\ UNCHANGED <<poolVars, countVars, closureVars, job, arg, boundVars>>

LeaveCoro(t) ==
    /\ mutex' = [mutex EXCEPT ![arg[t]] = None]
    /\ arg' = [arg EXCEPT ![t] = None]
    /\ Go(t, Return(t))
    /\ UNCHANGED <<poolVars, countVars, closureVars, job, boundVars>>

Yield(t) ==
    LET c == arg[t] IN
    /\ pc[t] = "coro" /\ coro[c].phase = "leaving"
    /\ coro' = [coro EXCEPT ![c].status = "suspended", ![c].phase = "back"]
    /\ LeaveCoro(t)

Finish(t) ==
    LET c == arg[t] IN
    /\ pc[t] = "coro" /\ coro[c].phase = "back"
    /\ coro' = [coro EXCEPT ![c].status = "finished"]
    /\ LeaveCoro(t)

-----------------------------------------------------------------------------
(* processTask, on a worker.                                               *)

Before(i, j) == i.type > j.type \/ (i.type = j.type /\ i.index < j.index)

(* Jobs that getNextJob may pick: those of a type below its limit. *)
Runnable == {j \in m_jobSet : data[j.type].running < jobLimit[j.type]}

getNextJob(w) ==
    /\ pc[w] = "processTask"
    /\ \E j \in Runnable :
         /\ \A i \in Runnable \ {j} : Before(j, i)
         /\ m_jobSet' = m_jobSet \ {j}
         /\ data' = [data EXCEPT ![j.type].waiting = @ - 1, ![j.type].running = @ + 1]
         /\ job' = [job EXCEPT ![w] = j]
         /\ arg' = [arg EXCEPT ![w] = j.coro]
         /\ Go(w, IF j.coro = None THEN "body" ELSE "resume")
    /\ m_processCount' = m_processCount + 1
    /\ UNCHANGED <<poolVars, m_lastJob, closureVars, coroVars, boundVars>>

(* The job is destroyed before the queue hears of its end. *)
DestroyJob(w) ==
    /\ pc[w] \in {"body", "destroy"}
    /\ DropClosure(w, "finish")
    /\ UNCHANGED <<poolVars, countVars, waitForClosures, stopped, job, arg, coroVars, boundVars>>

(* Mutant: the last deferred job of a type is not queued. *)
DeferredTaskButOne(d) == d.deferred > 1

(* A job that is over makes room for one that was deferred. *)
DeferredTask(d) == d.deferred > 0

(* A type's counts when one of its jobs is over. *)
Finished(d) ==
    [d EXCEPT !.running = @ - 1, !.deferred = IF DeferredTask(d) THEN @ - 1 ELSE @]

(* finishJob: a deferred job gets the slot, and the last job wakes stop(). *)
finishJob(w) ==
    LET type == job[w].type IN
    /\ pc[w] = "finish"
    /\ IF DeferredTask(data[type]) THEN addTask ELSE UNCHANGED m_semaphore
    /\ data' = [data EXCEPT ![type] = Finished(@)]
    /\ m_processCount' = m_processCount - 1
    /\ job' = [job EXCEPT ![w] = None]
    /\ pc' = [pc EXCEPT ![w] = "idle",
                        ![Owner] = IF m_processCount' = 0 /\ m_jobSet = {} /\ @ = "draining"
                                   THEN "drain" ELSE @]
    /\ UNCHANGED <<sizeVars, pauseVars, wakeVars, m_jobSet, m_lastJob, closureVars, arg,
                   coroVars, boundVars>>

-----------------------------------------------------------------------------
(* The owner: makes the pool, changes its size, stops the queue (stop()),  *)
(* and then destroys the pool.                                             *)
queueVars == <<countVars, closureVars, job, arg, coroVars>>

MakePool ==
    /\ pc[Owner] = "make"
    /\ setNumberOfThreads(ThreadCount)
    /\ UNCHANGED <<m_semaphore, m_numberOfThreads, pauseVars, wakeVars, queueVars, boundVars>>

(* Mutant: stop() does not wait for the workers that are in processTask. *)
DrainedEarly == TRUE

Drained == m_processCount = 0 /\ m_jobSet = {}

Resize(n) ==
    /\ pc[Owner] = "up" /\ resizes < MaxResizes
    /\ n # m_numberOfThreads
    /\ Drained /\ \A t \in Clients : pc[t] = "free"
    /\ \A c \in Coros : coro[c].status \in {"none", "finished"}
    /\ setNumberOfThreads(n)
    /\ resizes' = resizes + 1
    /\ UNCHANGED <<m_semaphore, m_numberOfThreads, pauseVars, wakeVars, queueVars, plain>>

(* ClosureCounter::join *)
Join ==
    /\ pc[Owner] \in {"up", "join"}
    /\ waitForClosures' = TRUE
    /\ Go(Owner, IF closureCount > 0 THEN "joining" ELSE "drain")
    /\ UNCHANGED <<poolVars, countVars, closureCount, stopped, job, arg, coroVars, boundVars>>

Drain ==
    /\ pc[Owner] = "drain"
    /\ stopped' = Drained
    /\ Go(Owner, IF Drained THEN "stopped" ELSE "draining")
    /\ UNCHANGED <<poolVars, countVars, closureCount, waitForClosures, job, arg, coroVars,
                   boundVars>>

(* The application destroys the queue when everything that uses it has     *)
(* stopped.                                                                *)
StopPool ==
    /\ pc[Owner] = "stopped"
    /\ \A t \in Clients : pc[t] = "free"
    /\ setNumberOfThreads(0)
    /\ UNCHANGED <<m_semaphore, m_numberOfThreads, pauseVars, wakeVars, queueVars, boundVars>>

-----------------------------------------------------------------------------
CallerStep(t) ==
    \/ \E type \in JobTypes \ {CoroType} : AddJob(t, type)
    \/ \E c \in Coros : PostCoro(t, c) \/ WakeCoro(t, c)

(* What a thread does once it has begun. *)
CallStep(t) ==
    \/ addRefCountedJob(t) \/ AddReturns(t) \/ Enter(t) \/ Yield(t) \/ Finish(t)

WorkerStep(w) ==
    \/ WorkerLoop(w) /\ UNCHANGED <<queueVars, boundVars>>
    \/ getNextJob(w) \/ DestroyJob(w) \/ finishJob(w)

OwnerStep ==
    \/ MakePool \/ Drain \/ StopPool
    \/ pc[Owner] = "join" /\ Join
    \/ OwnerResizes /\ UNCHANGED <<queueVars, boundVars>>

Next ==
    \/ \E t \in Callers : CallerStep(t) \/ CallStep(t)
    \/ \E w \in Threads : WorkerStep(w)
    \/ OwnerStep
    \/ pc[Owner] = "up" /\ Join
    \/ \E n \in Sizes : Resize(n)

(* Threads that can run do run, and jobs and coroutine bodies end.  That   *)
(* anybody adds a job, wakes a coroutine, resizes or stops the queue is    *)
(* not assumed.                                                            *)
Fairness ==
    /\ \A t \in Callers : WF_vars(CallStep(t))
    /\ \A w \in Threads : WF_vars(WorkerStep(w))
    /\ WF_vars(OwnerStep)

Spec == Init /\ [][Next]_vars /\ Fairness

-----------------------------------------------------------------------------
(* Every counter of the queue and of its workers is in its range: no more  *)
(* jobs of a type run than its limit, and closures and tasks are never     *)
(* given back twice.                                                       *)
TypeOK ==
    /\ \A t \in JobTypes : data[t] \in [waiting : Nat, running : 0..jobLimit[t], deferred : Nat]
    /\ m_semaphore \in Nat /\ m_activeCount \in 0..Cardinality(Threads)
    /\ m_processCount \in 0..Cardinality(Threads)
    /\ closureCount \in Nat
    /\ \A t \in Callers : arg[t] \in Coros \cup {None} \cup [type : JobTypes, index : Nat, coro : Coros \cup {None}]
    /\ \A c \in Coros : mutex[c] \in Callers \cup {None}

InTask == {w \in Threads : pc[w] = "processTask"}

(* processTask: "A RunnableJob must exist in the JobSet".  Every worker    *)
(* that has decided to process a task finds a job below its limit, also    *)
(* when several decide at once; otherwise getNextJob would erase end().    *)
EveryTaskHasItsJob ==
    /\ TypeOK
    /\ \E J \in SUBSET m_jobSet :
         /\ Cardinality(J) = Cardinality(InTask)
         /\ \A t \in JobTypes :
              Cardinality({j \in J : j.type = t}) + data[t].running <= jobLimit[t]

(* Nothing is left of the jobs: none queued, none running, no function of  *)
(* one alive, and nobody can add another.                                  *)
Over ==
    /\ m_jobSet = {} /\ m_processCount = 0 /\ closureCount = 0 /\ waitForClosures
    /\ \A t \in Callers : pc[t] \notin {"wrapped", "release"}
    /\ \A w \in Threads : job[w] = None

(* A coroutine is never on two threads, and it is entered only when it is  *)
(* suspended: a post that overtakes the yield waits.                       *)
CoroOnOneThread ==
    \A c \in Coros :
        LET inside == {t \in Callers : pc[t] = "coro" /\ arg[t] = c} IN
        /\ Cardinality(inside) <= 1
        /\ coro[c].status = "running" <=> inside # {}

(* Every job that is queued runs, deferred or not, whatever the pool's     *)
(* size: there are finitely many, so the queue empties again.              *)
EveryJobRuns == m_jobSet # {} ~> m_jobSet = {}

(* When stop() has returned, all is over and stays so, and stop() and the  *)
(* destructor of the pool come to an end.                                  *)
StopEnds ==
    /\ [](stopped => Over)
    /\ waitForClosures ~> pc[Owner] = "done"

(* The pool settles on the number of threads that was asked for last.      *)
PoolSettles == <>[](m_activeCount = m_numberOfThreads)
=============================================================================
