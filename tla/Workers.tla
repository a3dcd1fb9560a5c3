------------------------------ MODULE Workers ------------------------------
(***************************************************************************)
(* The thread pool of the job queue (Workers.cpp): a semaphore that counts *)
(* pending tasks and pause requests alike, and threads that take a unit of *)
(* it and then find out which of the two it was.  A step is what a thread  *)
(* does between two accesses to shared state: one atomic operation, or one *)
(* block under a mutex.                                                    *)
(***************************************************************************)
EXTENDS Integers, FiniteSets

CONSTANTS Threads,  \* worker threads that can be created, numbered
          Owner     \* the thread that makes, resizes and stops the pool

VARIABLES
    pc,                 \* where each thread is
    m_semaphore,        \* pending tasks and pause requests
    m_numberOfThreads,  \* how many we want active now
    m_pauseCount,       \* how many threads need to pause now
    m_activeCount,      \* to know when all are paused
    m_allPaused,
    m_paused,           \* workers that a larger pool takes back
    wakeCount,          \* for each worker, how many times to un-pause
    shouldExit,         \* workers whose destructor has run
    wanted              \* the argument of setNumberOfThreads, and what is left of it

sizeVars == <<m_numberOfThreads, wanted>>
pauseVars == <<m_pauseCount, m_activeCount, m_allPaused, m_paused>>
wakeVars == <<wakeCount, shouldExit>>
poolVars == <<m_semaphore, sizeVars, pauseVars, wakeVars>>

Go(t, label) == pc' = [pc EXCEPT ![t] = label]

(* Before the constructor of Workers. *)
PoolInit ==
    /\ m_semaphore = 0
    /\ m_numberOfThreads = 0
    /\ m_pauseCount = 0
    /\ m_activeCount = 0
    /\ m_allPaused = TRUE
    /\ m_paused = {}
    /\ wakeCount = [w \in Threads |-> 0]
    /\ shouldExit = {}
    /\ wanted = [number |-> 0, left |-> 0]

addTask == m_semaphore' = m_semaphore + 1

-----------------------------------------------------------------------------
(* Worker::run, step by step.                                              *)

Activate(w) ==
    /\ pc[w] = "start"
    /\ m_activeCount' = m_activeCount + 1
    /\ Go(w, IF m_activeCount' = 1 THEN "first" ELSE "idle")
    /\ UNCHANGED <<m_semaphore, sizeVars, m_pauseCount, m_allPaused, m_paused, wakeVars>>

ResetAllPaused(w) ==
    /\ pc[w] = "first"
    /\ m_allPaused' = FALSE
    /\ Go(w, "idle")
    /\ UNCHANGED <<m_semaphore, sizeVars, m_pauseCount, m_activeCount, m_paused, wakeVars>>

(* m_semaphore.wait() *)
TakeTask(w) ==
    /\ pc[w] = "idle"
    /\ m_semaphore > 0
    /\ m_semaphore' = m_semaphore - 1
    /\ Go(w, "woken")
    /\ UNCHANGED <<sizeVars, pauseVars, wakeVars>>

LoadPauseCount(w) ==
    /\ pc[w] = "woken"
    /\ Go(w, IF m_pauseCount > 0 THEN "tryPause" ELSE "processTask")
    /\ UNCHANGED poolVars

(* Mutant: the pause is taken without looking at what the decrement left. *)
TryPauseBlindly(w) ==
    /\ pc[w] = "tryPause"
    /\ m_pauseCount' = m_pauseCount - 1
    /\ Go(w, "pause")
    /\ UNCHANGED <<m_semaphore, sizeVars, m_activeCount, m_allPaused, m_paused, wakeVars>>

TryPause(w) ==
    /\ pc[w] = "tryPause"
    /\ m_pauseCount' = m_pauseCount - 1
    /\ Go(w, IF m_pauseCount' >= 0 THEN "pause" ELSE "undo")
    /\ UNCHANGED <<m_semaphore, sizeVars, m_activeCount, m_allPaused, m_paused, wakeVars>>

UndoPause(w) ==
    /\ pc[w] = "undo"
    /\ m_pauseCount' = m_pauseCount + 1
    /\ Go(w, "processTask")
    /\ UNCHANGED <<m_semaphore, sizeVars, m_activeCount, m_allPaused, m_paused, wakeVars>>

PushPaused(w) ==
    /\ pc[w] = "pause"
    /\ m_paused' = m_paused \cup {w}
    /\ Go(w, "deactivate")
    /\ UNCHANGED <<m_semaphore, sizeVars, m_pauseCount, m_activeCount, m_allPaused, wakeVars>>

Deactivate(w) ==
    /\ pc[w] = "deactivate"
    /\ m_activeCount' = m_activeCount - 1
    /\ Go(w, IF m_activeCount' = 0 THEN "last" ELSE "paused")
    /\ UNCHANGED <<m_semaphore, sizeVars, m_pauseCount, m_allPaused, m_paused, wakeVars>>

SetAllPaused(w) ==
    /\ pc[w] = "last"
    /\ m_allPaused' = TRUE
    /\ Go(w, "paused")
    /\ UNCHANGED <<m_semaphore, sizeVars, m_pauseCount, m_activeCount, m_paused, wakeVars>>

(* A paused worker is woken by notify() or by its destructor. *)
Wake(w) ==
    /\ pc[w] = "paused"
    /\ wakeCount[w] > 0
    /\ wakeCount' = [wakeCount EXCEPT ![w] = @ - 1]
    /\ Go(w, IF w \in shouldExit THEN "gone" ELSE "start")
    /\ UNCHANGED <<m_semaphore, sizeVars, pauseVars, shouldExit>>

WorkerLoop(w) ==
    \/ Activate(w) \/ ResetAllPaused(w) \/ TakeTask(w) \/ LoadPauseCount(w)
    \/ TryPause(w) \/ UndoPause(w) \/ PushPaused(w) \/ Deactivate(w)
    \/ SetAllPaused(w) \/ Wake(w)

-----------------------------------------------------------------------------
(* setNumberOfThreads, run by the owner of the pool: one step for each     *)
(* worker to be added, two for each to be paused.                          *)

setNumberOfThreads(n) ==
    /\ wanted' = [number |-> n,
                  left |-> IF n > m_numberOfThreads THEN n - m_numberOfThreads
                                                    ELSE m_numberOfThreads - n]
    /\ Go(Owner, "resize")

AddWorker ==
    /\ pc[Owner] = "resize"
    /\ wanted.number > m_numberOfThreads /\ wanted.left > 0
    /\ wanted' = [wanted EXCEPT !.left = @ - 1]
    /\ \/ \E w \in m_paused :
            /\ m_paused' = m_paused \ {w}
            /\ wakeCount' = [wakeCount EXCEPT ![w] = @ + 1]
            /\ UNCHANGED pc
       \/ /\ m_paused = {}
          /\ \E w \in Threads :
               /\ pc[w] = "none" /\ \A v \in Threads : v < w => pc[v] # "none"
               /\ Go(w, "start")
          /\ UNCHANGED <<m_paused, wakeCount>>
    /\ UNCHANGED <<m_semaphore, m_numberOfThreads, m_pauseCount, m_activeCount,
                   m_allPaused, shouldExit>>

RequestPause ==
    /\ pc[Owner] = "resize"
    /\ wanted.number < m_numberOfThreads /\ wanted.left > 0
    /\ m_pauseCount' = m_pauseCount + 1
    /\ Go(Owner, "notify")
    /\ UNCHANGED <<m_semaphore, sizeVars, m_activeCount, m_allPaused, m_paused, wakeVars>>

(* Pausing a thread counts as one "internal task". *)
NotifyPause ==
    /\ pc[Owner] = "notify"
    /\ m_semaphore' = m_semaphore + 1
    /\ wanted' = [wanted EXCEPT !.left = @ - 1]
    /\ Go(Owner, "resize")
    /\ UNCHANGED <<m_numberOfThreads, pauseVars, wakeVars>>

Resized ==
    /\ pc[Owner] = "resize"
    /\ wanted.left = 0
    /\ m_numberOfThreads' = wanted.number
    /\ Go(Owner, IF wanted.number = 0 THEN "waitPaused" ELSE "up")
    /\ UNCHANGED <<m_semaphore, wanted, pauseVars, wakeVars>>

(* The rest of Workers::stop and of ~Workers: wait until all are paused,   *)
(* then destroy the workers one by one.                                    *)
WaitAllPaused ==
    /\ pc[Owner] = "waitPaused"
    /\ m_allPaused
    /\ Go(Owner, "delete")
    /\ UNCHANGED poolVars

DeleteWorker(w) ==
    /\ pc[Owner] = "delete"
    /\ pc[w] # "none" /\ w \notin shouldExit
    /\ \A v \in shouldExit : pc[v] = "gone"
    /\ shouldExit' = shouldExit \cup {w}
    /\ wakeCount' = [wakeCount EXCEPT ![w] = @ + 1]
    /\ UNCHANGED <<pc, m_semaphore, sizeVars, pauseVars>>

Deleted ==
    /\ pc[Owner] = "delete"
    /\ \A w \in Threads : pc[w] \in {"none", "gone"}
    /\ Go(Owner, "done")
    /\ UNCHANGED poolVars

OwnerResizes ==
    \/ AddWorker \/ RequestPause \/ NotifyPause \/ Resized
    \/ WaitAllPaused \/ (\E w \in Threads : DeleteWorker(w)) \/ Deleted
=============================================================================
