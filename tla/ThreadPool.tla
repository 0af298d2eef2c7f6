----------------------------- MODULE ThreadPool -----------------------------
(***************************************************************************)
(* The thread pool of utils/threading.h and utils/threading.cpp: worker    *)
(* threads that run ThreadLoop, and client threads that call QueueJob,     *)
(* FinishQueue, BindThread, UnbindThread, InitThreads and EndThreads.      *)
(*                                                                         *)
(* An action is one access to what the threads share: a lock taken or      *)
(* released, a semaphore waited on or posted, a field read or written.     *)
(* What is done with a list between its lock and unlock is one action,     *)
(* except in DoPopFront, which takes a second lock in between.             *)
(*                                                                         *)
(* A list of jobs is the sequence that JobDeque promises and LList keeps;  *)
(* NoJob stands for Job(), whose number is ~0.  A mutex is the thread that *)
(* locked it, or Nobody.  Unlocking is possible for every thread, whoever  *)
(* holds the mutex: ThreadLoop unlocks jLock when it has not locked it,    *)
(* and a default pthread mutex just becomes free.                          *)
(*                                                                         *)
(* isRunning and queueEmpty are written and never read for a decision, and *)
(* are left out.                                                           *)
(***************************************************************************)
EXTENDS Integers, Sequences, FiniteSets

CONSTANTS
    NumThreads,     \* NUM_THREADS
    Clients,        \* the threads that call the pool
    Jobs,           \* each is queued at most once
    Child,          \* Child[j]: the job that j queues when it runs, or NoJob
    ByRef,          \* jobs queued with QueueJobRef, whose argument is not copied
    Priority,       \* jobs queued with priority
    Main,           \* the list `jobs` of threading.cpp
    BoundQueues,    \* the lists clients pass to BindThread
    UninitQueues,   \* those of them that are not in zeroed memory
    Calls,          \* the calls clients make besides InitThreads and QueueJob
    NoJob, Nobody,
    MaxInits,       \* bound: InitThreads is called this often
    MaxTokens       \* bound: BindThread is not called above this semaphore count

Workers == 0 .. NumThreads - 1

Threads == Clients \union Workers

Queues == {Main} \union BoundQueues

ASSUME ThreadPoolAssumption ==
    /\ NumThreads \in Nat \ {0}
    /\ IsFiniteSet(Clients)
    /\ Clients \intersect Int = {}
    /\ NoJob \notin Jobs
    /\ Child \in [Jobs -> Jobs \union {NoJob}]
    /\ ByRef \subseteq Jobs
    /\ Priority \subseteq Jobs
    /\ Calls \subseteq {"finish", "execute", "bind", "unbind", "end"}
    /\ UninitQueues \subseteq BoundQueues
    /\ Main \notin BoundQueues
    /\ Nobody \notin Threads
    /\ MaxInits \in Nat
    /\ MaxTokens \in Nat

VARIABLES
    threads,        \* whether the array `threads` is allocated
    inits,          \* how often InitThreads was called
    queue,          \* queue[q]: the jobs of list q from its front
    listLock,       \* LList::lock
    sem,            \* LList::sem
    quit,           \* LList::quit
    jobsOf,         \* JobThread::jobs
    jLock,          \* JobThread::jLock
    shouldQuit,     \* JobThread::shouldQuit
    pc,             \* the step a thread is at
    job,            \* the local variable `job`, NoJob once it was run
    list,           \* tJobs, jobList, or the list being posted
    idx,            \* the loop counter of a client's call
    copies,         \* the arguments QueueJob allocated and nobody freed
    submitted,      \* history: the jobs that were queued,
    owed,           \*   by which client they were,
    done,           \*   the jobs that were run,
    dropped         \*   the jobs a worker left with when it should quit

poolVars == <<threads, inits>>
listVars == <<queue, listLock, sem, quit>>
workerVars == <<jobsOf, jLock, shouldQuit>>
localVars == <<job, list, idx>>
jobVars == <<copies, submitted, owed, done, dropped>>

vars == <<poolVars, listVars, workerVars, pc, localVars, jobVars>>

Init ==
    /\ threads = FALSE
    /\ inits = 0
    /\ queue = [q \in Queues |-> <<>>]
    /\ listLock = [q \in Queues |-> Nobody]
    /\ sem = [q \in Queues |-> 0]
    /\ quit \in [Queues -> BOOLEAN]     \* LList() does not set it
    /\ \A q \in Queues \ UninitQueues : ~quit[q]
    /\ jobsOf = [w \in Workers |-> Main]
    /\ jLock = [w \in Workers |-> Nobody]
    /\ shouldQuit = [w \in Workers |-> FALSE]
    /\ pc = [t \in Threads |-> IF t \in Workers THEN "off" ELSE "idle"]
    /\ job = [t \in Threads |-> NoJob]
    /\ list = [t \in Threads |-> Main]
    /\ idx = [c \in Clients |-> 0]
    /\ copies = {}
    /\ submitted = {}
    /\ owed = [c \in Clients |-> {}]
    /\ done = {}
    /\ dropped = {}

Goto(t, from, to) == pc[t] = from /\ pc' = [pc EXCEPT ![t] = to]

Post(q) == sem' = [sem EXCEPT ![q] = @ + 1]

-----------------------------------------------------------------------------
(* The list of jobs.                                                       *)

(* Enqueue up to its unlock, and the copy QueueJob makes before it.        *)
Enqueue(j, q) ==
    /\ listLock[q] = Nobody
    /\ queue' = [queue EXCEPT ![q] = IF j \in Priority THEN <<j>> \o @
                                                       ELSE Append(@, j)]
    /\ submitted' = submitted \union {j}
    /\ copies' = IF j \in ByRef THEN copies ELSE copies \union {j}

(* Mutant of TakeToken: a token is taken that nobody posted.               *)
TakeTokenAnyway(t) == sem' = [sem EXCEPT ![list[t]] = @ - 1]

(* sem.Wait() of PopFront and sem.TimedWait(0) of TryPopFront, when the    *)
(* count is not 0.                                                         *)
TakeToken(t) ==
    /\ sem[list[t]] > 0
    /\ sem' = [sem EXCEPT ![list[t]] = @ - 1]

(* Mutants of Unlink: front is not moved on; front becomes null.           *)
UnlinkKept(t) ==
    /\ queue[list[t]] # <<>>
    /\ job' = [job EXCEPT ![t] = Head(queue[list[t]])]
    /\ listLock' = [listLock EXCEPT ![list[t]] = Nobody]
    /\ UNCHANGED queue

UnlinkAll(t) ==
    /\ queue[list[t]] # <<>>
    /\ job' = [job EXCEPT ![t] = Head(queue[list[t]])]
    /\ queue' = [queue EXCEPT ![list[t]] = <<>>]
    /\ listLock' = [listLock EXCEPT ![list[t]] = Nobody]

(* The front of thread t's list leaves it; lock, which t may hold, is      *)
(* released.                                                               *)
Unlink(t) ==
    /\ queue[list[t]] # <<>>
    /\ job' = [job EXCEPT ![t] = Head(queue[list[t]])]
    /\ queue' = [queue EXCEPT ![list[t]] = Tail(@)]
    /\ listLock' = [listLock EXCEPT ![list[t]] = Nobody]

-----------------------------------------------------------------------------
(* RunJob, on a worker and on a client in FinishQueue(true).               *)

(* The job's function queues another job.                                  *)
Spawn(t) ==
    /\ Goto(t, "run", "run_post")
    /\ Child[job[t]] \in Jobs \ submitted
    /\ Enqueue(Child[job[t]], Main)
    /\ UNCHANGED <<poolVars, listLock, sem, quit, workerVars, localVars,
                   owed, done, dropped>>

(* Mutant of PostSpawned: no token for the new job.                        *)
PostSpawnedNot(t) ==
    /\ Goto(t, "run_post", "run")
    /\ UNCHANGED <<poolVars, listVars, workerVars, localVars, jobVars>>

PostSpawned(t) ==
    /\ Goto(t, "run_post", "run")
    /\ Post(Main)
    /\ UNCHANGED <<poolVars, queue, listLock, quit, workerVars, localVars, jobVars>>

(* Mutant of RunJob: the copy of the argument is not freed.                *)
RunJobLeaks(t) ==
    /\ Goto(t, "run", IF t \in Workers THEN "reload" ELSE "fq_try")
    /\ Child[job[t]] \notin Jobs \ submitted
    /\ done' = done \union {job[t]}
    /\ job' = [job EXCEPT ![t] = NoJob]
    /\ UNCHANGED <<poolVars, listVars, workerVars, list, idx,
                   copies, submitted, owed, dropped>>

(* The function returns, and a copied argument is freed.                   *)
RunJob(t) ==
    /\ Goto(t, "run", IF t \in Workers THEN "reload" ELSE "fq_try")
    /\ Child[job[t]] \notin Jobs \ submitted
    /\ done' = done \union {job[t]}
    /\ copies' = IF job[t] \in ByRef THEN copies ELSE copies \ {job[t]}
    /\ job' = [job EXCEPT ![t] = NoJob]
    /\ UNCHANGED <<poolVars, listVars, workerVars, list, idx,
                   submitted, owed, dropped>>

-----------------------------------------------------------------------------
(* ThreadLoop.                                                             *)

(* while (!thread->shouldQuit), and whether there is a job to run.         *)
CheckQuit(w) ==
    /\ Goto(w, "check", CASE shouldQuit[w]                   -> "done"
                          [] ~shouldQuit[w] /\ job[w] # NoJob -> "run"
                          [] OTHER                           -> "reload")
    /\ dropped' = IF shouldQuit[w] THEN dropped \union ({job[w]} \ {NoJob})
                                   ELSE dropped
    /\ job' = IF shouldQuit[w] THEN [job EXCEPT ![w] = NoJob] ELSE job
    /\ UNCHANGED <<poolVars, listVars, workerVars, list, idx,
                   copies, submitted, owed, done>>

(* tJobs = thread->jobs                                                    *)
ReloadList(w) ==
    /\ Goto(w, "reload", "unlock")
    /\ list' = [list EXCEPT ![w] = jobsOf[w]]
    /\ UNCHANGED <<poolVars, listVars, workerVars, job, idx, jobVars>>

(* thread->jLock->unlock(), whether or not the worker holds it.            *)
UnlockJob(w) ==
    /\ Goto(w, "unlock", "wait")
    /\ jLock' = [jLock EXCEPT ![w] = Nobody]
    /\ UNCHANGED <<poolVars, listVars, jobsOf, shouldQuit, localVars, jobVars>>

WaitForJob(w) ==
    /\ Goto(w, "wait", "woken")
    /\ TakeToken(w)
    /\ UNCHANGED <<poolVars, queue, listLock, quit, workerVars, localVars, jobVars>>

(* PopFront's early return: the token is passed on.                        *)
PassOnQuit(w) ==
    /\ Goto(w, "woken", "check")
    /\ quit[list[w]]
    /\ Post(list[w])
    /\ UNCHANGED <<poolVars, queue, listLock, quit, workerVars, localVars, jobVars>>

GoOnToPop(w) ==
    /\ Goto(w, "woken", "poplock")
    /\ ~quit[list[w]]
    /\ UNCHANGED <<poolVars, listVars, workerVars, localVars, jobVars>>

(* DoPopFront on an empty list: Job() is returned and jLock not taken.     *)
PopNothing(w) ==
    /\ Goto(w, "poplock", "check")
    /\ listLock[list[w]] = Nobody
    /\ queue[list[w]] = <<>>
    /\ UNCHANGED <<poolVars, listVars, workerVars, localVars, jobVars>>

(* Mutant of HoldList: the list is not held while waiting for jLock.       *)
HoldListNot(w) ==
    /\ Goto(w, "poplock", "jlock")
    /\ listLock[list[w]] = Nobody
    /\ queue[list[w]] # <<>>
    /\ UNCHANGED <<poolVars, listVars, workerVars, localVars, jobVars>>

(* DoPopFront on a list with a job holds the list while it waits for       *)
(* jLock,                                                                  *)
HoldList(w) ==
    /\ Goto(w, "poplock", "jlock")
    /\ listLock[list[w]] = Nobody
    /\ queue[list[w]] # <<>>
    /\ listLock' = [listLock EXCEPT ![list[w]] = w]
    /\ UNCHANGED <<poolVars, queue, sem, quit, workerVars, localVars, jobVars>>

(* takes jLock,                                                            *)
LockJob(w) ==
    /\ Goto(w, "jlock", "pop")
    /\ jLock[w] = Nobody
    /\ jLock' = [jLock EXCEPT ![w] = w]
    /\ UNCHANGED <<poolVars, listVars, jobsOf, shouldQuit, localVars, jobVars>>

(* and then takes the job off the list.                                    *)
PopJob(w) ==
    /\ Goto(w, "pop", "check")
    /\ Unlink(w)
    /\ UNCHANGED <<poolVars, sem, quit, workerVars, list, idx, jobVars>>

-----------------------------------------------------------------------------
(* The calls of a client.  A call on the array `threads` is made only      *)
(* while the array is allocated and no other client is allocating or       *)
(* freeing it.                                                             *)

Alone(c) == \A d \in Clients \ {c} : pc[d] \in {"idle", "q_post"}

Unmanaged(c) ==
    \A d \in Clients \ {c} :
        pc[d] \notin {"init", "end_flag", "end_quit", "end_post", "end_join"}

StartCall(c, to) ==
    /\ Goto(c, "idle", to)
    /\ idx' = [idx EXCEPT ![c] = 0]

(* A step of a loop `for (i = 0; i < limit; i++)`: the call goes on at     *)
(* `again` with the next i, or at `after` when this was the last.          *)
LoopStep(c, from, limit, again, after) ==
    /\ Goto(c, from, IF idx[c] + 1 < limit THEN again ELSE after)
    /\ idx' = [idx EXCEPT ![c] = IF @ + 1 < limit THEN @ + 1 ELSE 0]

(* QueueJob and QueueJobRef, or Enqueue on a list of the client's own.     *)
QueueJob(c, j, q) ==
    /\ Goto(c, "idle", "q_post")
    /\ j \notin submitted
    /\ \A k \in Jobs : Child[k] # j
    /\ Enqueue(j, q)
    /\ owed' = [owed EXCEPT ![c] = @ \union {j}]
    /\ list' = [list EXCEPT ![c] = q]
    /\ UNCHANGED <<poolVars, listLock, sem, quit, workerVars, job, idx, done, dropped>>

(* Mutant of PostQueued: no token.                                         *)
PostQueuedNot(c) ==
    /\ Goto(c, "q_post", "idle")
    /\ UNCHANGED <<poolVars, listVars, workerVars, localVars, jobVars>>

PostQueued(c) ==
    /\ Goto(c, "q_post", "idle")
    /\ Post(list[c])
    /\ UNCHANGED <<poolVars, queue, listLock, quit, workerVars, localVars, jobVars>>

(* InitThreads allocates the array and starts the workers in turn.         *)
CallInit(c) ==
    /\ ~threads
    /\ inits < MaxInits
    /\ Alone(c)
    /\ StartCall(c, "init")
    /\ threads' = TRUE
    /\ inits' = inits + 1
    /\ UNCHANGED <<listVars, workerVars, job, list, jobVars>>

InitThread(c) ==
    LET w == idx[c]
        last == w + 1 = NumThreads
    IN  /\ pc[c] = "init"
        /\ pc' = [pc EXCEPT ![c] = IF last THEN "idle" ELSE "init",
                            ![w] = "check"]
        /\ idx' = [idx EXCEPT ![c] = IF last THEN 0 ELSE w + 1]
        /\ jobsOf' = [jobsOf EXCEPT ![w] = Main]
        /\ jLock' = [jLock EXCEPT ![w] = Nobody]
        /\ shouldQuit' = [shouldQuit EXCEPT ![w] = FALSE]
        /\ UNCHANGED <<poolVars, listVars, job, list, jobVars>>

-----------------------------------------------------------------------------
(* FinishQueue.                                                            *)

CallFinish(c) ==
    /\ threads
    /\ Unmanaged(c)
    /\ \/ "finish" \in Calls /\ StartCall(c, "fq_spin")
       \/ "execute" \in Calls /\ StartCall(c, "fq_list")
    /\ UNCHANGED <<poolVars, listVars, workerVars, job, list, jobVars>>

(* jobList = threads[i].jobs                                               *)
PickList(c) ==
    /\ Goto(c, "fq_list", "fq_try")
    /\ list' = [list EXCEPT ![c] = jobsOf[idx[c]]]
    /\ UNCHANGED <<poolVars, listVars, workerVars, job, idx, jobVars>>

NextList(c, from) == LoopStep(c, from, NumThreads, "fq_list", "fq_spin")

(* TryPopFront takes a token if there is one,                              *)
TryToken(c) ==
    /\ Goto(c, "fq_try", "fq_woken")
    /\ TakeToken(c)
    /\ UNCHANGED <<poolVars, queue, listLock, quit, workerVars, localVars, jobVars>>

NoToken(c) ==
    /\ NextList(c, "fq_try")
    /\ sem[list[c]] = 0
    /\ UNCHANGED <<poolVars, listVars, workerVars, job, list, jobVars>>

(* gives it back when the list should quit,                                *)
TryQuit(c) ==
    /\ NextList(c, "fq_woken")
    /\ quit[list[c]]
    /\ Post(list[c])
    /\ UNCHANGED <<poolVars, queue, listLock, quit, workerVars, job, list, jobVars>>

TryGoOn(c) ==
    /\ Goto(c, "fq_woken", "fq_pop")
    /\ ~quit[list[c]]
    /\ UNCHANGED <<poolVars, listVars, workerVars, localVars, jobVars>>

(* and pops without a jLock to take.                                       *)
TryPop(c) ==
    /\ Goto(c, "fq_pop", "run")
    /\ listLock[list[c]] = Nobody
    /\ Unlink(c)
    /\ UNCHANGED <<poolVars, sem, quit, workerVars, list, idx, jobVars>>

TryPopNothing(c) ==
    /\ NextList(c, "fq_pop")
    /\ listLock[list[c]] = Nobody
    /\ queue[list[c]] = <<>>
    /\ UNCHANGED <<poolVars, listVars, workerVars, job, list, jobVars>>

(* Mutant of SpinUntilEmpty: the list is not looked at.                    *)
SpinNot(c) ==
    /\ Goto(c, "fq_spin", "fq_lock")
    /\ UNCHANGED <<poolVars, listVars, workerVars, localVars, jobVars>>

(* while (!threads[i].jobs->IsEmpty()): the list is read without its lock. *)
SpinUntilEmpty(c) ==
    /\ Goto(c, "fq_spin", "fq_lock")
    /\ queue[jobsOf[idx[c]]] = <<>>
    /\ UNCHANGED <<poolVars, listVars, workerVars, localVars, jobVars>>

LockWorker(c) ==
    /\ Goto(c, "fq_lock", "fq_unlock")
    /\ jLock[idx[c]] = Nobody
    /\ jLock' = [jLock EXCEPT ![idx[c]] = c]
    /\ UNCHANGED <<poolVars, listVars, jobsOf, shouldQuit, localVars, jobVars>>

(* Mutant of UnlockWorker: the worker's lock is kept.                      *)
UnlockWorkerNot(c) ==
    /\ LoopStep(c, "fq_unlock", NumThreads, "fq_spin", "idle")
    /\ UNCHANGED <<poolVars, listVars, workerVars, job, list, jobVars>>

UnlockWorker(c) ==
    /\ LoopStep(c, "fq_unlock", NumThreads, "fq_spin", "idle")
    /\ jLock' = [jLock EXCEPT ![idx[c]] = Nobody]
    /\ UNCHANGED <<poolVars, listVars, jobsOf, shouldQuit, job, list, jobVars>>

-----------------------------------------------------------------------------
(* BindThread and UnbindThread.                                            *)

CallBind(c, q) ==
    /\ threads
    /\ Unmanaged(c)
    /\ "bind" \in Calls
    /\ sem[Main] + NumThreads <= MaxTokens
    /\ StartCall(c, "bind_scan")
    /\ list' = [list EXCEPT ![c] = q]
    /\ UNCHANGED <<poolVars, listVars, workerVars, job, jobVars>>

(* Thread i is not on the main list: on to the next, or nullptr.           *)
SkipBound(c) ==
    /\ LoopStep(c, "bind_scan", NumThreads, "bind_scan", "idle")
    /\ jobsOf[idx[c]] # Main
    /\ UNCHANGED <<poolVars, listVars, workerVars, job, list, jobVars>>

FoundUnbound(c) ==
    /\ Goto(c, "bind_scan", "bind_set")
    /\ jobsOf[idx[c]] = Main
    /\ UNCHANGED <<poolVars, listVars, workerVars, localVars, jobVars>>

SetList(c) ==
    /\ Goto(c, "bind_set", "bind_post")
    /\ jobsOf' = [jobsOf EXCEPT ![idx[c]] = list[c]]
    /\ idx' = [idx EXCEPT ![c] = 0]
    /\ UNCHANGED <<poolVars, listVars, jLock, shouldQuit, job, list, jobVars>>

WakeMain(c) ==
    /\ LoopStep(c, "bind_post", NumThreads, "bind_post", "idle")
    /\ Post(Main)
    /\ UNCHANGED <<poolVars, queue, listLock, quit, workerVars, job, list, jobVars>>

CallUnbind(c, q) ==
    /\ threads
    /\ Unmanaged(c)
    /\ "unbind" \in Calls
    /\ StartCall(c, "unb_lock")
    /\ list' = [list EXCEPT ![c] = q]
    /\ UNCHANGED <<poolVars, listVars, workerVars, job, jobVars>>

LockBound(c) ==
    /\ Goto(c, "unb_lock", "unb_set")
    /\ jLock[idx[c]] = Nobody
    /\ jLock' = [jLock EXCEPT ![idx[c]] = c]
    /\ UNCHANGED <<poolVars, listVars, jobsOf, shouldQuit, localVars, jobVars>>

(* threads[i].jobs = &jobs if it was jobsQueue,                            *)
ResetList(c) ==
    /\ Goto(c, "unb_set", "unb_unlock")
    /\ jobsOf' = [jobsOf EXCEPT ![idx[c]] = IF @ = list[c] THEN Main ELSE @]
    /\ UNCHANGED <<poolVars, listVars, jLock, shouldQuit, localVars, jobVars>>

(* Mutant of UnlockBound: the loop ends one thread early.                  *)
UnlockBoundShort(c) ==
    /\ LoopStep(c, "unb_unlock", NumThreads - 1, "unb_lock", "idle")
    /\ jLock' = [jLock EXCEPT ![idx[c]] = Nobody]
    /\ UNCHANGED <<poolVars, listVars, jobsOf, shouldQuit, job, list, jobVars>>

(* then the unlock.                                                        *)
UnlockBound(c) ==
    /\ LoopStep(c, "unb_unlock", NumThreads, "unb_lock", "idle")
    /\ jLock' = [jLock EXCEPT ![idx[c]] = Nobody]
    /\ UNCHANGED <<poolVars, listVars, jobsOf, shouldQuit, job, list, jobVars>>

-----------------------------------------------------------------------------
(* EndThreads.                                                             *)

CallEnd(c) ==
    /\ threads
    /\ Alone(c)
    /\ "end" \in Calls
    /\ StartCall(c, "end_flag")
    /\ UNCHANGED <<poolVars, listVars, workerVars, job, list, jobVars>>

FlagWorker(c) ==
    /\ LoopStep(c, "end_flag", NumThreads, "end_flag", "end_quit")
    /\ shouldQuit' = [shouldQuit EXCEPT ![idx[c]] = TRUE]
    /\ UNCHANGED <<poolVars, listVars, jobsOf, jLock, job, list, jobVars>>

QuitList(c) ==
    /\ LoopStep(c, "end_quit", NumThreads, "end_quit", "end_post")
    /\ quit' = [quit EXCEPT ![jobsOf[idx[c]]] = TRUE]
    /\ UNCHANGED <<poolVars, queue, listLock, sem, workerVars, job, list, jobVars>>

(* Mutant of WakeWorker: only the main list is posted.                     *)
WakeMainOnly(c) ==
    /\ LoopStep(c, "end_post", 4 * NumThreads, "end_post", "end_join")
    /\ Post(Main)
    /\ UNCHANGED <<poolVars, queue, listLock, quit, workerVars, job, list, jobVars>>

(* Four rounds of one token for each thread's list.                        *)
WakeWorker(c) ==
    /\ LoopStep(c, "end_post", 4 * NumThreads, "end_post", "end_join")
    /\ Post(jobsOf[idx[c] % NumThreads])
    /\ UNCHANGED <<poolVars, queue, listLock, quit, workerVars, job, list, jobVars>>

(* Mutant of JoinWorker: the threads are not waited for.                   *)
JoinWorkerNot(c) ==
    /\ LoopStep(c, "end_join", NumThreads, "end_join", "idle")
    /\ jLock' = [jLock EXCEPT ![idx[c]] = Nobody]
    /\ threads' = (idx[c] + 1 # NumThreads)
    /\ UNCHANGED <<inits, listVars, jobsOf, shouldQuit, job, list, jobVars>>

(* pthread_join, and the mutex is deleted whoever holds it; with the last  *)
(* thread goes the array.                                                  *)
JoinWorker(c) ==
    LET w == idx[c]
        last == w + 1 = NumThreads
    IN  /\ pc[c] = "end_join"
        /\ pc[w] = "done"
        /\ pc' = [pc EXCEPT ![c] = IF last THEN "idle" ELSE "end_join",
                            ![w] = "off"]
        /\ idx' = [idx EXCEPT ![c] = IF last THEN 0 ELSE w + 1]
        /\ jLock' = [jLock EXCEPT ![w] = Nobody]
        /\ threads' = ~last
        /\ UNCHANGED <<inits, listVars, jobsOf, shouldQuit, job, list, jobVars>>

-----------------------------------------------------------------------------

JobStep(t) == Spawn(t) \/ PostSpawned(t) \/ RunJob(t)

WorkerStep(w) ==
    \/ JobStep(w)
    \/ CheckQuit(w) \/ ReloadList(w) \/ UnlockJob(w)
    \/ WaitForJob(w) \/ PassOnQuit(w) \/ GoOnToPop(w)
    \/ PopNothing(w) \/ HoldList(w) \/ LockJob(w) \/ PopJob(w)

(* What a client does inside a call.                                       *)
ClientStep(c) ==
    \/ JobStep(c)
    \/ PostQueued(c)
    \/ InitThread(c)
    \/ PickList(c) \/ TryToken(c) \/ NoToken(c) \/ TryQuit(c) \/ TryGoOn(c)
    \/ TryPop(c) \/ TryPopNothing(c)
    \/ SpinUntilEmpty(c) \/ LockWorker(c) \/ UnlockWorker(c)
    \/ SkipBound(c) \/ FoundUnbound(c) \/ SetList(c) \/ WakeMain(c)
    \/ LockBound(c) \/ ResetList(c) \/ UnlockBound(c)
    \/ FlagWorker(c) \/ QuitList(c) \/ WakeWorker(c) \/ JoinWorker(c)

(* The calls a client may choose to make.                                  *)
ClientCall(c) ==
    \/ \E j \in Jobs, q \in Queues : QueueJob(c, j, q)
    \/ CallInit(c)
    \/ CallFinish(c)
    \/ \E q \in BoundQueues : CallBind(c, q) \/ CallUnbind(c, q)
    \/ CallEnd(c)

Next ==
    \/ \E w \in Workers : WorkerStep(w)
    \/ \E c \in Clients : ClientStep(c) \/ ClientCall(c)

Spec == Init /\ [][Next]_vars

(* The scheduler runs every thread that can go on; whether a client makes  *)
(* a call is up to the client.                                             *)
FairSpec ==
    /\ Spec
    /\ \A w \in Workers : WF_vars(WorkerStep(w))
    /\ \A c \in Clients : WF_vars(ClientStep(c))
-----------------------------------------------------------------------------

Labels == {"off", "idle", "q_post", "run", "run_post", "check", "reload",
           "unlock", "wait", "woken", "poplock", "jlock", "pop", "done", "init",
           "fq_list", "fq_try", "fq_woken", "fq_pop", "fq_spin", "fq_lock",
           "fq_unlock", "bind_scan", "bind_set", "bind_post", "unb_lock",
           "unb_set", "unb_unlock", "end_flag", "end_quit", "end_post", "end_join"}

TypeOK ==
    /\ threads \in BOOLEAN
    /\ inits \in 0 .. MaxInits
    /\ queue \in [Queues -> Seq(Jobs)]
    /\ listLock \in [Queues -> Threads \union {Nobody}]
    /\ sem \in [Queues -> Nat]
    /\ quit \in [Queues -> BOOLEAN]
    /\ jobsOf \in [Workers -> Queues]
    /\ jLock \in [Workers -> Threads \union {Nobody}]
    /\ shouldQuit \in [Workers -> BOOLEAN]
    /\ pc \in [Threads -> Labels]
    /\ job \in [Threads -> Jobs \union {NoJob}]
    /\ list \in [Threads -> Queues]
    /\ idx \in [Clients -> Nat]
    /\ copies \subseteq Jobs
    /\ submitted \subseteq Jobs
    /\ owed \in [Clients -> SUBSET Jobs]
    /\ done \subseteq Jobs
    /\ dropped \subseteq Jobs

Queued == UNION {{queue[q][k] : k \in DOMAIN queue[q]} : q \in Queues}

InHand == {job[t] : t \in Threads} \ {NoJob}

(* No job is lost: one that was queued is on a list, in the hands of a     *)
(* thread, was run, or was dropped by a worker told to quit, whichever     *)
(* threads pop and execute jobs at the same time.                          *)
NoJobLost == submitted = Queued \union InHand \union done \union dropped

(* No job is run twice: it is in one place only, so that no two threads    *)
(* take the same job and a job that was run is not on a list again.        *)
OnlyOnce ==
    /\ Queued \intersect InHand = {}
    /\ (Queued \union InHand) \intersect (done \union dropped) = {}
    /\ done \intersect dropped = {}
    /\ \A t, u \in Threads : t # u /\ job[t] # NoJob => job[t] # job[u]
    /\ \A p, q \in Queues : \A j \in DOMAIN queue[p], k \in DOMAIN queue[q] :
          queue[p][j] = queue[q][k] => p = q /\ j = k

(* The copy QueueJob made of an argument lives exactly until its job was   *)
(* run; that of a dropped job is never freed.                              *)
CopiesOwned == copies = (submitted \ done) \ ByRef

(* No wake-up is lost: every job on a list is matched by a token of its    *)
(* semaphore, by a thread that took a token and did not yet pop, or by a   *)
(* thread about to post.                                                   *)
HoldsToken(t, q) ==
    /\ pc[t] \in {"woken", "poplock", "jlock", "pop", "fq_woken", "fq_pop", "q_post"}
    /\ list[t] = q

PostsMain(t, q) == pc[t] = "run_post" /\ q = Main

WakeupsCover ==
    \A q \in Queues :
        Len(queue[q]) <= sem[q]
            + Cardinality({t \in Threads : HoldsToken(t, q) \/ PostsMain(t, q)})

(* A list is locked only by a worker between its look at front and its     *)
(* pop, and then has a job: the front DoPopFront read is still there when  *)
(* it has waited for jLock.                                                *)
ListHeld ==
    /\ \A q \in Queues : listLock[q] # Nobody =>
          /\ listLock[q] \in Workers
          /\ pc[listLock[q]] \in {"jlock", "pop"}
          /\ list[listLock[q]] = q
    /\ \A w \in Workers : pc[w] \in {"jlock", "pop"} =>
          /\ listLock[list[w]] = w
          /\ queue[list[w]] # <<>>

(* FinishQueue returns only when every job its client queued was run (or   *)
(* dropped by a worker told to quit).                                      *)
FinishMeansDone ==
    [][\A c \in Clients :
          pc[c] = "fq_unlock" /\ pc'[c] = "idle" => owed[c] \subseteq done \union dropped]_vars

(* UnbindThread returns only when no worker is to read its list from       *)
(* jobsQueue again, however the worker that had it is doing.               *)
UnbindMeansUnbound ==
    [][\A c \in Clients :
          pc[c] = "unb_unlock" /\ pc'[c] = "idle"
          => \A w \in Workers : jobsOf'[w] # list[c]]_vars

(* EndThreads frees the array only when no worker can touch it any more.   *)
NoWorkerOutlivesPool ==
    ~threads => \A w \in Workers : pc[w] = "off"

(* Once the workers are started, every job that is queued is run.          *)
EveryJobRuns == \A j \in Jobs : threads /\ j \in submitted ~> j \in done

(* FinishQueue, once called, returns.                                      *)
FinishReturns ==
    \A c \in Clients : pc[c] \in {"fq_list", "fq_spin"} ~> pc[c] = "idle"

(* EndThreads, once called, returns: four tokens per thread and the token  *)
(* every quitting worker passes on wake all workers.                       *)
EndReturns == \A c \in Clients : pc[c] = "end_flag" ~> pc[c] = "idle"
-----------------------------------------------------------------------------
(* The pool implements JobPool: a job is running while a thread has it in  *)
(* hand, and a client waits while it is in FinishQueue.                    *)

StateOf(j) ==
    CASE j \in done    -> "done"
      [] j \in dropped -> "dropped"
      [] j \in InHand  -> "running"
      [] j \in Queued  -> "queued"
      [] OTHER         -> "new"

InFinish(c) == pc[c] \in {"fq_list", "fq_try", "fq_woken", "fq_pop", "run",
                          "run_post", "fq_spin", "fq_lock", "fq_unlock"}

Pool == INSTANCE JobPool WITH
            state <- [j \in Jobs |-> StateOf(j)],
            mine <- owed,
            waiting <- {c \in Clients : InFinish(c)}

ImplementsJobPool == Pool!JobPoolSpec
=============================================================================
