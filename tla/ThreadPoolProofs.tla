-------------------------- MODULE ThreadPoolProofs --------------------------
(***************************************************************************)
(* Invariants of ThreadPool for every number of threads, clients, jobs and *)
(* lists, and whatever calls the clients make: the types of the state,     *)
(* when workers exist, who holds a list, who is awake for it, and where    *)
(* jobs are.                                                               *)
(***************************************************************************)
EXTENDS ThreadPool, FiniteSetTheorems, SequenceTheorems, TLAPS

(* The steps a worker and a client can be at.                              *)
WorkerLabels == {"off", "check", "run", "run_post", "reload", "unlock", "wait",
                 "woken", "poplock", "jlock", "pop", "done"}

ClientLabels == {"idle", "q_post", "run", "run_post", "init", "fq_list", "fq_try",
                 "fq_woken", "fq_pop", "fq_spin", "fq_lock", "fq_unlock",
                 "bind_scan", "bind_set", "bind_post", "unb_lock", "unb_set",
                 "unb_unlock", "end_flag", "end_quit", "end_post", "end_join"}

LabelsOK ==
    /\ \A w \in Workers : pc[w] \in WorkerLabels
    /\ \A c \in Clients : pc[c] \in ClientLabels

(* A client that is at the work on thread i has i in its counter.          *)
CountersOK ==
    \A c \in Clients :
        pc[c] \notin {"idle", "q_post", "end_post"} => idx[c] \in Workers

(* A thread has a job in hand from its pop until the job was run, and only *)
(* then.                                                                   *)
HandsOK ==
    \A t \in Threads :
        /\ pc[t] \in {"run", "run_post"} => job[t] # NoJob
        /\ job[t] # NoJob => pc[t] \in {"check", "run", "run_post"}

TInv == TypeOK /\ LabelsOK /\ CountersOK /\ HandsOK

USE DEF Workers, Threads, Queues

(* What ThreadPoolAssumption is used for below.                            *)
LEMMA ConstantFacts ==
    /\ Clients \intersect Workers = {}
    /\ NoJob \notin Jobs
    /\ 0 \in Workers
    /\ \A w \in Workers : w \in Int
    /\ Nobody \notin Threads
    /\ NumThreads \in Nat \ {0}
    /\ MaxInits \in Nat
    /\ Child \in [Jobs -> Jobs \union {NoJob}]
  BY ThreadPoolAssumption DEF ThreadPoolAssumption

(* A post and a wait keep a semaphore a number.                            *)
LEMMA PostLemma ==
    ASSUME sem \in [Queues -> Nat], NEW q \in Queues, Post(q)
    PROVE  sem' \in [Queues -> Nat]
  <1>1. sem[q] + 1 \in Nat
    OBVIOUS
  <1> QED
    BY <1>1 DEF Post

(* A token is taken only when there is one.                                *)
LEMMA TokenLemma ==
    ASSUME sem \in [Queues -> Nat], NEW t, TakeToken(t), list[t] \in Queues
    PROVE  sem' \in [Queues -> Nat]
  BY DEF TakeToken

(* A step of a call's loop: on with the next i, or the loop is over.       *)
LEMMA LoopLemma ==
    ASSUME idx \in [Clients -> Nat], NEW c \in Clients,
           NEW from, NEW limit \in Nat \ {0}, NEW again, NEW after,
           LoopStep(c, from, limit, again, after)
    PROVE  /\ pc[c] = from
           /\ \/ pc' = [pc EXCEPT ![c] = again]
              \/ pc' = [pc EXCEPT ![c] = after] /\ idx'[c] = 0
           /\ idx' \in [Clients -> Nat]
           /\ idx'[c] \in 0 .. limit - 1
           /\ \A d \in Clients \ {c} : idx'[d] = idx[d]
  <1>1. CASE idx[c] + 1 < limit
    <2>1. pc[c] = from /\ pc' = [pc EXCEPT ![c] = again]
      BY <1>1 DEF LoopStep, Goto
    <2>2. idx' = [idx EXCEPT ![c] = idx[c] + 1]
      BY <1>1 DEF LoopStep
    <2>3. idx[c] + 1 \in 0 .. limit - 1
      BY <1>1
    <2> QED
      BY <2>1, <2>2, <2>3
  <1>2. CASE ~(idx[c] + 1 < limit)
    <2>1. pc[c] = from /\ pc' = [pc EXCEPT ![c] = after]
      BY <1>2 DEF LoopStep, Goto
    <2>2. idx' = [idx EXCEPT ![c] = 0]
      BY <1>2 DEF LoopStep
    <2>3. 0 \in 0 .. limit - 1
      OBVIOUS
    <2> QED
      BY <2>1, <2>2, <2>3
  <1> QED
    BY <1>1, <1>2

(* The same for a loop over the threads.                                   *)
LEMMA ThreadLoopLemma ==
    ASSUME idx \in [Clients -> Nat], NEW c \in Clients,
           NEW from, NEW again, NEW after,
           LoopStep(c, from, NumThreads, again, after)
    PROVE  /\ pc[c] = from
           /\ \/ pc' = [pc EXCEPT ![c] = again]
              \/ pc' = [pc EXCEPT ![c] = after]
           /\ idx' \in [Clients -> Nat]
           /\ idx'[c] \in Workers
           /\ \A d \in Clients \ {c} : idx'[d] = idx[d]
  <1>1. NumThreads \in Nat \ {0}
    BY ThreadPoolAssumption DEF ThreadPoolAssumption
  <1> DEFINE limit == NumThreads
  <1>2. LoopStep(c, from, limit, again, after) /\ limit \in Nat \ {0}
    BY <1>1
  <1> HIDE DEF limit
  <1>3. /\ pc[c] = from
        /\ \/ pc' = [pc EXCEPT ![c] = again]
           \/ pc' = [pc EXCEPT ![c] = after] /\ idx'[c] = 0
        /\ idx' \in [Clients -> Nat]
        /\ idx'[c] \in 0 .. limit - 1
        /\ \A d \in Clients \ {c} : idx'[d] = idx[d]
    BY <1>2, LoopLemma
  <1>4. idx'[c] \in Workers
    BY <1>3 DEF limit
  <1> HIDE DEF Workers
  <1> QED
    BY <1>3, <1>4

(* A thread goes on to another place, with in hand what fits there.        *)
LEMMA GotoKeeps ==
    ASSUME TInv, NEW t \in Threads, NEW from, NEW to \in Labels, Goto(t, from, to),
           \A d \in Clients : idx[d] \in Workers => idx'[d] \in Workers,
           \A u \in Threads \ {t} : job'[u] = job[u],
           t \in Workers => to \in WorkerLabels,
           t \in Clients => /\ to \in ClientLabels
                            /\ to \notin {"idle", "q_post", "end_post"}
                                  => from \notin {"idle", "q_post", "end_post"},
           to \in {"run", "run_post"} => job'[t] # NoJob,
           job'[t] # NoJob => to \in {"check", "run", "run_post"}
    PROVE  pc' \in [Threads -> Labels] /\ LabelsOK' /\ CountersOK' /\ HandsOK'
  <1>1. /\ pc \in [Threads -> Labels] /\ LabelsOK /\ CountersOK /\ HandsOK
    BY DEF TInv, TypeOK
  <1>2. /\ pc[t] = from /\ pc'[t] = to /\ pc' \in [Threads -> Labels]
        /\ \A u \in Threads \ {t} : pc'[u] = pc[u]
    BY <1>1 DEF Goto
  <1>3. LabelsOK'
    BY <1>1, <1>2 DEF LabelsOK
  <1>4. CountersOK'
    <2> SUFFICES ASSUME NEW c \in Clients, pc'[c] \notin {"idle", "q_post", "end_post"}
                 PROVE  idx[c] \in Workers
      BY DEF CountersOK
    <2>1. c \in Threads
      OBVIOUS
    <2>2. pc[c] \notin {"idle", "q_post", "end_post"}
      BY <1>2, <2>1
    <2> QED
      BY <1>1, <2>2 DEF CountersOK
  <1>5. HandsOK'
    BY <1>1, <1>2 DEF HandsOK
  <1> QED
    BY <1>2, <1>3, <1>4, <1>5

(* A step of a call's loop over the threads leads from one place in the    *)
(* call to another, with nothing in hand.                                  *)
LEMMA LoopKeeps ==
    ASSUME TInv, NEW c \in Clients,
           NEW from \in ClientLabels \ {"run", "run_post"},
           NEW again \in ClientLabels \ {"run", "run_post"},
           NEW after \in ClientLabels \ {"run", "run_post"},
           LoopStep(c, from, NumThreads, again, after), UNCHANGED job
    PROVE  /\ pc' \in [Threads -> Labels]
           /\ idx' \in [Clients -> Nat]
           /\ LabelsOK' /\ CountersOK' /\ HandsOK'
  <1>1. /\ idx \in [Clients -> Nat] /\ pc \in [Threads -> Labels]
        /\ LabelsOK /\ CountersOK /\ HandsOK
    BY DEF TInv, TypeOK
  <1>2. /\ pc[c] = from /\ idx' \in [Clients -> Nat] /\ idx'[c] \in Workers
        /\ \A d \in Clients \ {c} : idx'[d] = idx[d]
        /\ \/ pc' = [pc EXCEPT ![c] = again]
           \/ pc' = [pc EXCEPT ![c] = after]
    <2> HIDE DEF Workers, Threads
    <2> QED
      BY ONLY <1>1, LoopStep(c, from, NumThreads, again, after), c \in Clients, ThreadLoopLemma
  <1>3. PICK to \in {again, after} : pc' = [pc EXCEPT ![c] = to]
    BY <1>2
  <1>4. to \in Labels /\ to \in ClientLabels /\ to \notin {"run", "run_post"}
    BY DEF ClientLabels, Labels
  <1>5. c \in Threads /\ c \notin Workers
    BY ConstantFacts
  <1>6. pc'[c] = to /\ \A t \in Threads \ {c} : pc'[t] = pc[t]
    BY <1>1, <1>3, <1>5
  <1>7. pc' \in [Threads -> Labels]
    BY <1>1, <1>3, <1>4
  <1>8. LabelsOK'
    <2>1. \A w \in Workers : pc'[w] = pc[w]
      BY <1>5, <1>6
    <2>2. \A d \in Clients : d # c => pc'[d] = pc[d]
      BY <1>6
    <2> QED
      BY <1>1, <1>4, <1>6, <2>1, <2>2 DEF LabelsOK
  <1>9. CountersOK'
    BY <1>1, <1>2, <1>6 DEF CountersOK
  <1>10. job'[c] = NoJob
    BY <1>1, <1>2, <1>5 DEF HandsOK, ClientLabels
  <1>11. HandsOK'
    BY <1>1, <1>4, <1>6, <1>10 DEF HandsOK
  <1> QED
    BY <1>2, <1>7, <1>8, <1>9, <1>11

(* The beginning of a call.                                                *)
LEMMA StartLemma ==
    ASSUME TInv, NEW c \in Clients, NEW to \in ClientLabels \ {"run", "run_post"},
           StartCall(c, to), UNCHANGED job
    PROVE  /\ pc' \in [Threads -> Labels]
           /\ idx' \in [Clients -> Nat]
           /\ LabelsOK' /\ CountersOK' /\ HandsOK'
  BY ConstantFacts DEF TInv, StartCall, Goto, TypeOK, Labels, LabelsOK, WorkerLabels,
                       ClientLabels, CountersOK, HandsOK

(* TInv holds at the start,                                                *)
LEMMA TInit == Init => TInv
  <1> SUFFICES ASSUME Init PROVE TInv
    OBVIOUS
  <1>1. TypeOK
    <2>1. pc \in [Threads -> Labels]
      BY DEF Init, Labels
    <2>2. quit \in [Queues -> BOOLEAN]
      BY DEF Init
    <2>3. queue \in [Queues -> Seq(Jobs)]
      BY DEF Init
    <2>4. /\ listLock \in [Queues -> Threads \union {Nobody}]
          /\ sem \in [Queues -> Nat]
          /\ jobsOf \in [Workers -> Queues]
          /\ jLock \in [Workers -> Threads \union {Nobody}]
          /\ shouldQuit \in [Workers -> BOOLEAN]
      BY DEF Init
    <2>5. /\ job \in [Threads -> Jobs \union {NoJob}]
          /\ list \in [Threads -> Queues]
          /\ idx \in [Clients -> Nat]
          /\ owed \in [Clients -> SUBSET Jobs]
      BY DEF Init
    <2>6. threads \in BOOLEAN /\ inits \in 0 .. MaxInits
      <3>1. threads = FALSE /\ inits = 0
        BY DEF Init
      <3>2. 0 \in 0 .. MaxInits
        BY ThreadPoolAssumption DEF ThreadPoolAssumption
      <3> QED
        BY <3>1, <3>2
    <2>7. copies = {} /\ submitted = {} /\ done = {} /\ dropped = {}
      BY DEF Init
    <2> QED
      BY <2>1, <2>2, <2>3, <2>4, <2>5, <2>6, <2>7 DEF TypeOK
  <1>2. LabelsOK /\ CountersOK /\ HandsOK
    BY ConstantFacts DEF Init, LabelsOK, WorkerLabels, ClientLabels, CountersOK, HandsOK
  <1> QED
    BY <1>1, <1>2 DEF TInv

(* in every step of RunJob,                                                *)
LEMMA TJob ==
    ASSUME TInv, NEW t \in Threads, JobStep(t)
    PROVE  TInv'
  <1> USE ConstantFacts DEF TInv
  <1>1. CASE Spawn(t)
    BY <1>1 DEF Spawn, Enqueue, Goto, poolVars, listVars, workerVars, localVars, jobVars, LabelsOK, WorkerLabels, ClientLabels, CountersOK, HandsOK, TypeOK, Labels
  <1>2. CASE PostSpawned(t)
    <2>1. sem' \in [Queues -> Nat]
      BY <1>2, PostLemma DEF TypeOK, PostSpawned
    <2>2. pc' \in [Threads -> Labels]
      BY <1>2, <2>1 DEF TypeOK, Labels, Goto, PostSpawned
    <2>3. TypeOK'
      BY <1>2, <2>1, <2>2 DEF PostSpawned, Goto, poolVars, listVars, workerVars, localVars, jobVars, TypeOK, Labels
    <2>4. LabelsOK'
      BY <1>2, <2>1, <2>2 DEF PostSpawned, Goto, poolVars, listVars, workerVars, localVars, jobVars, TypeOK, LabelsOK, WorkerLabels, ClientLabels
    <2>5. CountersOK'
      BY <1>2, <2>1, <2>2 DEF PostSpawned, Goto, poolVars, listVars, workerVars, localVars, jobVars, TypeOK, CountersOK
    <2>6. HandsOK'
      BY <1>2, <2>1, <2>2 DEF PostSpawned, Goto, poolVars, listVars, workerVars, localVars, jobVars, TypeOK, HandsOK
    <2> QED
      BY <2>3, <2>4, <2>5, <2>6
  <1>3. CASE RunJob(t)
    <2>1. TypeOK'
      BY <1>3 DEF RunJob, Goto, poolVars, listVars, workerVars, localVars, jobVars, LabelsOK, WorkerLabels, ClientLabels, CountersOK, HandsOK, TypeOK, Labels
    <2>2. LabelsOK' /\ CountersOK' /\ HandsOK'
      BY <1>3 DEF RunJob, Goto, poolVars, listVars, workerVars, localVars, jobVars, LabelsOK, WorkerLabels, ClientLabels, CountersOK, HandsOK, TypeOK, Labels
    <2> QED
      BY <2>1, <2>2
  <1> HIDE DEF TInv
  <1> QED
    BY <1>1, <1>2, <1>3 DEF JobStep

(* of a worker,                                                            *)
LEMMA TWorker ==
    ASSUME TInv, NEW w \in Workers, WorkerStep(w)
    PROVE  TInv'
  <1> USE ConstantFacts DEF TInv
  <1>1. CASE CheckQuit(w)
    BY <1>1 DEF CheckQuit, Goto, poolVars, listVars, workerVars, localVars, jobVars, LabelsOK, WorkerLabels, ClientLabels, CountersOK, HandsOK, TypeOK, Labels
  <1>2. CASE ReloadList(w)
    BY <1>2 DEF ReloadList, Goto, poolVars, listVars, workerVars, localVars, jobVars, LabelsOK, WorkerLabels, ClientLabels, CountersOK, HandsOK, TypeOK, Labels
  <1>3. CASE UnlockJob(w)
    BY <1>3 DEF UnlockJob, Goto, poolVars, listVars, workerVars, localVars, jobVars, LabelsOK, WorkerLabels, ClientLabels, CountersOK, HandsOK, TypeOK, Labels
  <1>4. CASE WaitForJob(w)
    <2>1. sem' \in [Queues -> Nat]
      BY <1>4, TokenLemma DEF TypeOK, WaitForJob
    <2>2. pc' \in [Threads -> Labels]
      BY <1>4, <2>1 DEF TypeOK, Labels, Goto, WaitForJob
    <2>3. TypeOK'
      BY <1>4, <2>1, <2>2 DEF WaitForJob, Goto, poolVars, listVars, workerVars, localVars, jobVars, TypeOK, Labels
    <2>4. LabelsOK'
      BY <1>4, <2>1, <2>2 DEF WaitForJob, Goto, poolVars, listVars, workerVars, localVars, jobVars, TypeOK, LabelsOK, WorkerLabels, ClientLabels
    <2>5. CountersOK'
      BY <1>4, <2>1, <2>2 DEF WaitForJob, Goto, poolVars, listVars, workerVars, localVars, jobVars, TypeOK, CountersOK
    <2>6. HandsOK'
      BY <1>4, <2>1, <2>2 DEF WaitForJob, Goto, poolVars, listVars, workerVars, localVars, jobVars, TypeOK, HandsOK
    <2> QED
      BY <2>3, <2>4, <2>5, <2>6
  <1>5. CASE PassOnQuit(w)
    <2>1. sem' \in [Queues -> Nat]
      BY <1>5, PostLemma DEF TypeOK, PassOnQuit
    <2>2. pc' \in [Threads -> Labels]
      BY <1>5, <2>1 DEF TypeOK, Labels, Goto, PassOnQuit
    <2>3. TypeOK'
      BY <1>5, <2>1, <2>2 DEF PassOnQuit, Goto, poolVars, listVars, workerVars, localVars, jobVars, TypeOK, Labels
    <2>4. LabelsOK'
      BY <1>5, <2>1, <2>2 DEF PassOnQuit, Goto, poolVars, listVars, workerVars, localVars, jobVars, TypeOK, LabelsOK, WorkerLabels, ClientLabels
    <2>5. CountersOK'
      BY <1>5, <2>1, <2>2 DEF PassOnQuit, Goto, poolVars, listVars, workerVars, localVars, jobVars, TypeOK, CountersOK
    <2>6. HandsOK'
      BY <1>5, <2>1, <2>2 DEF PassOnQuit, Goto, poolVars, listVars, workerVars, localVars, jobVars, TypeOK, HandsOK
    <2> QED
      BY <2>3, <2>4, <2>5, <2>6
  <1>6. CASE GoOnToPop(w)
    BY <1>6 DEF GoOnToPop, Goto, poolVars, listVars, workerVars, localVars, jobVars, LabelsOK, WorkerLabels, ClientLabels, CountersOK, HandsOK, TypeOK, Labels
  <1>7. CASE PopNothing(w)
    BY <1>7 DEF PopNothing, Goto, poolVars, listVars, workerVars, localVars, jobVars, LabelsOK, WorkerLabels, ClientLabels, CountersOK, HandsOK, TypeOK, Labels
  <1>8. CASE HoldList(w)
    BY <1>8 DEF HoldList, Goto, poolVars, listVars, workerVars, localVars, jobVars, LabelsOK, WorkerLabels, ClientLabels, CountersOK, HandsOK, TypeOK, Labels
  <1>9. CASE LockJob(w)
    BY <1>9 DEF LockJob, Goto, poolVars, listVars, workerVars, localVars, jobVars, LabelsOK, WorkerLabels, ClientLabels, CountersOK, HandsOK, TypeOK, Labels
  <1>10. CASE PopJob(w)
    <2>1. /\ Goto(w, "pop", "check") /\ UNCHANGED idx
          /\ list[w] \in Queues /\ queue[list[w]] \in Seq(Jobs) /\ queue[list[w]] # <<>>
          /\ queue' = [queue EXCEPT ![list[w]] = Tail(@)]
          /\ job' = [job EXCEPT ![w] = Head(queue[list[w]])]
      BY <1>10 DEF PopJob, Unlink, TypeOK
    <2>2. Head(queue[list[w]]) \in Jobs /\ Tail(queue[list[w]]) \in Seq(Jobs)
      BY <2>1, HeadTailProperties
    <2>3. /\ job' \in [Threads -> Jobs \union {NoJob}] /\ job'[w] # NoJob
          /\ \A u \in Threads \ {w} : job'[u] = job[u]
      BY <2>1, <2>2 DEF TypeOK
    <2>4. "check" \in Labels /\ "check" \in WorkerLabels /\ w \notin Clients
      BY DEF Labels, WorkerLabels
    <2>5. pc' \in [Threads -> Labels] /\ LabelsOK' /\ CountersOK' /\ HandsOK'
      BY <2>1, <2>3, <2>4, GotoKeeps
    <2>6. queue' \in [Queues -> Seq(Jobs)]
      BY <2>1, <2>2 DEF TypeOK
    <2>7. listLock' \in [Queues -> Threads \union {Nobody}]
      BY <1>10 DEF PopJob, Unlink, TypeOK
    <2>8. TypeOK'
      BY <1>10, <2>3, <2>5, <2>6, <2>7 DEF PopJob, Unlink, poolVars, workerVars, jobVars, TypeOK
    <2> QED
      BY <2>5, <2>8
  <1>11. CASE JobStep(w)
    BY <1>11, TJob
  <1> HIDE DEF TInv
  <1> QED
    BY <1>1, <1>2, <1>3, <1>4, <1>5, <1>6, <1>7, <1>8, <1>9, <1>10, <1>11 DEF WorkerStep

(* and of a client inside a call,                                          *)
LEMMA TClient ==
    ASSUME TInv, NEW c \in Clients, ClientStep(c)
    PROVE  TInv'
  <1> USE ConstantFacts DEF TInv
  <1>1. CASE PostQueued(c)
    <2>1. sem' \in [Queues -> Nat]
      BY <1>1, PostLemma DEF TypeOK, PostQueued
    <2>2. pc' \in [Threads -> Labels]
      BY <1>1, <2>1 DEF TypeOK, Labels, Goto, PostQueued
    <2>3. TypeOK'
      BY <1>1, <2>1, <2>2 DEF PostQueued, Goto, poolVars, listVars, workerVars, localVars, jobVars, TypeOK, Labels
    <2>4. LabelsOK'
      BY <1>1, <2>1, <2>2 DEF PostQueued, Goto, poolVars, listVars, workerVars, localVars, jobVars, TypeOK, LabelsOK, WorkerLabels, ClientLabels
    <2>5. CountersOK'
      BY <1>1, <2>1, <2>2 DEF PostQueued, Goto, poolVars, listVars, workerVars, localVars, jobVars, TypeOK, CountersOK
    <2>6. HandsOK'
      BY <1>1, <2>1, <2>2 DEF PostQueued, Goto, poolVars, listVars, workerVars, localVars, jobVars, TypeOK, HandsOK
    <2> QED
      BY <2>3, <2>4, <2>5, <2>6
  <1>2. CASE InitThread(c)
    <2>1. /\ pc[c] = "init" /\ idx[c] \in Workers /\ c \notin Workers
          /\ idx' = [idx EXCEPT ![c] = IF idx[c] + 1 = NumThreads THEN 0 ELSE idx[c] + 1]
          /\ pc' = [pc EXCEPT ![c] = IF idx[c] + 1 = NumThreads THEN "idle" ELSE "init",
                              ![idx[c]] = "check"]
      BY <1>2 DEF InitThread, CountersOK
    <2>2. /\ idx' \in [Clients -> Nat]
          /\ idx'[c] \in Workers
          /\ \A d \in Clients \ {c} : idx'[d] = idx[d]
      BY <2>1 DEF TypeOK
    <2>3. /\ pc'[c] \in {"idle", "init"}
          /\ pc'[idx[c]] = "check"
          /\ \A t \in Threads \ {c, idx[c]} : pc'[t] = pc[t]
          /\ pc' \in [Threads -> Labels]
      BY <2>1 DEF TypeOK, Labels
    <2>4. TypeOK'
      BY <1>2, <2>1, <2>2, <2>3 DEF InitThread, TypeOK, poolVars, listVars, workerVars, localVars, jobVars
    <2>5. LabelsOK'
      BY <2>1, <2>3 DEF LabelsOK, WorkerLabels, ClientLabels
    <2>6. CountersOK'
      BY <2>1, <2>2, <2>3 DEF CountersOK
    <2>7. HandsOK'
      BY <1>2, <2>1, <2>3 DEF InitThread, HandsOK, localVars
    <2> QED
      BY <2>4, <2>5, <2>6, <2>7
  <1>3. CASE PickList(c)
    <2>1. Goto(c, "fq_list", "fq_try") /\ UNCHANGED job /\ job[c] = NoJob /\ c \in Threads /\ c \notin Workers
      BY <1>3 DEF PickList, Goto, HandsOK
    <2>2. \A d \in Clients : idx[d] \in Workers => idx'[d] \in Workers
      BY <1>3 DEF PickList
    <2>3. "fq_try" \in Labels /\ "fq_try" \in ClientLabels
      BY DEF Labels, ClientLabels
    <2>4. pc' \in [Threads -> Labels] /\ LabelsOK' /\ CountersOK' /\ HandsOK'
      BY <2>1, <2>2, <2>3, GotoKeeps
    <2>5. TypeOK'
      <3>1. idx[c] \in Workers
        BY <2>1 DEF Goto, CountersOK
      <3> QED
        BY <1>3, <2>4, <3>1 DEF PickList, poolVars, listVars, workerVars, localVars, jobVars, TypeOK
    <2> QED
      BY <2>4, <2>5
  <1>4. CASE TryToken(c)
    <2>1. sem' \in [Queues -> Nat]
      BY <1>4, TokenLemma DEF TypeOK, TryToken
    <2>2. pc' \in [Threads -> Labels]
      BY <1>4, <2>1 DEF TypeOK, Labels, Goto, TryToken
    <2>3. TypeOK'
      BY <1>4, <2>1, <2>2 DEF TryToken, Goto, poolVars, listVars, workerVars, localVars, jobVars, TypeOK, Labels
    <2>4. LabelsOK'
      BY <1>4, <2>1, <2>2 DEF TryToken, Goto, poolVars, listVars, workerVars, localVars, jobVars, TypeOK, LabelsOK, WorkerLabels, ClientLabels
    <2>5. CountersOK'
      BY <1>4, <2>1, <2>2 DEF TryToken, Goto, poolVars, listVars, workerVars, localVars, jobVars, TypeOK, CountersOK
    <2>6. HandsOK'
      BY <1>4, <2>1, <2>2 DEF TryToken, Goto, poolVars, listVars, workerVars, localVars, jobVars, TypeOK, HandsOK
    <2> QED
      BY <2>3, <2>4, <2>5, <2>6
  <1>5. CASE NoToken(c)
    <2>1. LoopStep(c, "fq_try", NumThreads, "fq_list", "fq_spin")
      BY <1>5 DEF NoToken, NextList
    <2>2. UNCHANGED job
      BY <1>5 DEF NoToken
    <2>3. /\ pc' \in [Threads -> Labels] /\ idx' \in [Clients -> Nat]
          /\ LabelsOK' /\ CountersOK' /\ HandsOK'
      <3> HIDE DEF TInv, Workers, Threads
      <3> QED
        BY <2>1, <2>2, LoopKeeps DEF ClientLabels
    <2>4. TypeOK'
      BY <1>5, <2>3 DEF NoToken, poolVars, listVars, workerVars, jobVars, TypeOK
    <2> QED
      BY <2>3, <2>4
  <1>6. CASE TryQuit(c)
    <2>1. LoopStep(c, "fq_woken", NumThreads, "fq_list", "fq_spin")
      BY <1>6 DEF TryQuit, NextList
    <2>2. UNCHANGED job
      BY <1>6 DEF TryQuit
    <2>3. /\ pc' \in [Threads -> Labels] /\ idx' \in [Clients -> Nat]
          /\ LabelsOK' /\ CountersOK' /\ HandsOK'
      <3> HIDE DEF TInv, Workers, Threads
      <3> QED
        BY <2>1, <2>2, LoopKeeps DEF ClientLabels
    <2>4. sem' \in [Queues -> Nat]
      BY <1>6, PostLemma DEF TypeOK, TryQuit
    <2>5. TypeOK'
      BY <1>6, <2>3, <2>4 DEF TryQuit, poolVars, listVars, workerVars, jobVars, TypeOK
    <2> QED
      BY <2>3, <2>5
  <1>7. CASE TryGoOn(c)
    BY <1>7 DEF TryGoOn, Goto, poolVars, listVars, workerVars, localVars, jobVars, LabelsOK, WorkerLabels, ClientLabels, CountersOK, HandsOK, TypeOK, Labels
  <1>8. CASE TryPop(c)
    BY <1>8, HeadTailProperties DEF TryPop, Unlink, Goto, poolVars, listVars, workerVars, localVars, jobVars, LabelsOK, WorkerLabels, ClientLabels, CountersOK, HandsOK, TypeOK, Labels
  <1>9. CASE TryPopNothing(c)
    <2>1. LoopStep(c, "fq_pop", NumThreads, "fq_list", "fq_spin")
      BY <1>9 DEF TryPopNothing, NextList
    <2>2. UNCHANGED job
      BY <1>9 DEF TryPopNothing
    <2>3. /\ pc' \in [Threads -> Labels] /\ idx' \in [Clients -> Nat]
          /\ LabelsOK' /\ CountersOK' /\ HandsOK'
      <3> HIDE DEF TInv, Workers, Threads
      <3> QED
        BY <2>1, <2>2, LoopKeeps DEF ClientLabels
    <2>4. TypeOK'
      BY <1>9, <2>3 DEF TryPopNothing, poolVars, listVars, workerVars, jobVars, TypeOK
    <2> QED
      BY <2>3, <2>4
  <1>10. CASE SpinUntilEmpty(c)
    BY <1>10 DEF SpinUntilEmpty, Goto, poolVars, listVars, workerVars, localVars, jobVars, LabelsOK, WorkerLabels, ClientLabels, CountersOK, HandsOK, TypeOK, Labels
  <1>11. CASE LockWorker(c)
    BY <1>11 DEF LockWorker, Goto, poolVars, listVars, workerVars, localVars, jobVars, LabelsOK, WorkerLabels, ClientLabels, CountersOK, HandsOK, TypeOK, Labels
  <1>12. CASE UnlockWorker(c)
    <2>1. LoopStep(c, "fq_unlock", NumThreads, "fq_spin", "idle")
      BY <1>12 DEF UnlockWorker
    <2>2. UNCHANGED job
      BY <1>12 DEF UnlockWorker
    <2>3. /\ pc' \in [Threads -> Labels] /\ idx' \in [Clients -> Nat]
          /\ LabelsOK' /\ CountersOK' /\ HandsOK'
      <3> HIDE DEF TInv, Workers, Threads
      <3> QED
        BY <2>1, <2>2, LoopKeeps DEF ClientLabels
    <2>4. TypeOK'
      BY <1>12, <2>3 DEF UnlockWorker, poolVars, listVars, workerVars, jobVars, TypeOK
    <2> QED
      BY <2>3, <2>4
  <1>13. CASE SkipBound(c)
    <2>1. LoopStep(c, "bind_scan", NumThreads, "bind_scan", "idle")
      BY <1>13 DEF SkipBound
    <2>2. UNCHANGED job
      BY <1>13 DEF SkipBound
    <2>3. /\ pc' \in [Threads -> Labels] /\ idx' \in [Clients -> Nat]
          /\ LabelsOK' /\ CountersOK' /\ HandsOK'
      <3> HIDE DEF TInv, Workers, Threads
      <3> QED
        BY <2>1, <2>2, LoopKeeps DEF ClientLabels
    <2>4. TypeOK'
      BY <1>13, <2>3 DEF SkipBound, poolVars, listVars, workerVars, jobVars, TypeOK
    <2> QED
      BY <2>3, <2>4
  <1>14. CASE FoundUnbound(c)
    BY <1>14 DEF FoundUnbound, Goto, poolVars, listVars, workerVars, localVars, jobVars, LabelsOK, WorkerLabels, ClientLabels, CountersOK, HandsOK, TypeOK, Labels
  <1>15. CASE SetList(c)
    <2>1. Goto(c, "bind_set", "bind_post") /\ UNCHANGED job /\ job[c] = NoJob /\ c \in Threads /\ c \notin Workers
      BY <1>15 DEF SetList, Goto, HandsOK
    <2>2. \A d \in Clients : idx[d] \in Workers => idx'[d] \in Workers
      BY <1>15 DEF SetList, TypeOK
    <2>3. "bind_post" \in Labels /\ "bind_post" \in ClientLabels
      BY DEF Labels, ClientLabels
    <2>4. pc' \in [Threads -> Labels] /\ LabelsOK' /\ CountersOK' /\ HandsOK'
      BY <2>1, <2>2, <2>3, GotoKeeps
    <2>5. TypeOK'
      <3>1. idx[c] \in Workers
        BY <2>1 DEF Goto, CountersOK
      <3> QED
        BY <1>15, <2>4, <3>1 DEF SetList, poolVars, listVars, workerVars, localVars, jobVars, TypeOK
    <2> QED
      BY <2>4, <2>5
  <1>16. CASE WakeMain(c)
    <2>1. LoopStep(c, "bind_post", NumThreads, "bind_post", "idle")
      BY <1>16 DEF WakeMain
    <2>2. UNCHANGED job
      BY <1>16 DEF WakeMain
    <2>3. /\ pc' \in [Threads -> Labels] /\ idx' \in [Clients -> Nat]
          /\ LabelsOK' /\ CountersOK' /\ HandsOK'
      <3> HIDE DEF TInv, Workers, Threads
      <3> QED
        BY <2>1, <2>2, LoopKeeps DEF ClientLabels
    <2>4. sem' \in [Queues -> Nat]
      BY <1>16, PostLemma DEF TypeOK, WakeMain
    <2>5. TypeOK'
      BY <1>16, <2>3, <2>4 DEF WakeMain, poolVars, listVars, workerVars, jobVars, TypeOK
    <2> QED
      BY <2>3, <2>5
  <1>17. CASE LockBound(c)
    BY <1>17 DEF LockBound, Goto, poolVars, listVars, workerVars, localVars, jobVars, LabelsOK, WorkerLabels, ClientLabels, CountersOK, HandsOK, TypeOK, Labels
  <1>18. CASE ResetList(c)
    <2>1. Goto(c, "unb_set", "unb_unlock") /\ UNCHANGED job /\ job[c] = NoJob /\ c \in Threads /\ c \notin Workers
      BY <1>18 DEF ResetList, Goto, HandsOK, localVars
    <2>2. \A d \in Clients : idx[d] \in Workers => idx'[d] \in Workers
      BY <1>18 DEF ResetList, localVars
    <2>3. "unb_unlock" \in Labels /\ "unb_unlock" \in ClientLabels
      BY DEF Labels, ClientLabels
    <2>4. pc' \in [Threads -> Labels] /\ LabelsOK' /\ CountersOK' /\ HandsOK'
      BY <2>1, <2>2, <2>3, GotoKeeps
    <2>5. TypeOK'
      <3>1. idx[c] \in Workers
        BY <2>1 DEF Goto, CountersOK
      <3> QED
        BY <1>18, <2>4, <3>1 DEF ResetList, poolVars, listVars, workerVars, localVars, jobVars, TypeOK
    <2> QED
      BY <2>4, <2>5
  <1>19. CASE UnlockBound(c)
    <2>1. LoopStep(c, "unb_unlock", NumThreads, "unb_lock", "idle")
      BY <1>19 DEF UnlockBound
    <2>2. UNCHANGED job
      BY <1>19 DEF UnlockBound
    <2>3. /\ pc' \in [Threads -> Labels] /\ idx' \in [Clients -> Nat]
          /\ LabelsOK' /\ CountersOK' /\ HandsOK'
      <3> HIDE DEF TInv, Workers, Threads
      <3> QED
        BY <2>1, <2>2, LoopKeeps DEF ClientLabels
    <2>4. TypeOK'
      BY <1>19, <2>3 DEF UnlockBound, poolVars, listVars, workerVars, jobVars, TypeOK
    <2> QED
      BY <2>3, <2>4
  <1>20. CASE FlagWorker(c)
    <2>1. LoopStep(c, "end_flag", NumThreads, "end_flag", "end_quit")
      BY <1>20 DEF FlagWorker
    <2>2. UNCHANGED job
      BY <1>20 DEF FlagWorker
    <2>3. /\ pc' \in [Threads -> Labels] /\ idx' \in [Clients -> Nat]
          /\ LabelsOK' /\ CountersOK' /\ HandsOK'
      <3> HIDE DEF TInv, Workers, Threads
      <3> QED
        BY <2>1, <2>2, LoopKeeps DEF ClientLabels
    <2>4. TypeOK'
      BY <1>20, <2>3 DEF FlagWorker, poolVars, listVars, workerVars, jobVars, TypeOK
    <2> QED
      BY <2>3, <2>4
  <1>21. CASE QuitList(c)
    <2>1. LoopStep(c, "end_quit", NumThreads, "end_quit", "end_post")
      BY <1>21 DEF QuitList
    <2>2. UNCHANGED job
      BY <1>21 DEF QuitList
    <2>3. /\ pc' \in [Threads -> Labels] /\ idx' \in [Clients -> Nat]
          /\ LabelsOK' /\ CountersOK' /\ HandsOK'
      <3> HIDE DEF TInv, Workers, Threads
      <3> QED
        BY <2>1, <2>2, LoopKeeps DEF ClientLabels
    <2>4. TypeOK'
      BY <1>21, <2>3 DEF QuitList, poolVars, listVars, workerVars, jobVars, TypeOK
    <2> QED
      BY <2>3, <2>4
  <1>22. CASE WakeWorker(c)
    <2>1. LoopStep(c, "end_post", 4 * NumThreads, "end_post", "end_join")
      BY <1>22 DEF WakeWorker
    <2>2. /\ pc[c] = "end_post" /\ idx' \in [Clients -> Nat]
          /\ \A d \in Clients \ {c} : idx'[d] = idx[d]
          /\ \/ pc' = [pc EXCEPT ![c] = "end_post"]
             \/ pc' = [pc EXCEPT ![c] = "end_join"] /\ idx'[c] = 0
      <3>1. 4 * NumThreads \in Nat \ {0}
        OBVIOUS
      <3> QED
        BY <2>1, <3>1, LoopLemma DEF TypeOK
    <2>3. sem' \in [Queues -> Nat]
      <3>1. idx[c] % NumThreads \in Workers
        BY DEF TypeOK
      <3>2. jobsOf[idx[c] % NumThreads] \in Queues
        BY <3>1 DEF TypeOK
      <3> QED
        BY <1>22, <3>2, PostLemma DEF TypeOK, WakeWorker
    <2>4. pc' \in [Threads -> Labels]
      <3>1. "end_post" \in Labels /\ "end_join" \in Labels
        BY DEF Labels
      <3>2. pc \in [Threads -> Labels]
        BY DEF TypeOK
      <3> QED
        BY <2>2, <3>1, <3>2
    <2>5. TypeOK'
      BY <1>22, <2>2, <2>3, <2>4 DEF WakeWorker, poolVars, listVars, workerVars, localVars, jobVars, TypeOK, Labels
    <2>6. LabelsOK'
      BY <1>22, <2>2, <2>3, <2>4 DEF WakeWorker, poolVars, listVars, workerVars, localVars, jobVars, TypeOK, LabelsOK, WorkerLabels, ClientLabels
    <2>7. CountersOK'
      BY <1>22, <2>2, <2>3, <2>4 DEF WakeWorker, poolVars, listVars, workerVars, localVars, jobVars, TypeOK, CountersOK
    <2>8. HandsOK'
      BY <1>22, <2>2, <2>3, <2>4 DEF WakeWorker, poolVars, listVars, workerVars, localVars, jobVars, TypeOK, HandsOK
    <2> QED
      BY <2>5, <2>6, <2>7, <2>8
  <1>23. CASE JoinWorker(c)
    <2>1. /\ pc[c] = "end_join" /\ idx[c] \in Workers /\ c \notin Workers
          /\ idx' = [idx EXCEPT ![c] = IF idx[c] + 1 = NumThreads THEN 0 ELSE idx[c] + 1]
          /\ pc' = [pc EXCEPT ![c] = IF idx[c] + 1 = NumThreads THEN "idle" ELSE "end_join",
                              ![idx[c]] = "off"]
      BY <1>23 DEF JoinWorker, CountersOK
    <2>2. /\ idx' \in [Clients -> Nat]
          /\ idx'[c] \in Workers
          /\ \A d \in Clients \ {c} : idx'[d] = idx[d]
      BY <2>1 DEF TypeOK
    <2>3. /\ pc'[c] \in {"idle", "end_join"}
          /\ pc'[idx[c]] = "off"
          /\ \A t \in Threads \ {c, idx[c]} : pc'[t] = pc[t]
          /\ pc' \in [Threads -> Labels]
      BY <2>1 DEF TypeOK, Labels
    <2>4. TypeOK'
      BY <1>23, <2>1, <2>2, <2>3 DEF JoinWorker, TypeOK, poolVars, listVars, workerVars, localVars, jobVars
    <2>5. LabelsOK'
      BY <2>1, <2>3 DEF LabelsOK, WorkerLabels, ClientLabels
    <2>6. CountersOK'
      BY <2>1, <2>2, <2>3 DEF CountersOK
    <2>7. HandsOK'
      BY <1>23, <2>1, <2>3 DEF JoinWorker, HandsOK, localVars, LabelsOK, WorkerLabels
    <2> QED
      BY <2>4, <2>5, <2>6, <2>7
  <1>24. CASE JobStep(c)
    BY <1>24, TJob
  <1> HIDE DEF TInv
  <1> QED
    BY <1>1, <1>2, <1>3, <1>4, <1>5, <1>6, <1>7, <1>8, <1>9, <1>10, <1>11, <1>12, <1>13, <1>14, <1>15, <1>16, <1>17, <1>18, <1>19, <1>20, <1>21, <1>22, <1>23, <1>24 DEF ClientStep

(* and when a client makes a call.                                         *)
LEMMA TCall ==
    ASSUME TInv, NEW c \in Clients, ClientCall(c)
    PROVE  TInv'
  <1> USE ConstantFacts DEF TInv
  <1>1. ASSUME NEW j \in Jobs, NEW q \in Queues, QueueJob(c, j, q)
        PROVE  TInv'
    <2>1. queue' \in [Queues -> Seq(Jobs)]
      <3>1. queue[q] \in Seq(Jobs) /\ <<j>> \in Seq(Jobs)
        BY DEF TypeOK
      <3>2. <<j>> \o queue[q] \in Seq(Jobs) /\ Append(queue[q], j) \in Seq(Jobs)
        BY <3>1, ConcatProperties, AppendProperties
      <3> QED
        BY <1>1, <3>2 DEF QueueJob, Enqueue, TypeOK
    <2>2. TypeOK'
      BY <1>1, <2>1 DEF QueueJob, Enqueue, Goto, TypeOK, Labels, poolVars, workerVars
    <2>3. LabelsOK' /\ CountersOK' /\ HandsOK'
      BY <1>1 DEF QueueJob, Goto, TypeOK, LabelsOK, WorkerLabels, ClientLabels,
                  CountersOK, HandsOK
    <2> QED
      BY <2>2, <2>3
  <1>2. CASE CallInit(c)
    <2>1. inits' \in 0 .. MaxInits /\ threads' \in BOOLEAN
      BY <1>2 DEF CallInit, TypeOK
    <2>2. StartCall(c, "init") /\ UNCHANGED job /\ "init" \in ClientLabels \ {"run", "run_post"}
      BY <1>2 DEF CallInit, ClientLabels
    <2>3. /\ pc' \in [Threads -> Labels] /\ idx' \in [Clients -> Nat]
          /\ LabelsOK' /\ CountersOK' /\ HandsOK'
      BY <2>2, StartLemma
    <2>4. TypeOK'
      BY <1>2, <2>1, <2>3 DEF CallInit, listVars, workerVars, jobVars, TypeOK
    <2> QED
      BY <2>3, <2>4
  <1>3. CASE CallFinish(c)
    <2>1. PICK to \in {"fq_spin", "fq_list"} : StartCall(c, to)
      BY <1>3 DEF CallFinish
    <2>2. UNCHANGED <<poolVars, listVars, workerVars, job, list, jobVars>>
      BY <1>3 DEF CallFinish
    <2>3. to \in ClientLabels \ {"run", "run_post"}
      BY DEF ClientLabels
    <2> HIDE DEF Workers, Threads
    <2>4. /\ pc' \in [Threads -> Labels] /\ idx' \in [Clients -> Nat]
          /\ LabelsOK' /\ CountersOK' /\ HandsOK'
      BY <2>1, <2>2, <2>3, StartLemma
    <2> QED
      BY <2>2, <2>4 DEF poolVars, listVars, workerVars, jobVars, TypeOK
  <1>4. ASSUME NEW q \in BoundQueues, CallBind(c, q) \/ CallUnbind(c, q)
        PROVE  TInv'
    <2>1. PICK to \in {"bind_scan", "unb_lock"} : StartCall(c, to)
      BY <1>4 DEF CallBind, CallUnbind
    <2>2. /\ list' = [list EXCEPT ![c] = q]
          /\ UNCHANGED <<poolVars, listVars, workerVars, job, jobVars>>
      BY <1>4 DEF CallBind, CallUnbind
    <2>3. to \in ClientLabels \ {"run", "run_post"}
      BY DEF ClientLabels
    <2>4. /\ pc' \in [Threads -> Labels] /\ idx' \in [Clients -> Nat]
          /\ LabelsOK' /\ CountersOK' /\ HandsOK'
      BY <2>1, <2>2, <2>3, StartLemma
    <2> QED
      BY <2>2, <2>4 DEF poolVars, listVars, workerVars, jobVars, TypeOK
  <1>5. CASE CallEnd(c)
    <2>1. /\ StartCall(c, "end_flag") /\ UNCHANGED job
          /\ "end_flag" \in ClientLabels \ {"run", "run_post"}
      BY <1>5 DEF CallEnd, ClientLabels
    <2>2. /\ pc' \in [Threads -> Labels] /\ idx' \in [Clients -> Nat]
          /\ LabelsOK' /\ CountersOK' /\ HandsOK'
      BY <2>1, StartLemma
    <2>3. TypeOK'
      BY <1>5, <2>2 DEF CallEnd, poolVars, listVars, workerVars, jobVars, TypeOK
    <2> QED
      BY <2>2, <2>3
  <1> HIDE DEF TInv
  <1> QED
    BY <1>1, <1>2, <1>3, <1>4, <1>5 DEF ClientCall

(* TInv is inductive.                                                      *)
LEMMA TNext == TInv /\ [Next]_vars => TInv'
  <1> SUFFICES ASSUME TInv, [Next]_vars PROVE TInv'
    OBVIOUS
  <1>1. ASSUME NEW w \in Workers, WorkerStep(w) PROVE TInv'
    BY <1>1, TWorker
  <1>2. ASSUME NEW c \in Clients, ClientStep(c) PROVE TInv'
    BY <1>2, TClient
  <1>3. ASSUME NEW c \in Clients, ClientCall(c) PROVE TInv'
    BY <1>3, TCall
  <1>4. CASE UNCHANGED vars
    BY <1>4 DEF vars, poolVars, listVars, workerVars, localVars, jobVars,
                TInv, TypeOK, LabelsOK, CountersOK, HandsOK
  <1> HIDE DEF Workers
  <1> QED
    BY <1>1, <1>2, <1>3, <1>4 DEF Next

(* Every variable keeps its type, for any number of workers, clients and   *)
(* lists: in particular no step of ThreadLoop, FinishQueue or EndThreads   *)
(* indexes the array `threads` out of its bounds.                          *)
THEOREM TypeCorrect == Spec => []TypeOK
  <1>1. Init => TInv
    BY TInit
  <1>2. TInv /\ [Next]_vars => TInv'
    BY TNext
  <1>3. TInv => TypeOK
    BY DEF TInv
  <1> QED
    BY <1>1, <1>2, <1>3, PTL DEF Spec

-----------------------------------------------------------------------------
(* When workers exist and who holds a list                                 *)

(* A client that allocates or frees the array `threads`,                   *)
Managing == {"init", "end_flag", "end_quit", "end_post", "end_join"}

(* is the only one with a call under way,                                  *)
Exclusive ==
    \A c, d \in Clients :
        c # d /\ pc[c] \in Managing => pc[d] \in {"idle", "q_post"}

(* and the workers it has not started yet, or has joined, do not exist.    *)
Started ==
    \A c \in Clients :
        /\ pc[c] \in Managing => threads
        /\ pc[c] = "init" => \A w \in Workers : w >= idx[c] => pc[w] = "off"
        /\ pc[c] = "end_join" => \A w \in Workers : w < idx[c] => pc[w] = "off"

PInv == Exclusive /\ Started /\ NoWorkerOutlivesPool

(* What the assumptions say of threads.                                    *)
LEMMA ThreadFacts ==
    /\ Clients \subseteq Threads
    /\ Workers \subseteq Threads
    /\ \A c \in Clients, w \in Workers : c # w
    /\ \A w \in Workers : w \in Nat /\ w < NumThreads
    /\ NumThreads \in Nat
  BY ConstantFacts DEF Threads, Workers

(* A worker that moves on, with the array left as it is.                   *)
LEMMA WorkerMoves ==
    ASSUME TInv, PInv, NEW w \in Workers, NEW to,
           pc[w] # "off", pc' = [pc EXCEPT ![w] = to],
           UNCHANGED <<threads, idx>>
    PROVE  PInv'
  <1>1. w \in Threads /\ \A c \in Clients : c # w /\ c \in Threads
    BY ThreadFacts
  <1>2. pc \in [Threads -> Labels]
    BY DEF TInv, TypeOK
  <1>3. /\ \A c \in Clients : pc'[c] = pc[c]
        /\ \A v \in Workers : pc[v] = "off" => pc'[v] = "off"
    BY <1>1, <1>2, ThreadFacts
  <1>4. Exclusive'
    BY <1>3 DEF PInv, Exclusive
  <1>5. Started'
    BY <1>3 DEF PInv, Started
  <1>6. NoWorkerOutlivesPool'
    BY <1>3 DEF PInv, NoWorkerOutlivesPool
  <1> QED
    BY <1>4, <1>5, <1>6 DEF PInv

(* A client that moves on and does not manage the array: it starts a call  *)
(* only while nobody does.                                                 *)
LEMMA ClientMoves ==
    ASSUME TInv, PInv, NEW c \in Clients, NEW to,
           pc' = [pc EXCEPT ![c] = to], to \notin Managing,
           \/ pc[c] \notin {"idle", "q_post"}
           \/ to \in {"idle", "q_post"}
           \/ \A d \in Clients \ {c} : pc[d] \notin Managing,
           UNCHANGED threads, \A d \in Clients \ {c} : idx'[d] = idx[d]
    PROVE  PInv'
  <1>1. c \in Threads /\ \A w \in Workers : c # w /\ w \in Threads
    BY ThreadFacts
  <1>2. pc \in [Threads -> Labels]
    BY DEF TInv, TypeOK
  <1>3. /\ pc'[c] = to
        /\ \A d \in Clients \ {c} : pc'[d] = pc[d]
        /\ \A w \in Workers : pc'[w] = pc[w]
    BY <1>1, <1>2, ThreadFacts
  <1>4. Exclusive'
    BY <1>3 DEF PInv, Exclusive
  <1>5. Started'
    BY <1>3 DEF PInv, Started, Managing
  <1>6. NoWorkerOutlivesPool'
    BY <1>3 DEF PInv, NoWorkerOutlivesPool
  <1> QED
    BY <1>4, <1>5, <1>6 DEF PInv

(* EndThreads moves on, up to its joins.                                   *)
LEMMA ManagerMoves ==
    ASSUME TInv, PInv, NEW c \in Clients, NEW to,
           pc[c] \in Managing, pc' = [pc EXCEPT ![c] = to],
           to \in {"end_flag", "end_quit", "end_post"} \/ (to = "end_join" /\ idx'[c] = 0),
           UNCHANGED threads, \A d \in Clients \ {c} : idx'[d] = idx[d]
    PROVE  PInv'
  <1>1. c \in Threads /\ \A w \in Workers : c # w /\ w \in Threads
    BY ThreadFacts
  <1>2. pc \in [Threads -> Labels]
    BY DEF TInv, TypeOK
  <1>3. /\ pc'[c] = to
        /\ \A d \in Clients \ {c} : pc'[d] = pc[d]
        /\ \A w \in Workers : pc'[w] = pc[w]
    BY <1>1, <1>2, ThreadFacts
  <1>4. \A d \in Clients \ {c} : pc[d] \in {"idle", "q_post"}
    BY DEF PInv, Exclusive
  <1>5. \A w \in Workers : ~(w < 0)
    BY ThreadFacts
  <1>6. Exclusive'
    BY <1>3, <1>4 DEF Exclusive, Managing
  <1>7. Started'
    BY <1>3, <1>4, <1>5 DEF PInv, Started, Managing
  <1>8. NoWorkerOutlivesPool'
    BY <1>3 DEF PInv, NoWorkerOutlivesPool
  <1> QED
    BY <1>6, <1>7, <1>8 DEF PInv

(* InitThreads starts a worker,                                            *)
LEMMA InitMoves ==
    ASSUME TInv, PInv, NEW c \in Clients, InitThread(c)
    PROVE  PInv'
  <1> DEFINE v == idx[c]
  <1>1. /\ pc[c] = "init" /\ v \in Workers /\ c \notin Workers
        /\ pc' = [pc EXCEPT ![c] = IF v + 1 = NumThreads THEN "idle" ELSE "init",
                            ![v] = "check"]
        /\ idx' = [idx EXCEPT ![c] = IF v + 1 = NumThreads THEN 0 ELSE v + 1]
        /\ UNCHANGED threads
    BY ThreadFacts DEF InitThread, TInv, CountersOK, poolVars
  <1>2. pc \in [Threads -> Labels] /\ idx \in [Clients -> Nat]
    BY DEF TInv, TypeOK
  <1>3. /\ pc'[c] = IF v + 1 = NumThreads THEN "idle" ELSE "init"
        /\ \A d \in Clients \ {c} : pc'[d] = pc[d]
        /\ \A w \in Workers \ {v} : pc'[w] = pc[w]
        /\ idx'[c] = IF v + 1 = NumThreads THEN 0 ELSE v + 1
    BY <1>1, <1>2, ThreadFacts
  <1>4. \A d \in Clients \ {c} : pc[d] \in {"idle", "q_post"}
    BY <1>1 DEF PInv, Exclusive, Managing
  <1>5. threads' /\ \A w \in Workers : w >= v => pc[w] = "off"
    BY <1>1 DEF PInv, Started, Managing
  <1>6. \A w \in Workers : w >= v + 1 => w >= v /\ w # v
    BY <1>1, ThreadFacts
  <1> HIDE DEF v
  <1>7. Exclusive'
    BY <1>3, <1>4 DEF Exclusive, Managing
  <1>8. Started'
    <2> SUFFICES ASSUME NEW d \in Clients
                 PROVE  /\ pc'[d] \in Managing => threads'
                        /\ pc'[d] = "init" => \A w \in Workers : w >= idx'[d] => pc'[w] = "off"
                        /\ pc'[d] # "end_join"
      BY DEF Started
    <2>1. CASE d = c /\ v + 1 = NumThreads
      BY <2>1, <1>3, <1>5
    <2>2. CASE d = c /\ v + 1 # NumThreads
      <3>1. pc'[c] = "init" /\ idx'[c] = v + 1
        BY <2>2, <1>3
      <3>2. \A w \in Workers : w >= v + 1 => pc'[w] = "off"
        BY <1>3, <1>5, <1>6
      <3> QED
        BY <2>2, <3>1, <3>2, <1>5
    <2>3. CASE d # c
      BY <2>3, <1>3, <1>4 DEF Managing
    <2> QED
      BY <2>1, <2>2, <2>3
  <1>9. NoWorkerOutlivesPool'
    BY <1>1, <1>5 DEF NoWorkerOutlivesPool
  <1> QED
    BY <1>7, <1>8, <1>9 DEF PInv

(* and EndThreads joins one.                                               *)
LEMMA JoinMoves ==
    ASSUME TInv, PInv, NEW c \in Clients, JoinWorker(c)
    PROVE  PInv'
  <1> DEFINE v == idx[c]
  <1> DEFINE last == v + 1 = NumThreads
  <1>1. /\ pc[c] = "end_join" /\ v \in Workers /\ c \notin Workers
        /\ pc' = [pc EXCEPT ![c] = IF last THEN "idle" ELSE "end_join", ![v] = "off"]
        /\ idx' = [idx EXCEPT ![c] = IF last THEN 0 ELSE v + 1]
        /\ threads' = ~last
    BY ThreadFacts DEF JoinWorker, TInv, CountersOK
  <1>2. pc \in [Threads -> Labels] /\ idx \in [Clients -> Nat]
    BY DEF TInv, TypeOK
  <1>3. /\ pc'[c] = IF last THEN "idle" ELSE "end_join"
        /\ \A d \in Clients \ {c} : pc'[d] = pc[d]
        /\ \A w \in Workers \ {v} : pc'[w] = pc[w]
        /\ pc'[v] = "off"
        /\ idx'[c] = IF last THEN 0 ELSE v + 1
    BY <1>1, <1>2, ThreadFacts
  <1>4. \A d \in Clients \ {c} : pc[d] \in {"idle", "q_post"}
    BY <1>1 DEF PInv, Exclusive, Managing
  <1>5. \A w \in Workers : w < v => pc[w] = "off"
    BY <1>1 DEF PInv, Started
  <1>6. /\ \A w \in Workers : w < v + 1 => w < v \/ w = v
        /\ last => \A w \in Workers : w < v \/ w = v
    BY <1>1, ThreadFacts
  <1> HIDE DEF v, last
  <1>7. Exclusive'
    BY <1>3, <1>4 DEF Exclusive, Managing
  <1>8. Started'
    <2> SUFFICES ASSUME NEW d \in Clients
                 PROVE  /\ pc'[d] \in Managing => threads'
                        /\ pc'[d] # "init"
                        /\ pc'[d] = "end_join" => \A w \in Workers : w < idx'[d] => pc'[w] = "off"
      BY DEF Started
    <2>1. CASE d = c /\ last
      BY <2>1, <1>3 DEF Managing
    <2>2. CASE d = c /\ ~last
      <3>1. threads' /\ pc'[c] = "end_join" /\ idx'[c] = v + 1
        BY <2>2, <1>1, <1>3
      <3>2. \A w \in Workers : w < v + 1 => pc'[w] = "off"
        BY <1>3, <1>5, <1>6
      <3> QED
        BY <2>2, <3>1, <3>2
    <2>3. CASE d # c
      BY <2>3, <1>3, <1>4 DEF Managing
    <2> QED
      BY <2>1, <2>2, <2>3
  <1>9. NoWorkerOutlivesPool'
    BY <1>1, <1>3, <1>5, <1>6 DEF NoWorkerOutlivesPool
  <1> QED
    BY <1>7, <1>8, <1>9 DEF PInv

(* PInv holds at the start,                                                *)
LEMMA PInit == Init => PInv
  <1> SUFFICES ASSUME Init PROVE PInv
    OBVIOUS
  <1>1. /\ \A c \in Clients : pc[c] = "idle"
        /\ \A w \in Workers : pc[w] = "off"
    BY ThreadFacts DEF Init
  <1> QED
    BY <1>1 DEF PInv, Exclusive, Started, NoWorkerOutlivesPool, Managing

(* The step of a loop, as one move.                                        *)
LEMMA LoopMoves ==
    ASSUME TInv, NEW c \in Clients,
           NEW from, NEW limit, NEW again, NEW after,
           LoopStep(c, from, limit, again, after)
    PROVE  /\ pc[c] = from
           /\ \A d \in Clients \ {c} : idx'[d] = idx[d]
           /\ \/ pc' = [pc EXCEPT ![c] = again]
              \/ pc' = [pc EXCEPT ![c] = after] /\ idx'[c] = 0
  <1>1. idx \in [Clients -> Nat]
    BY DEF TInv, TypeOK
  <1>2. CASE idx[c] + 1 < limit
    BY <1>1, <1>2 DEF LoopStep, Goto
  <1>3. CASE ~(idx[c] + 1 < limit)
    BY <1>1, <1>3 DEF LoopStep, Goto
  <1> QED
    BY <1>2, <1>3

(* in every step of RunJob,                                                *)
LEMMA PJob ==
    ASSUME TInv, PInv, NEW t \in Threads, JobStep(t)
    PROVE  PInv'
  <1>1. PICK to \in {"run", "run_post", "reload", "fq_try"} :
            /\ pc[t] \in {"run", "run_post"}
            /\ pc' = [pc EXCEPT ![t] = to]
            /\ UNCHANGED <<threads, idx>>
    BY DEF JobStep, Spawn, PostSpawned, RunJob, Goto, poolVars, localVars
  <1>2. CASE t \in Workers
    BY <1>1, <1>2, WorkerMoves
  <1>3. CASE t \in Clients
    BY <1>1, <1>3, ClientMoves DEF Managing
  <1> QED
    BY <1>2, <1>3 DEF Threads

(* of a worker,                                                            *)
LEMMA PWorker ==
    ASSUME TInv, PInv, NEW w \in Workers, WorkerStep(w)
    PROVE  PInv'
  <1>1. CASE JobStep(w)
    BY <1>1, PJob, ThreadFacts
  <1>2. CASE ~JobStep(w)
    <2>1. /\ pc[w] # "off"
          /\ UNCHANGED <<threads, idx>>
          /\ \E to : pc' = [pc EXCEPT ![w] = to]
      BY <1>2 DEF WorkerStep, CheckQuit, ReloadList, UnlockJob, WaitForJob, PassOnQuit,
                  GoOnToPop, PopNothing, HoldList, LockJob, PopJob, Goto, poolVars, localVars
    <2> QED
      BY <2>1, WorkerMoves
  <1> QED
    BY <1>1, <1>2

(* of a client inside a call,                                              *)
LEMMA PClient ==
    ASSUME TInv, PInv, NEW c \in Clients, ClientStep(c)
    PROVE  PInv'
  <1>1. CASE JobStep(c)
    BY <1>1, PJob, ThreadFacts
  <1>2. CASE InitThread(c)
    BY <1>2, InitMoves
  <1>3. CASE JoinWorker(c)
    BY <1>3, JoinMoves
  <1>4. CASE PostQueued(c) \/ PickList(c) \/ TryToken(c) \/ TryGoOn(c) \/ TryPop(c)
             \/ SpinUntilEmpty(c) \/ LockWorker(c) \/ FoundUnbound(c) \/ SetList(c)
             \/ LockBound(c) \/ ResetList(c)
    <2>1. PICK to \in {"idle", "fq_try", "fq_woken", "fq_pop", "run", "fq_lock", "fq_unlock",
                       "bind_set", "bind_post", "unb_set", "unb_unlock"} :
              /\ pc[c] \notin {"idle", "q_post"} \/ to = "idle"
              /\ pc' = [pc EXCEPT ![c] = to]
      BY <1>4 DEF PostQueued, PickList, TryToken, TryGoOn, TryPop, SpinUntilEmpty, LockWorker,
                  FoundUnbound, SetList, LockBound, ResetList, Goto
    <2>2. UNCHANGED threads /\ \A d \in Clients \ {c} : idx'[d] = idx[d]
      <3>1. idx \in [Clients -> Nat]
        BY DEF TInv, TypeOK
      <3> QED
        BY <1>4, <3>1 DEF PostQueued, PickList, TryToken, TryGoOn, TryPop, SpinUntilEmpty,
                  LockWorker, FoundUnbound, SetList, LockBound, ResetList, poolVars, localVars
    <2> QED
      BY <2>1, <2>2, ClientMoves DEF Managing
  <1>5. CASE NoToken(c) \/ TryQuit(c) \/ TryPopNothing(c) \/ UnlockWorker(c)
             \/ SkipBound(c) \/ WakeMain(c) \/ UnlockBound(c)
    <2>1. PICK from \in {"fq_try", "fq_woken", "fq_pop", "fq_unlock", "bind_scan",
                         "bind_post", "unb_unlock"},
               again \in {"fq_list", "fq_spin", "bind_scan", "bind_post", "unb_lock"},
               after \in {"fq_spin", "idle"} :
                  LoopStep(c, from, NumThreads, again, after)
      BY <1>5 DEF NoToken, TryQuit, TryPopNothing, NextList, UnlockWorker, SkipBound,
                  WakeMain, UnlockBound
    <2>2. UNCHANGED threads
      BY <1>5 DEF NoToken, TryQuit, TryPopNothing, UnlockWorker, SkipBound, WakeMain,
                  UnlockBound, poolVars
    <2>3. /\ pc[c] = from
          /\ \A d \in Clients \ {c} : idx'[d] = idx[d]
          /\ \/ pc' = [pc EXCEPT ![c] = again]
             \/ pc' = [pc EXCEPT ![c] = after]
      BY <2>1, LoopMoves
    <2>4. again \notin Managing /\ after \notin Managing /\ pc[c] \notin {"idle", "q_post"}
      BY <2>3 DEF Managing
    <2> QED
      BY <2>2, <2>3, <2>4, ClientMoves
  <1>6. CASE FlagWorker(c) \/ QuitList(c) \/ WakeWorker(c)
    <2>1. UNCHANGED threads
      BY <1>6 DEF FlagWorker, QuitList, WakeWorker, poolVars
    <2>2. PICK from \in {"end_flag", "end_quit", "end_post"},
               again \in {"end_flag", "end_quit", "end_post"},
               after \in {"end_quit", "end_post", "end_join"},
               limit \in {NumThreads, 4 * NumThreads} :
                  LoopStep(c, from, limit, again, after)
      BY <1>6 DEF FlagWorker, QuitList, WakeWorker
    <2>3. /\ pc[c] = from
          /\ \A d \in Clients \ {c} : idx'[d] = idx[d]
          /\ \/ pc' = [pc EXCEPT ![c] = again]
             \/ pc' = [pc EXCEPT ![c] = after] /\ idx'[c] = 0
      BY <2>2, LoopMoves
    <2>4. pc[c] \in Managing
      BY <2>3 DEF Managing
    <2> QED
      BY <2>1, <2>3, <2>4, ManagerMoves
  <1> QED
    BY <1>1, <1>2, <1>3, <1>4, <1>5, <1>6 DEF ClientStep

(* and of a client that starts one.                                        *)
LEMMA PCall ==
    ASSUME TInv, PInv, NEW c \in Clients, ClientCall(c)
    PROVE  PInv'
  <1>1. idx \in [Clients -> Nat] /\ pc \in [Threads -> Labels]
    BY DEF TInv, TypeOK
  <1>2. ASSUME NEW j \in Jobs, NEW q \in Queues, QueueJob(c, j, q)
        PROVE  PInv'
    <2>1. pc' = [pc EXCEPT ![c] = "q_post"] /\ UNCHANGED <<threads, idx>>
      BY <1>2 DEF QueueJob, Goto, poolVars
    <2> QED
      BY <2>1, ClientMoves DEF Managing
  <1>3. CASE CallInit(c)
    <2>1. /\ ~threads /\ threads'
          /\ \A d \in Clients \ {c} : pc[d] \in {"idle", "q_post"}
          /\ pc' = [pc EXCEPT ![c] = "init"]
      BY <1>3 DEF CallInit, Alone, StartCall, Goto
    <2>2. /\ pc'[c] = "init"
          /\ \A d \in Clients \ {c} : pc'[d] = pc[d]
          /\ \A w \in Workers : pc'[w] = pc[w]
      BY <1>1, <2>1, ThreadFacts
    <2>3. \A w \in Workers : pc[w] = "off"
      BY <2>1 DEF PInv, NoWorkerOutlivesPool
    <2> QED
      BY <2>1, <2>2, <2>3 DEF PInv, Exclusive, Started, NoWorkerOutlivesPool, Managing
  <1>4. CASE CallEnd(c)
    <2>1. /\ threads /\ threads'
          /\ \A d \in Clients \ {c} : pc[d] \in {"idle", "q_post"}
          /\ pc' = [pc EXCEPT ![c] = "end_flag"]
      BY <1>4 DEF CallEnd, Alone, StartCall, Goto, poolVars
    <2>2. /\ pc'[c] = "end_flag"
          /\ \A d \in Clients \ {c} : pc'[d] = pc[d]
      BY <1>1, <2>1, ThreadFacts
    <2> QED
      BY <2>1, <2>2 DEF PInv, Exclusive, Started, NoWorkerOutlivesPool, Managing
  <1>5. ASSUME CallFinish(c) \/ \E q \in BoundQueues : CallBind(c, q) \/ CallUnbind(c, q)
        PROVE  PInv'
    <2>1. PICK to \in {"fq_spin", "fq_list", "bind_scan", "unb_lock"} :
              /\ StartCall(c, to)
              /\ Unmanaged(c)
              /\ UNCHANGED threads
      BY <1>5 DEF CallFinish, CallBind, CallUnbind, poolVars
    <2>2. /\ pc' = [pc EXCEPT ![c] = to]
          /\ \A d \in Clients \ {c} : idx'[d] = idx[d]
          /\ \A d \in Clients \ {c} : pc[d] \notin Managing
      BY <1>1, <2>1 DEF StartCall, Goto, Unmanaged, Managing
    <2> QED
      BY <2>1, <2>2, ClientMoves DEF Managing
  <1> QED
    BY <1>2, <1>3, <1>4, <1>5 DEF ClientCall

(* PInv is inductive, given the types.                                     *)
LEMMA PNext == TInv /\ PInv /\ [Next]_vars => PInv'
  <1> SUFFICES ASSUME TInv, PInv, [Next]_vars PROVE PInv'
    OBVIOUS
  <1>1. CASE UNCHANGED vars
    BY <1>1 DEF vars, poolVars, localVars, PInv, Exclusive, Started, NoWorkerOutlivesPool
  <1> QED
    BY <1>1, PWorker, PClient, PCall DEF Next

(* EndThreads frees the array only when every worker has been joined, and  *)
(* no worker exists before InitThreads has allocated it.                   *)
THEOREM WorkersNeedPool == Spec => []NoWorkerOutlivesPool
  <1>1. Init => TInv /\ PInv
    BY TInit, PInit
  <1>2. TInv /\ PInv /\ [Next]_vars => (TInv /\ PInv)'
    BY TNext, PNext
  <1>3. PInv => NoWorkerOutlivesPool
    BY DEF PInv
  <1> QED
    BY <1>1, <1>2, <1>3, PTL DEF Spec

-----------------------------------------------------------------------------
(* Who holds a list.                                                       *)

(* Between its look at front and its pop a worker holds its list.          *)
Holding == {"jlock", "pop"}

(* A step that leaves the locks alone and empties no list, by a thread     *)
(* that does not start or stop holding.                                    *)
LEMMA KeepsHolding ==
    ASSUME TInv, ListHeld, UNCHANGED listLock,
           \A q \in Queues : queue[q] # <<>> => queue'[q] # <<>>,
           \A w \in Workers : pc'[w] \in Holding <=> pc[w] \in Holding,
           \A w \in Workers : pc[w] \in Holding => list'[w] = list[w]
    PROVE  ListHeld'
  <1>1. /\ list \in [Threads -> Queues]
        /\ \A w \in Workers : list[w] \in Queues
    BY ThreadFacts DEF TInv, TypeOK
  <1>2. ASSUME NEW q \in Queues, listLock'[q] # Nobody
        PROVE  /\ listLock'[q] \in Workers
               /\ pc'[listLock'[q]] \in Holding
               /\ list'[listLock'[q]] = q
    BY <1>2 DEF ListHeld, Holding
  <1>3. ASSUME NEW w \in Workers, pc'[w] \in Holding
        PROVE  listLock'[list'[w]] = w /\ queue'[list'[w]] # <<>>
    BY <1>1, <1>3 DEF ListHeld, Holding
  <1> QED
    BY <1>2, <1>3 DEF ListHeld, Holding

(* The step of one thread that neither starts nor stops holding a list.    *)
LEMMA QuietHolding ==
    ASSUME TInv, ListHeld, UNCHANGED listLock,
           \A q \in Queues : queue[q] # <<>> => queue'[q] # <<>>,
           NEW t \in Threads, NEW to, pc' = [pc EXCEPT ![t] = to],
           t \in Workers => (to \in Holding <=> pc[t] \in Holding),
           \A w \in Workers : pc[w] \in Holding => list'[w] = list[w]
    PROVE  ListHeld'
  <1>1. pc \in [Threads -> Labels]
    BY DEF TInv, TypeOK
  <1>2. \A w \in Workers : pc'[w] \in Holding <=> pc[w] \in Holding
    BY <1>1, ThreadFacts
  <1> QED
    BY <1>2, KeepsHolding

(* A job that is queued empties no list.                                   *)
LEMMA EnqueueFills ==
    ASSUME TInv, NEW j \in Jobs, NEW q \in Queues, Enqueue(j, q)
    PROVE  \A p \in Queues : queue[p] # <<>> => queue'[p] # <<>>
  <1>1. queue \in [Queues -> Seq(Jobs)]
    BY DEF TInv, TypeOK
  <1>2. queue' = [queue EXCEPT ![q] = IF j \in Priority THEN <<j>> \o queue[q]
                                                        ELSE Append(queue[q], j)]
    BY DEF Enqueue
  <1>3. <<j>> \o queue[q] # <<>> /\ Append(queue[q], j) # <<>>
    BY <1>1
  <1> QED
    BY <1>1, <1>2, <1>3

(* A worker takes hold of a list with a job,                               *)
LEMMA HoldMoves ==
    ASSUME TInv, ListHeld, NEW w \in Workers, HoldList(w)
    PROVE  ListHeld'
  <1> DEFINE q == list[w]
  <1>1. /\ w \in Threads /\ q \in Queues
        /\ pc \in [Threads -> Labels]
        /\ listLock \in [Queues -> Threads \union {Nobody}]
    BY ThreadFacts DEF TInv, TypeOK
  <1>2. /\ pc[w] = "poplock" /\ pc' = [pc EXCEPT ![w] = "jlock"]
        /\ listLock[q] = Nobody /\ queue[q] # <<>>
        /\ listLock' = [listLock EXCEPT ![q] = w]
        /\ UNCHANGED <<queue, list>>
    BY DEF HoldList, Goto, localVars
  <1>3. /\ pc'[w] = "jlock"
        /\ \A v \in Workers \ {w} : pc'[v] = pc[v]
        /\ listLock'[q] = w
        /\ \A p \in Queues \ {q} : listLock'[p] = listLock[p]
    BY <1>1, <1>2, ThreadFacts
  <1>4. ASSUME NEW p \in Queues, listLock'[p] # Nobody
        PROVE  /\ listLock'[p] \in Workers
               /\ pc'[listLock'[p]] \in Holding
               /\ list'[listLock'[p]] = p
    <2>1. CASE p = q
      BY <2>1, <1>2, <1>3 DEF Holding
    <2>2. CASE p # q
      <3>1. /\ listLock'[p] = listLock[p] /\ listLock[p] \in Workers
            /\ pc[listLock[p]] \in Holding /\ list[listLock[p]] = p
        BY <2>2, <1>3, <1>4 DEF ListHeld, Holding
      <3>2. listLock[p] # w
        BY <3>1, <1>2 DEF Holding
      <3> QED
        BY <3>1, <3>2, <1>2, <1>3
    <2> QED
      BY <2>1, <2>2
  <1>5. ASSUME NEW v \in Workers, pc'[v] \in Holding
        PROVE  listLock'[list'[v]] = v /\ queue'[list'[v]] # <<>>
    <2>1. CASE v = w
      BY <2>1, <1>2, <1>3
    <2>2. CASE v # w
      <3>1. list[v] \in Queues /\ listLock[list[v]] = v /\ queue[list[v]] # <<>>
        BY <2>2, <1>3, <1>5, ThreadFacts DEF ListHeld, Holding, TInv, TypeOK
      <3>2. v # Nobody
        BY ThreadFacts, ConstantFacts
      <3>3. list[v] # q
        BY <3>1, <3>2, <1>2
      <3> QED
        BY <3>1, <3>3, <1>2, <1>3
    <2> QED
      BY <2>1, <2>2
  <1> QED
    BY <1>4, <1>5 DEF ListHeld, Holding

(* and lets it go with the pop, when no other worker can hold it.          *)
LEMMA PopMoves ==
    ASSUME TInv, ListHeld, NEW w \in Workers, PopJob(w)
    PROVE  ListHeld'
  <1> DEFINE q == list[w]
  <1>1. /\ w \in Threads /\ q \in Queues
        /\ pc \in [Threads -> Labels]
        /\ queue \in [Queues -> Seq(Jobs)]
        /\ listLock \in [Queues -> Threads \union {Nobody}]
    BY ThreadFacts DEF TInv, TypeOK
  <1>2. /\ pc[w] = "pop" /\ pc' = [pc EXCEPT ![w] = "check"]
        /\ listLock' = [listLock EXCEPT ![q] = Nobody]
        /\ queue' = [queue EXCEPT ![q] = Tail(queue[q])]
        /\ UNCHANGED list
    BY DEF PopJob, Unlink, Goto
  <1>3. /\ pc'[w] = "check"
        /\ \A v \in Workers \ {w} : pc'[v] = pc[v]
        /\ listLock'[q] = Nobody
        /\ \A p \in Queues \ {q} : listLock'[p] = listLock[p] /\ queue'[p] = queue[p]
    BY <1>1, <1>2, ThreadFacts
  <1>4. listLock[q] = w
    BY <1>2 DEF ListHeld
  <1>5. ASSUME NEW p \in Queues, listLock'[p] # Nobody
        PROVE  /\ listLock'[p] \in Workers
               /\ pc'[listLock'[p]] \in Holding
               /\ list'[listLock'[p]] = p
    <2>1. p # q
      BY <1>3, <1>5
    <2>2. /\ listLock'[p] = listLock[p] /\ listLock[p] \in Workers
          /\ pc[listLock[p]] \in Holding /\ list[listLock[p]] = p
      BY <2>1, <1>3, <1>5 DEF ListHeld, Holding
    <2>3. listLock[p] # w
      BY <2>1, <2>2
    <2> QED
      BY <2>2, <2>3, <1>2, <1>3
  <1>6. ASSUME NEW v \in Workers, pc'[v] \in Holding
        PROVE  listLock'[list'[v]] = v /\ queue'[list'[v]] # <<>>
    <2>1. v # w
      BY <1>3, <1>6 DEF Holding
    <2>2. list[v] \in Queues /\ listLock[list[v]] = v /\ queue[list[v]] # <<>>
      BY <2>1, <1>3, <1>6, ThreadFacts DEF ListHeld, Holding, TInv, TypeOK
    <2>3. list[v] # q
      BY <2>1, <2>2, <1>4
    <2> QED
      BY <2>2, <2>3, <1>2, <1>3
  <1> QED
    BY <1>5, <1>6 DEF ListHeld, Holding

(* FinishQueue pops from lists that nobody holds.                          *)
LEMMA TryPopMoves ==
    ASSUME TInv, ListHeld, NEW c \in Clients, TryPop(c)
    PROVE  ListHeld'
  <1> DEFINE q == list[c]
  <1>1. /\ c \in Threads /\ q \in Queues
        /\ pc \in [Threads -> Labels]
        /\ queue \in [Queues -> Seq(Jobs)]
        /\ listLock \in [Queues -> Threads \union {Nobody}]
    BY ThreadFacts DEF TInv, TypeOK
  <1>2. /\ pc' = [pc EXCEPT ![c] = "run"]
        /\ listLock[q] = Nobody
        /\ listLock' = [listLock EXCEPT ![q] = Nobody]
        /\ queue' = [queue EXCEPT ![q] = Tail(queue[q])]
        /\ UNCHANGED list
    BY DEF TryPop, Unlink, Goto
  <1>3. /\ \A v \in Workers : pc'[v] = pc[v]
        /\ \A p \in Queues : listLock'[p] = listLock[p]
        /\ \A p \in Queues \ {q} : queue'[p] = queue[p]
    BY <1>1, <1>2, ThreadFacts
  <1>4. ASSUME NEW p \in Queues, listLock'[p] # Nobody
        PROVE  /\ listLock'[p] \in Workers
               /\ pc'[listLock'[p]] \in Holding
               /\ list'[listLock'[p]] = p
    BY <1>2, <1>3, <1>4 DEF ListHeld, Holding
  <1>5. ASSUME NEW v \in Workers, pc'[v] \in Holding
        PROVE  listLock'[list'[v]] = v /\ queue'[list'[v]] # <<>>
    <2>1. list[v] \in Queues /\ listLock[list[v]] = v /\ queue[list[v]] # <<>>
      BY <1>3, <1>5, ThreadFacts DEF ListHeld, Holding, TInv, TypeOK
    <2>2. v # Nobody
      BY ThreadFacts, ConstantFacts
    <2>3. list[v] # q
      BY <2>1, <2>2, <1>2
    <2> QED
      BY <2>1, <2>3, <1>2, <1>3
  <1> QED
    BY <1>4, <1>5 DEF ListHeld, Holding

(* ListHeld holds at the start,                                            *)
LEMMA HInit == Init => ListHeld
  <1> SUFFICES ASSUME Init PROVE ListHeld
    OBVIOUS
  <1>1. /\ \A q \in Queues : listLock[q] = Nobody
        /\ \A w \in Workers : pc[w] = "off"
    BY ThreadFacts DEF Init
  <1> QED
    BY <1>1 DEF ListHeld

(* in every step of RunJob,                                                *)
LEMMA HJob ==
    ASSUME TInv, ListHeld, NEW t \in Threads, JobStep(t)
    PROVE  ListHeld'
  <1>1. PICK to \in {"run", "run_post", "reload", "fq_try"} :
            /\ pc[t] \in {"run", "run_post"}
            /\ pc' = [pc EXCEPT ![t] = to]
            /\ UNCHANGED <<listLock, list>>
    BY DEF JobStep, Spawn, PostSpawned, RunJob, Goto, listVars, localVars
  <1>2. \A q \in Queues : queue[q] # <<>> => queue'[q] # <<>>
    <2>1. CASE Spawn(t)
      <3>1. Child[job[t]] \in Jobs /\ Main \in Queues /\ Enqueue(Child[job[t]], Main)
        BY <2>1 DEF Spawn, Queues
      <3> QED
        BY <3>1, EnqueueFills
    <2>2. CASE PostSpawned(t) \/ RunJob(t)
      BY <2>2 DEF PostSpawned, RunJob, listVars
    <2> QED
      BY <2>1, <2>2 DEF JobStep
  <1>3. to \notin Holding /\ pc[t] \notin Holding
    BY <1>1 DEF Holding
  <1> QED
    BY <1>1, <1>2, <1>3, QuietHolding

(* of a worker,                                                            *)
LEMMA HWorker ==
    ASSUME TInv, ListHeld, NEW w \in Workers, WorkerStep(w)
    PROVE  ListHeld'
  <1>1. w \in Threads /\ list \in [Threads -> Queues]
    BY ThreadFacts DEF TInv, TypeOK
  <1>2. CASE ReloadList(w)
    <2>1. /\ pc[w] = "reload" /\ pc' = [pc EXCEPT ![w] = "unlock"]
          /\ list' = [list EXCEPT ![w] = jobsOf[w]]
          /\ UNCHANGED <<queue, listLock>>
      BY <1>2 DEF ReloadList, Goto, listVars
    <2>2. \A v \in Workers : pc[v] \in Holding => list'[v] = list[v]
      BY <1>1, <2>1, ThreadFacts DEF Holding
    <2>3. \A q \in Queues : queue[q] # <<>> => queue'[q] # <<>>
      BY <2>1
    <2>4. "reload" \notin Holding /\ "unlock" \notin Holding
      BY DEF Holding
    <2> QED
      BY <1>1, <2>1, <2>2, <2>3, <2>4, QuietHolding
  <1>3. CASE CheckQuit(w) \/ UnlockJob(w) \/ WaitForJob(w) \/ PassOnQuit(w) \/ GoOnToPop(w)
             \/ PopNothing(w) \/ LockJob(w)
    <2>1. UNCHANGED <<queue, listLock, list>>
      BY <1>3 DEF CheckQuit, UnlockJob, WaitForJob, PassOnQuit, GoOnToPop, PopNothing,
                  LockJob, listVars, localVars
    <2>2. PICK to : /\ pc' = [pc EXCEPT ![w] = to]
                    /\ to \in Holding <=> pc[w] \in Holding
      BY <1>3 DEF CheckQuit, UnlockJob, WaitForJob, PassOnQuit, GoOnToPop, PopNothing,
                  LockJob, Goto, Holding
    <2> QED
      BY <1>1, <2>1, <2>2, QuietHolding
  <1> QED
    BY <1>1, <1>2, <1>3, HJob, HoldMoves, PopMoves DEF WorkerStep

(* of a client inside a call: the worker that InitThreads starts or that   *)
(* EndThreads joins does not hold a list,                                  *)
LEMMA HClient ==
    ASSUME TInv, PInv, ListHeld, NEW c \in Clients, ClientStep(c)
    PROVE  ListHeld'
  <1>1. /\ c \in Threads /\ c \notin Workers
        /\ list \in [Threads -> Queues]
        /\ pc \in [Threads -> Labels]
    BY ThreadFacts DEF TInv, TypeOK
  <1>2. CASE InitThread(c)
    <2>1. /\ pc[c] = "init" /\ idx[c] \in Workers
          /\ UNCHANGED <<queue, listLock, list>>
      BY <1>2 DEF InitThread, listVars, TInv, CountersOK
    <2>2. \E to : pc' = [pc EXCEPT ![c] = to, ![idx[c]] = "check"]
      BY <1>2 DEF InitThread
    <2>3. pc[idx[c]] = "off"
      <3>1. idx[c] >= idx[c]
        BY <2>1, ThreadFacts
      <3> QED
        BY <2>1, <3>1 DEF PInv, Started
    <2>4. \A w \in Workers : pc'[w] \in Holding <=> pc[w] \in Holding
      <3>1. /\ pc'[idx[c]] = "check"
            /\ \A w \in Workers \ {idx[c]} : pc'[w] = pc[w]
        BY <1>1, <2>1, <2>2, ThreadFacts
      <3> QED
        BY <2>3, <3>1 DEF Holding
    <2> QED
      BY <2>1, <2>4, KeepsHolding
  <1>3. CASE JoinWorker(c)
    <2>1. /\ idx[c] \in Workers /\ pc[idx[c]] = "done"
          /\ UNCHANGED <<queue, listLock, list>>
      BY <1>3 DEF JoinWorker, listVars, TInv, CountersOK
    <2>2. \E to : pc' = [pc EXCEPT ![c] = to, ![idx[c]] = "off"]
      BY <1>3 DEF JoinWorker
    <2>3. \A w \in Workers : pc'[w] \in Holding <=> pc[w] \in Holding
      <3>1. /\ pc'[idx[c]] = "off"
            /\ \A w \in Workers \ {idx[c]} : pc'[w] = pc[w]
        BY <1>1, <2>1, <2>2, ThreadFacts
      <3> QED
        BY <2>1, <3>1 DEF Holding
    <2> QED
      BY <2>1, <2>3, KeepsHolding
  <1>4. CASE PostQueued(c) \/ PickList(c) \/ TryToken(c) \/ TryGoOn(c)
             \/ SpinUntilEmpty(c) \/ LockWorker(c) \/ FoundUnbound(c) \/ SetList(c)
             \/ LockBound(c) \/ ResetList(c) \/ NoToken(c) \/ TryQuit(c)
             \/ TryPopNothing(c) \/ UnlockWorker(c)
    <2>1. UNCHANGED <<queue, listLock>>
      BY <1>4 DEF PostQueued, PickList, TryToken, TryGoOn, SpinUntilEmpty, LockWorker,
                  FoundUnbound, SetList, LockBound, ResetList, NoToken, TryQuit,
                  TryPopNothing, UnlockWorker, listVars
    <2>2. \E to : pc' = [pc EXCEPT ![c] = to]
      BY <1>4 DEF PostQueued, PickList, TryToken, TryGoOn, SpinUntilEmpty, LockWorker,
                  FoundUnbound, SetList, LockBound, ResetList, NoToken, TryQuit,
                  TryPopNothing, UnlockWorker, NextList, LoopStep, Goto
    <2>3. list' = list \/ list' = [list EXCEPT ![c] = jobsOf[idx[c]]]
      BY <1>4 DEF PostQueued, PickList, TryToken, TryGoOn, SpinUntilEmpty, LockWorker,
                  FoundUnbound, SetList, LockBound, ResetList, NoToken, TryQuit,
                  TryPopNothing, UnlockWorker, localVars
    <2>4. \A w \in Workers : list'[w] = list[w]
      BY <1>1, <2>3, ThreadFacts
    <2> QED
      BY <1>1, <2>1, <2>2, <2>4, QuietHolding
  <1>5. CASE SkipBound(c) \/ WakeMain(c) \/ UnlockBound(c)
             \/ FlagWorker(c) \/ QuitList(c) \/ WakeWorker(c)
    <2>1. UNCHANGED <<queue, listLock, list>>
      BY <1>5 DEF SkipBound, WakeMain, UnlockBound, FlagWorker, QuitList, WakeWorker, listVars
    <2>2. \E to : pc' = [pc EXCEPT ![c] = to]
      BY <1>5 DEF SkipBound, WakeMain, UnlockBound, FlagWorker, QuitList, WakeWorker,
                  LoopStep, Goto
    <2> QED
      BY <1>1, <2>1, <2>2, QuietHolding
  <1> QED
    BY <1>1, <1>2, <1>3, <1>4, <1>5, HJob, TryPopMoves DEF ClientStep

(* and of a client that starts one.                                        *)
LEMMA HCall ==
    ASSUME TInv, ListHeld, NEW c \in Clients, ClientCall(c)
    PROVE  ListHeld'
  <1>1. /\ c \in Threads /\ c \notin Workers
        /\ list \in [Threads -> Queues]
    BY ThreadFacts DEF TInv, TypeOK
  <1>2. UNCHANGED listLock /\ \E to : pc' = [pc EXCEPT ![c] = to]
    BY DEF ClientCall, QueueJob, CallInit, CallFinish, CallBind, CallUnbind, CallEnd,
           StartCall, Goto, listVars
  <1>3. list' = list \/ \E q \in Queues : list' = [list EXCEPT ![c] = q]
    BY DEF ClientCall, QueueJob, CallInit, CallFinish, CallBind, CallUnbind, CallEnd, Queues
  <1>4. \A w \in Workers : list'[w] = list[w]
    BY <1>1, <1>3, ThreadFacts
  <1>5. \A q \in Queues : queue[q] # <<>> => queue'[q] # <<>>
    <2>1. ASSUME NEW j \in Jobs, NEW p \in Queues, QueueJob(c, j, p)
          PROVE  \A q \in Queues : queue[q] # <<>> => queue'[q] # <<>>
      BY <2>1, EnqueueFills DEF QueueJob
    <2>2. ASSUME CallInit(c) \/ CallFinish(c) \/ CallEnd(c)
                 \/ \E q \in BoundQueues : CallBind(c, q) \/ CallUnbind(c, q)
          PROVE  queue' = queue
      BY <2>2 DEF CallInit, CallFinish, CallEnd, CallBind, CallUnbind, listVars
    <2> QED
      BY <2>1, <2>2 DEF ClientCall
  <1> QED
    BY <1>1, <1>2, <1>4, <1>5, QuietHolding

(* ListHeld is inductive, given the types and which workers exist.         *)
LEMMA HNext == TInv /\ PInv /\ ListHeld /\ [Next]_vars => ListHeld'
  <1> SUFFICES ASSUME TInv, PInv, ListHeld, [Next]_vars PROVE ListHeld'
    OBVIOUS
  <1>1. CASE UNCHANGED vars
    BY <1>1 DEF vars, listVars, localVars, ListHeld
  <1> QED
    BY <1>1, HWorker, HClient, HCall DEF Next

(* The front DoPopFront read under the list's lock is still the front when *)
(* it has waited for jLock: nobody else can lock the list meanwhile, and a *)
(* list that is locked is locked by such a worker.                         *)
THEOREM FrontIsKept == Spec => []ListHeld
  <1>1. Init => TInv /\ PInv /\ ListHeld
    BY TInit, PInit, HInit
  <1>2. TInv /\ PInv /\ ListHeld /\ [Next]_vars => (TInv /\ PInv /\ ListHeld)'
    BY TNext, PNext, HNext
  <1> QED
    BY <1>1, <1>2, PTL DEF Spec

-----------------------------------------------------------------------------
(* Who is awake for a list.                                                *)

(* The threads that will still pop a job of list q, or post to it; whether *)
(* thread t is one, as a number.                                           *)
Awake(q) == {t \in Threads : HoldsToken(t, q) \/ PostsMain(t, q)}

Share(t, q) == IF HoldsToken(t, q) \/ PostsMain(t, q) THEN 1 ELSE 0

TokenLabels ==
    {"woken", "poplock", "jlock", "pop", "fq_woken", "fq_pop", "q_post", "run_post"}

(* There are finitely many threads.                                        *)
LEMMA AwakeCount ==
    ASSUME NEW S \in SUBSET Threads
    PROVE  IsFiniteSet(S) /\ Cardinality(S) \in Nat
  <1>1. IsFiniteSet(Clients) /\ NumThreads \in Nat
    BY ThreadPoolAssumption DEF ThreadPoolAssumption
  <1>2. IsFiniteSet(Workers)
    BY <1>1, FS_Interval DEF Workers
  <1>3. IsFiniteSet(Threads)
    BY <1>1, <1>2, FS_Union DEF Threads
  <1> QED
    BY <1>3, FS_Subset, FS_CardinalityType

(* A set of threads is counted without t and then with it.                 *)
LEMMA CountApart ==
    ASSUME NEW S \in SUBSET Threads, NEW t
    PROVE  Cardinality(S) = Cardinality(S \ {t}) + (IF t \in S THEN 1 ELSE 0)
  <1>1. IsFiniteSet(S) /\ Cardinality(S) \in Nat
    BY AwakeCount
  <1>2. Cardinality(S \ {t}) = IF t \in S THEN Cardinality(S) - 1 ELSE Cardinality(S)
    BY <1>1, FS_RemoveElement
  <1>3. CASE t \in S
    BY <1>1, <1>2, <1>3
  <1>4. CASE t \notin S
    BY <1>1, <1>2, <1>4
  <1> QED
    BY <1>3, <1>4

(* Thread t takes a step, and every list has a token, a waking thread or a *)
(* post for each of its jobs when what t does to the sum comes out even or *)
(* better, or the list is empty.                                           *)
LEMMA CoverMoves ==
    ASSUME TInv, TInv', WakeupsCover, NEW t \in Threads,
           \A u \in Threads \ {t} : pc'[u] = pc[u] /\ list'[u] = list[u],
           \A q \in Queues :
              \/ queue'[q] = <<>>
              \/ Len(queue'[q]) + sem[q] + Share(t, q) <= Len(queue[q]) + sem'[q] + Share(t, q)'
    PROVE  WakeupsCover'
  <1> SUFFICES ASSUME NEW q \in Queues
               PROVE  Len(queue'[q]) <= sem'[q] + Cardinality(Awake(q)')
    BY DEF WakeupsCover, Awake
  <1> DEFINE rest == Cardinality(Awake(q) \ {t})
             full == Cardinality(Awake(q))
             fullAfter == Cardinality(Awake(q)')
             len == Len(queue[q])
             lenAfter == Len(queue'[q])
             sh == Share(t, q)
             shAfter == Share(t, q)'
  <1>1. Awake(q) \in SUBSET Threads /\ Awake(q)' \in SUBSET Threads
    BY DEF Awake
  <1>2. Awake(q)' \ {t} = Awake(q) \ {t}
    BY DEF Awake, HoldsToken, PostsMain
  <1>3. full = rest + sh
    <2>1. t \in Awake(q) <=> HoldsToken(t, q) \/ PostsMain(t, q)
      BY DEF Awake
    <2> QED
      BY <1>1, <2>1, CountApart DEF Share
  <1>4. fullAfter = rest + shAfter
    <2>1. t \in Awake(q)' <=> (HoldsToken(t, q) \/ PostsMain(t, q))'
      BY DEF Awake
    <2>2. Cardinality(Awake(q)') = Cardinality(Awake(q)' \ {t}) + (IF t \in Awake(q)' THEN 1 ELSE 0)
      BY <1>1, CountApart
    <2> QED
      BY <1>2, <2>1, <2>2 DEF Share
  <1>5. rest \in Nat /\ full \in Nat /\ fullAfter \in Nat
    BY <1>1, AwakeCount
  <1>6. sem[q] \in Nat /\ sem'[q] \in Nat /\ len \in Nat /\ lenAfter \in Nat
    BY LenProperties DEF TInv, TypeOK
  <1>7. sh \in Nat /\ shAfter \in Nat
    BY DEF Share
  <1>8. len <= sem[q] + full
    BY DEF WakeupsCover, Awake
  <1>9. \/ queue'[q] = <<>>
        \/ lenAfter + sem[q] + sh <= len + sem'[q] + shAfter
    OBVIOUS
  <1>10. queue'[q] = <<>> => lenAfter = 0
    OBVIOUS
  <1>11. lenAfter <= sem'[q] + fullAfter
    <2> HIDE DEF rest, full, fullAfter, len, lenAfter, sh, shAfter
    <2>1. CASE queue'[q] = <<>>
      BY <1>5, <1>6, <1>10, <2>1
    <2>2. CASE lenAfter + sem[q] + sh <= len + sem'[q] + shAfter
      <3>1. len <= sem[q] + rest + sh
        BY <1>3, <1>5, <1>6, <1>7, <1>8
      <3>2. lenAfter <= sem'[q] + rest + shAfter
        BY ONLY <1>5, <1>6, <1>7, <2>2, <3>1
      <3> QED
        BY ONLY <1>4, <1>5, <1>6, <1>7, <3>2
    <2> QED
      BY <1>9, <2>1, <2>2
  <1> QED
    BY <1>11

(* A step that touches no list and takes no token, of a thread that has    *)
(* none before or after.                                                   *)
LEMMA QuietCover ==
    ASSUME TInv, TInv', WakeupsCover, NEW t \in Threads, NEW to,
           pc' = [pc EXCEPT ![t] = to],
           pc[t] \notin TokenLabels, to \notin TokenLabels,
           UNCHANGED queue, \A q \in Queues : sem'[q] >= sem[q],
           \A u \in Threads \ {t} : list'[u] = list[u]
    PROVE  WakeupsCover'
  <1>1. pc \in [Threads -> Labels]
    BY DEF TInv, TypeOK
  <1>2. pc'[t] = to /\ \A u \in Threads \ {t} : pc'[u] = pc[u]
    BY <1>1
  <1>3. \A q \in Queues : Share(t, q) = 0 /\ Share(t, q)' = 0
    BY <1>2 DEF Share, HoldsToken, PostsMain, TokenLabels
  <1>4. \A q \in Queues : sem[q] \in Nat /\ sem'[q] \in Nat /\ Len(queue[q]) \in Nat
    BY LenProperties DEF TInv, TypeOK
  <1>5. ASSUME NEW q \in Queues
        PROVE  Len(queue'[q]) + sem[q] + Share(t, q) <= Len(queue[q]) + sem'[q] + Share(t, q)'
    <2> DEFINE len == Len(queue[q])
    <2>1. Len(queue'[q]) = len /\ len \in Nat
      BY <1>4
    <2> HIDE DEF len
    <2>2. len + sem[q] + 0 <= len + sem'[q] + 0
      BY <1>4, <2>1
    <2> QED
      BY <1>3, <2>1, <2>2 DEF len
  <1> QED
    BY <1>2, <1>5, CoverMoves

(* A step that matters to one list only.                                   *)
LEMMA ListCover ==
    ASSUME TInv, TInv', WakeupsCover, NEW t \in Threads, NEW p \in Queues, NEW to,
           pc' = [pc EXCEPT ![t] = to],
           \A u \in Threads \ {t} : list'[u] = list[u],
           \A q \in Queues \ {p} :
              /\ queue'[q] = queue[q] /\ sem'[q] = sem[q]
              /\ Share(t, q) = 0 /\ Share(t, q)' = 0,
           \/ queue'[p] = <<>>
           \/ Len(queue'[p]) + sem[p] + Share(t, p) <= Len(queue[p]) + sem'[p] + Share(t, p)'
    PROVE  WakeupsCover'
  <1>1. pc \in [Threads -> Labels]
    BY DEF TInv, TypeOK
  <1>2. \A u \in Threads \ {t} : pc'[u] = pc[u]
    BY <1>1
  <1>3. \A q \in Queues : sem[q] \in Nat /\ Len(queue[q]) \in Nat
    BY LenProperties DEF TInv, TypeOK
  <1>4. ASSUME NEW q \in Queues \ {p}
        PROVE  Len(queue'[q]) + sem[q] + Share(t, q) <= Len(queue[q]) + sem'[q] + Share(t, q)'
    <2> DEFINE len == Len(queue[q])
    <2>1. Len(queue'[q]) = len /\ len \in Nat /\ sem[q] \in Nat
      BY <1>3
    <2> HIDE DEF len
    <2>2. len + sem[q] + 0 <= len + sem[q] + 0
      BY <2>1
    <2> QED
      BY <2>1, <2>2 DEF len
  <1> QED
    BY <1>2, <1>4, CoverMoves

(* The share of a thread is in the list it works on.                       *)
LEMMA ShareLemma ==
    ASSUME TInv, NEW t \in Threads
    PROVE  /\ \A q \in Queues \ {list[t]} : pc[t] # "run_post" => Share(t, q) = 0
           /\ \A q \in Queues \ {Main} : pc[t] = "run_post" => Share(t, q) = 0
           /\ pc[t] \in TokenLabels \ {"run_post"} => Share(t, list[t]) = 1
           /\ pc[t] = "run_post" => Share(t, Main) = 1
           /\ pc[t] \notin TokenLabels => \A q \in Queues : Share(t, q) = 0
  BY DEF Share, HoldsToken, PostsMain, TokenLabels

(* A job is queued by a thread that is to post next,                       *)
LEMMA EnqueueCover ==
    ASSUME TInv, TInv', WakeupsCover, NEW t \in Threads, NEW p \in Queues, NEW j \in Jobs,
           NEW to, pc' = [pc EXCEPT ![t] = to], Enqueue(j, p), UNCHANGED sem,
           \A u \in Threads \ {t} : list'[u] = list[u],
           pc[t] \notin TokenLabels,
           \/ to = "run_post" /\ p = Main
           \/ to = "q_post" /\ p = list'[t]
    PROVE  WakeupsCover'
  <1>1. pc \in [Threads -> Labels] /\ queue \in [Queues -> Seq(Jobs)] /\ sem \in [Queues -> Nat]
    BY DEF TInv, TypeOK
  <1>2. pc'[t] = to
    BY <1>1
  <1>3. queue' = [queue EXCEPT ![p] = IF j \in Priority THEN <<j>> \o queue[p]
                                                       ELSE Append(queue[p], j)]
    BY DEF Enqueue
  <1>4. \A q \in Queues \ {p} : queue'[q] = queue[q]
    BY <1>1, <1>3
  <1> DEFINE len == Len(queue[p])
  <1>5. len \in Nat /\ Len(queue'[p]) = len + 1
    <2>1. <<j>> \in Seq(Jobs) /\ Len(<<j>>) = 1
      OBVIOUS
    <2>2. len \in Nat /\ Len(<<j>> \o queue[p]) = 1 + len /\ Len(Append(queue[p], j)) = len + 1
      BY <1>1, <2>1, ConcatProperties, AppendProperties, LenProperties
    <2>3. queue'[p] = IF j \in Priority THEN <<j>> \o queue[p] ELSE Append(queue[p], j)
      BY <1>1, <1>3
    <2> HIDE DEF len
    <2> QED
      BY <2>2, <2>3
  <1>6. \A q \in Queues : Share(t, q) = 0
    BY ShareLemma
  <1>7. Share(t, p)' = 1 /\ \A q \in Queues \ {p} : Share(t, q)' = 0
    BY <1>2 DEF Share, HoldsToken, PostsMain
  <1> HIDE DEF len
  <1>8. Len(queue'[p]) + sem[p] + Share(t, p) <= len + sem'[p] + Share(t, p)'
    BY <1>1, <1>5, <1>6, <1>7
  <1> QED
    BY <1>4, <1>6, <1>7, <1>8, ListCover DEF len

(* which it does;                                                          *)
LEMMA PostCover ==
    ASSUME TInv, TInv', WakeupsCover, NEW t \in Threads, NEW p \in Queues,
           NEW to, pc' = [pc EXCEPT ![t] = to], Post(p), UNCHANGED <<queue, list>>,
           to \notin TokenLabels,
           \/ pc[t] = "run_post" /\ p = Main
           \/ pc[t] # "run_post" /\ p = list[t]
    PROVE  WakeupsCover'
  <1>1. pc \in [Threads -> Labels] /\ queue \in [Queues -> Seq(Jobs)] /\ sem \in [Queues -> Nat]
    BY DEF TInv, TypeOK
  <1>2. pc'[t] = to
    BY <1>1
  <1>3. sem'[p] = sem[p] + 1 /\ \A q \in Queues \ {p} : sem'[q] = sem[q]
    BY <1>1 DEF Post
  <1>4. /\ \A q \in Queues : Share(t, q)' = 0
        /\ \A q \in Queues \ {p} : Share(t, q) = 0
        /\ Share(t, p) \in {0, 1}
    BY <1>2, ShareLemma DEF Share, HoldsToken, PostsMain, TokenLabels
  <1> DEFINE len == Len(queue[p])
  <1>5. len \in Nat /\ Len(queue'[p]) = len
    BY <1>1, LenProperties
  <1> HIDE DEF len
  <1>6. Len(queue'[p]) + sem[p] + Share(t, p) <= len + sem'[p] + Share(t, p)'
    BY <1>1, <1>3, <1>4, <1>5
  <1> QED
    BY <1>3, <1>4, <1>6, ListCover DEF len

(* a token is taken by a thread that is to look at the list,               *)
LEMMA TakeCover ==
    ASSUME TInv, TInv', WakeupsCover, NEW t \in Threads, NEW to,
           pc' = [pc EXCEPT ![t] = to], TakeToken(t), UNCHANGED <<queue, list>>,
           pc[t] \notin TokenLabels, to \in {"woken", "fq_woken"}
    PROVE  WakeupsCover'
  <1>0. PICK p \in Queues : p = list[t]
    BY DEF TInv, TypeOK
  <1>1. /\ pc \in [Threads -> Labels] /\ queue \in [Queues -> Seq(Jobs)]
        /\ sem \in [Queues -> Nat]
    BY DEF TInv, TypeOK
  <1>2. pc'[t] = to /\ list'[t] = p
    BY <1>0, <1>1
  <1>3. sem[p] > 0 /\ sem'[p] = sem[p] - 1 /\ \A q \in Queues \ {p} : sem'[q] = sem[q]
    BY <1>0, <1>1 DEF TakeToken
  <1>4. /\ \A q \in Queues : Share(t, q) = 0
        /\ \A q \in Queues \ {p} : Share(t, q)' = 0
        /\ Share(t, p)' = 1
    BY <1>0, <1>2, ShareLemma DEF Share, HoldsToken, PostsMain
  <1> DEFINE len == Len(queue[p])
  <1>5. len \in Nat /\ Len(queue'[p]) = len
    BY <1>0, <1>1, LenProperties
  <1> HIDE DEF len
  <1>6. Len(queue'[p]) + sem[p] + Share(t, p) <= len + sem'[p] + Share(t, p)'
    BY <1>0, <1>1, <1>3, <1>4, <1>5
  <1> QED
    BY <1>0, <1>1, <1>3, <1>4, <1>6, ListCover DEF len

(* which goes on,                                                          *)
LEMMA GoOnCover ==
    ASSUME TInv, TInv', WakeupsCover, NEW t \in Threads, NEW to,
           pc' = [pc EXCEPT ![t] = to], UNCHANGED <<queue, sem, list>>,
           pc[t] \in TokenLabels \ {"run_post"}, to \in TokenLabels \ {"run_post"}
    PROVE  WakeupsCover'
  <1>0. PICK p \in Queues : p = list[t]
    BY DEF TInv, TypeOK
  <1>1. /\ pc \in [Threads -> Labels] /\ queue \in [Queues -> Seq(Jobs)]
        /\ sem \in [Queues -> Nat]
    BY DEF TInv, TypeOK
  <1>2. pc'[t] = to /\ list'[t] = p
    BY <1>0, <1>1
  <1>3. /\ \A q \in Queues \ {p} : Share(t, q) = 0 /\ Share(t, q)' = 0
        /\ Share(t, p) = 1 /\ Share(t, p)' = 1
    BY <1>0, <1>2 DEF Share, HoldsToken, PostsMain, TokenLabels
  <1> DEFINE len == Len(queue[p])
  <1>4. len \in Nat /\ Len(queue'[p]) = len
    BY <1>0, <1>1, LenProperties
  <1> HIDE DEF len
  <1>5. Len(queue'[p]) + sem[p] + Share(t, p) <= len + sem'[p] + Share(t, p)'
    BY <1>0, <1>1, <1>3, <1>4
  <1> QED
    BY <1>0, <1>1, <1>3, <1>5, ListCover DEF len

(* finds the list empty,                                                   *)
LEMMA EmptyCover ==
    ASSUME TInv, TInv', WakeupsCover, NEW t \in Threads, NEW to,
           pc' = [pc EXCEPT ![t] = to], UNCHANGED <<queue, sem, list>>,
           pc[t] \in TokenLabels \ {"run_post"}, to \notin TokenLabels,
           queue[list[t]] = <<>>
    PROVE  WakeupsCover'
  <1>0. PICK p \in Queues : p = list[t]
    BY DEF TInv, TypeOK
  <1>1. pc \in [Threads -> Labels]
    BY DEF TInv, TypeOK
  <1>2. pc'[t] = to /\ list'[t] = p
    BY <1>0, <1>1
  <1>3. \A q \in Queues \ {p} : Share(t, q) = 0 /\ Share(t, q)' = 0
    BY <1>0, <1>2 DEF Share, HoldsToken, PostsMain, TokenLabels
  <1> QED
    BY <1>0, <1>1, <1>3, ListCover

(* or pops a job.                                                          *)
LEMMA PopCover ==
    ASSUME TInv, TInv', WakeupsCover, NEW t \in Threads, NEW to,
           pc' = [pc EXCEPT ![t] = to], Unlink(t), UNCHANGED <<sem, list>>,
           pc[t] \in TokenLabels \ {"run_post"}, to \notin TokenLabels
    PROVE  WakeupsCover'
  <1>0. PICK p \in Queues : p = list[t]
    BY DEF TInv, TypeOK
  <1>1. /\ pc \in [Threads -> Labels] /\ queue \in [Queues -> Seq(Jobs)]
        /\ sem \in [Queues -> Nat]
    BY DEF TInv, TypeOK
  <1>2. pc'[t] = to /\ list'[t] = p
    BY <1>0, <1>1
  <1>3. queue[p] # <<>> /\ queue' = [queue EXCEPT ![p] = Tail(queue[p])]
    BY <1>0 DEF Unlink
  <1>4. /\ \A q \in Queues \ {p} : queue'[q] = queue[q]
        /\ queue'[p] = Tail(queue[p])
    BY <1>0, <1>1, <1>3
  <1>5. /\ \A q \in Queues \ {p} : Share(t, q) = 0 /\ Share(t, q)' = 0
        /\ Share(t, p) = 1 /\ Share(t, p)' = 0
    BY <1>0, <1>2 DEF Share, HoldsToken, PostsMain, TokenLabels
  <1> DEFINE len == Len(queue[p])
  <1>6. len \in Nat /\ Len(queue'[p]) = len - 1
    BY <1>0, <1>1, <1>3, <1>4, HeadTailProperties, LenProperties
  <1> HIDE DEF len
  <1>7. Len(queue'[p]) + sem[p] + Share(t, p) <= len + sem'[p] + Share(t, p)'
    BY <1>0, <1>1, <1>5, <1>6
  <1> QED
    BY <1>0, <1>1, <1>4, <1>5, <1>7, ListCover DEF len

(* WakeupsCover holds at the start,                                        *)
LEMMA CInit == Init => WakeupsCover
  <1> SUFFICES ASSUME Init, NEW q \in Queues
               PROVE  Len(queue[q]) <= sem[q] + Cardinality(Awake(q))
    BY DEF WakeupsCover, Awake
  <1>1. Len(queue[q]) = 0 /\ sem[q] = 0
    BY DEF Init
  <1>2. Cardinality(Awake(q)) \in Nat
    BY AwakeCount DEF Awake
  <1> QED
    BY <1>1, <1>2

(* in every step of RunJob,                                                *)
LEMMA CJob ==
    ASSUME TInv, TInv', WakeupsCover, NEW t \in Threads, JobStep(t)
    PROVE  WakeupsCover'
  <1>1. CASE Spawn(t)
    <2>1. /\ pc[t] = "run" /\ pc' = [pc EXCEPT ![t] = "run_post"]
          /\ Child[job[t]] \in Jobs /\ Main \in Queues
          /\ Enqueue(Child[job[t]], Main)
          /\ UNCHANGED sem
          /\ \A u \in Threads \ {t} : list'[u] = list[u]
      BY <1>1 DEF Spawn, Goto, localVars, Queues
    <2>2. pc[t] \notin TokenLabels
      BY <2>1 DEF TokenLabels
    <2> QED
      BY <2>1, <2>2, EnqueueCover
  <1>2. CASE PostSpawned(t)
    <2>1. /\ pc[t] = "run_post" /\ pc' = [pc EXCEPT ![t] = "run"]
          /\ Main \in Queues /\ Post(Main)
          /\ UNCHANGED <<queue, list>>
      BY <1>2 DEF PostSpawned, Goto, localVars, Queues
    <2>2. "run" \notin TokenLabels
      BY DEF TokenLabels
    <2> QED
      BY <2>1, <2>2, PostCover
  <1>3. CASE RunJob(t)
    <2>1. PICK to \in {"reload", "fq_try"} :
              /\ pc[t] = "run" /\ pc' = [pc EXCEPT ![t] = to]
              /\ UNCHANGED <<queue, sem, list>>
      BY <1>3 DEF RunJob, Goto, listVars
    <2>2. \A q \in Queues : sem'[q] >= sem[q]
      BY <2>1 DEF TInv, TypeOK
    <2> QED
      BY <2>1, <2>2, QuietCover DEF TokenLabels
  <1> QED
    BY <1>1, <1>2, <1>3 DEF JobStep

(* of a worker,                                                            *)
LEMMA CWorker ==
    ASSUME TInv, TInv', WakeupsCover, NEW w \in Workers, WorkerStep(w)
    PROVE  WakeupsCover'
  <1>0. w \in Threads
    BY ThreadFacts
  <1>1. CASE JobStep(w)
    BY <1>0, <1>1, CJob
  <1>2. CASE CheckQuit(w) \/ ReloadList(w) \/ UnlockJob(w)
    <2>1. PICK to \in {"done", "run", "reload", "unlock", "wait"} :
              pc' = [pc EXCEPT ![w] = to]
      BY <1>2, Zenon DEF CheckQuit, ReloadList, UnlockJob, Goto
    <2>2. /\ pc[w] \in {"check", "reload", "unlock"}
          /\ UNCHANGED <<queue, sem>>
      BY <1>2 DEF CheckQuit, ReloadList, UnlockJob, Goto, listVars
    <2>3. /\ \A u \in Threads \ {w} : list'[u] = list[u]
          /\ \A q \in Queues : sem'[q] >= sem[q]
      BY <1>2, <2>2 DEF CheckQuit, ReloadList, UnlockJob, localVars, TInv, TypeOK
    <2> QED
      BY <1>0, <2>1, <2>2, <2>3, QuietCover DEF TokenLabels
  <1>3. CASE WaitForJob(w)
    BY <1>0, <1>3, TakeCover DEF WaitForJob, Goto, localVars, TokenLabels
  <1>4. CASE PassOnQuit(w)
    <2>1. list[w] \in Queues
      BY <1>0 DEF TInv, TypeOK
    <2> QED
      BY <1>0, <1>4, <2>1, PostCover DEF PassOnQuit, Goto, localVars, TokenLabels
  <1>5. CASE GoOnToPop(w) \/ HoldList(w) \/ LockJob(w)
    <2>1. PICK to \in {"poplock", "jlock", "pop"} :
              /\ pc[w] \in {"woken", "poplock", "jlock"}
              /\ pc' = [pc EXCEPT ![w] = to]
              /\ UNCHANGED <<queue, sem, list>>
      BY <1>5 DEF GoOnToPop, HoldList, LockJob, Goto, listVars, localVars
    <2> QED
      BY <1>0, <2>1, GoOnCover DEF TokenLabels
  <1>6. CASE PopNothing(w)
    BY <1>0, <1>6, EmptyCover DEF PopNothing, Goto, listVars, localVars, TokenLabels
  <1>7. CASE PopJob(w)
    BY <1>0, <1>7, PopCover DEF PopJob, Goto, TokenLabels
  <1> QED
    BY <1>1, <1>2, <1>3, <1>4, <1>5, <1>6, <1>7 DEF WorkerStep

(* InitThread and JoinWorker move two threads, neither of which was or     *)
(* will be awake: a worker that is started did not exist before.           *)
LEMMA CManage ==
    ASSUME TInv, TInv', PInv, WakeupsCover, NEW c \in Clients,
           InitThread(c) \/ JoinWorker(c)
    PROVE  WakeupsCover'
  <1> DEFINE v == idx[c]
  <1>1. /\ v \in Workers /\ c # v /\ c \in Threads /\ v \in Threads
        /\ pc[c] \in {"init", "end_join"}
        /\ pc[c] = "end_join" => pc[v] = "done"
    BY ThreadFacts DEF InitThread, JoinWorker, TInv, CountersOK
  <1>2. pc[c] = "init" => pc[v] = "off"
    <2>1. \A w \in Workers : w \in Nat
      BY ThreadFacts
    <2> QED
      BY <1>1, <2>1 DEF PInv, Started
  <1>3. UNCHANGED <<queue, sem, list>>
    BY DEF InitThread, JoinWorker, listVars
  <1>4. pc \in [Threads -> Labels]
    BY DEF TInv, TypeOK
  <1>5. /\ pc'[c] \in {"idle", "init", "end_join"}
        /\ pc'[v] \in {"check", "off"}
        /\ \A t \in Threads \ {c, v} : pc'[t] = pc[t]
    BY <1>1, <1>4 DEF InitThread, JoinWorker
  <1> HIDE DEF v
  <1>6. ASSUME NEW q \in Queues PROVE Awake(q)' = Awake(q)
    <2>1. c \notin Awake(q) /\ v \notin Awake(q) /\ c \notin Awake(q)' /\ v \notin Awake(q)'
      BY <1>1, <1>2, <1>5 DEF Awake, HoldsToken, PostsMain
    <2>2. \A t \in Threads \ {c, v} : t \in Awake(q)' <=> t \in Awake(q)
      BY <1>3, <1>5 DEF Awake, HoldsToken, PostsMain
    <2>3. Awake(q) \subseteq Threads /\ Awake(q)' \subseteq Threads
      BY DEF Awake
    <2> QED
      BY <2>1, <2>2, <2>3
  <1> QED
    BY <1>3, <1>6 DEF WakeupsCover, Awake

(* of a client inside a call,                                              *)
LEMMA CClient ==
    ASSUME TInv, TInv', PInv, WakeupsCover, NEW c \in Clients, ClientStep(c)
    PROVE  WakeupsCover'
  <1>0. c \in Threads /\ list[c] \in Queues /\ Main \in Queues
    BY ThreadFacts DEF TInv, TypeOK, Queues
  <1>1. CASE JobStep(c)
    BY <1>0, <1>1, CJob
  <1>2. CASE InitThread(c) \/ JoinWorker(c)
    BY <1>2, CManage
  <1>3. CASE PostQueued(c)
    BY <1>0, <1>3, PostCover DEF PostQueued, Goto, localVars, TokenLabels
  <1>4. CASE TryToken(c)
    BY <1>0, <1>4, TakeCover DEF TryToken, Goto, localVars, TokenLabels
  <1>5. CASE TryGoOn(c)
    BY <1>0, <1>5, GoOnCover DEF TryGoOn, Goto, listVars, localVars, TokenLabels
  <1>6. CASE TryPop(c)
    BY <1>0, <1>6, PopCover DEF TryPop, Goto, TokenLabels
  <1>7. CASE TryQuit(c) \/ TryPopNothing(c)
    <2>1. PICK from \in {"fq_woken", "fq_pop"} :
              LoopStep(c, from, NumThreads, "fq_list", "fq_spin")
      BY <1>7 DEF TryQuit, TryPopNothing, NextList
    <2>2. PICK to \in {"fq_list", "fq_spin"} :
              /\ pc[c] \in {"fq_woken", "fq_pop"}
              /\ pc' = [pc EXCEPT ![c] = to]
      BY <2>1, LoopMoves
    <2>3. CASE TryQuit(c)
      BY <1>0, <2>2, <2>3, PostCover DEF TryQuit, TokenLabels
    <2>4. CASE TryPopNothing(c)
      BY <1>0, <2>2, <2>4, EmptyCover DEF TryPopNothing, listVars, TokenLabels
    <2> QED
      BY <1>7, <2>3, <2>4
  <1>8. CASE PickList(c) \/ SpinUntilEmpty(c) \/ LockWorker(c) \/ FoundUnbound(c) \/ SetList(c)
             \/ LockBound(c) \/ ResetList(c)
    <2>1. PICK to \in {"fq_try", "fq_lock", "fq_unlock", "bind_set", "bind_post", "unb_set",
                       "unb_unlock"} :
              pc' = [pc EXCEPT ![c] = to]
      BY <1>8 DEF PickList, SpinUntilEmpty, LockWorker, FoundUnbound, SetList, LockBound,
                  ResetList, Goto
    <2>2. /\ pc[c] \in {"fq_list", "fq_spin", "fq_lock", "bind_scan", "bind_set", "unb_lock",
                        "unb_set"}
          /\ UNCHANGED <<queue, sem>>
      BY <1>8 DEF PickList, SpinUntilEmpty, LockWorker, FoundUnbound, SetList, LockBound,
                  ResetList, Goto, listVars
    <2>3. /\ \A u \in Threads \ {c} : list'[u] = list[u]
          /\ \A q \in Queues : sem'[q] >= sem[q]
      BY <1>8, <2>2 DEF PickList, SpinUntilEmpty, LockWorker, FoundUnbound, SetList, LockBound,
                        ResetList, localVars, TInv, TypeOK
    <2> QED
      BY <1>0, <2>1, <2>2, <2>3, QuietCover DEF TokenLabels
  <1>9. CASE NoToken(c) \/ UnlockWorker(c) \/ SkipBound(c) \/ WakeMain(c) \/ UnlockBound(c)
             \/ FlagWorker(c) \/ QuitList(c) \/ WakeWorker(c)
    <2>1. PICK from \in {"fq_try", "fq_unlock", "bind_scan", "bind_post", "unb_unlock",
                         "end_flag", "end_quit", "end_post"},
               again \in {"fq_list", "fq_spin", "bind_scan", "bind_post", "unb_lock",
                          "end_flag", "end_quit", "end_post"},
               after \in {"fq_spin", "idle", "end_quit", "end_post", "end_join"},
               limit \in {NumThreads, 4 * NumThreads} :
                  LoopStep(c, from, limit, again, after)
      BY <1>9 DEF NoToken, NextList, UnlockWorker, SkipBound, WakeMain, UnlockBound,
                  FlagWorker, QuitList, WakeWorker
    <2>2. /\ pc[c] = from
          /\ \/ pc' = [pc EXCEPT ![c] = again]
             \/ pc' = [pc EXCEPT ![c] = after]
      BY <2>1, LoopMoves
    <2>3. UNCHANGED <<queue, list>>
      BY <1>9 DEF NoToken, UnlockWorker, SkipBound, WakeMain, UnlockBound,
                  FlagWorker, QuitList, WakeWorker, listVars
    <2>4. \A q \in Queues : sem'[q] >= sem[q]
      <3>1. sem \in [Queues -> Nat]
        BY DEF TInv, TypeOK
      <3>2. sem' = sem \/ \E q \in Queues : Post(q)
        <4>1. CASE WakeWorker(c)
          <5>1. \E q : Post(q) /\ q = jobsOf[idx[c] % NumThreads]
            BY <4>1 DEF WakeWorker
          <5>2. jobsOf[idx[c] % NumThreads] \in Queues
            <6>1. idx[c] \in Nat /\ NumThreads \in Nat \ {0}
              BY ConstantFacts DEF TInv, TypeOK
            <6>2. idx[c] % NumThreads \in Workers
              BY <6>1 DEF Workers
            <6> QED
              BY <6>2 DEF TInv, TypeOK
          <5> QED
            BY <5>1, <5>2
        <4>2. CASE ~WakeWorker(c)
          BY <1>0, <1>9, <4>2 DEF NoToken, UnlockWorker, SkipBound, WakeMain, UnlockBound,
                                  FlagWorker, QuitList, listVars
        <4> QED
          BY <4>1, <4>2
      <3> QED
        BY <3>1, <3>2 DEF Post
    <2> QED
      BY <1>0, <2>2, <2>3, <2>4, QuietCover DEF TokenLabels
  <1> QED
    BY <1>1, <1>2, <1>3, <1>4, <1>5, <1>6, <1>7, <1>8, <1>9 DEF ClientStep

(* and of a client that starts one.                                        *)
LEMMA CCall ==
    ASSUME TInv, TInv', WakeupsCover, NEW c \in Clients, ClientCall(c)
    PROVE  WakeupsCover'
  <1>0. c \in Threads /\ list \in [Threads -> Queues] /\ sem \in [Queues -> Nat]
    BY ThreadFacts DEF TInv, TypeOK
  <1>1. ASSUME NEW j \in Jobs, NEW q \in Queues, QueueJob(c, j, q)
        PROVE  WakeupsCover'
    <2>1. /\ pc[c] = "idle" /\ pc' = [pc EXCEPT ![c] = "q_post"]
          /\ Enqueue(j, q)
          /\ list' = [list EXCEPT ![c] = q]
          /\ UNCHANGED sem
      BY <1>1 DEF QueueJob, Goto
    <2>2. list'[c] = q /\ \A u \in Threads \ {c} : list'[u] = list[u]
      BY <1>0, <2>1
    <2> QED
      BY <1>0, <2>1, <2>2, EnqueueCover DEF TokenLabels
  <1>2. ASSUME CallInit(c) \/ CallFinish(c) \/ CallEnd(c)
               \/ \E q \in BoundQueues : CallBind(c, q) \/ CallUnbind(c, q)
        PROVE  WakeupsCover'
    <2>1. PICK to \in {"init", "fq_spin", "fq_list", "end_flag", "bind_scan", "unb_lock"} :
              pc[c] = "idle" /\ pc' = [pc EXCEPT ![c] = to]
      BY <1>2 DEF CallInit, CallFinish, CallEnd, CallBind, CallUnbind, StartCall, Goto
    <2>2. UNCHANGED <<queue, sem>>
      BY <1>2 DEF CallInit, CallFinish, CallEnd, CallBind, CallUnbind, listVars
    <2>3. \A u \in Threads \ {c} : list'[u] = list[u]
      BY <1>0, <1>2 DEF CallInit, CallFinish, CallEnd, CallBind, CallUnbind
    <2>4. \A q \in Queues : sem'[q] >= sem[q]
      BY <1>0, <2>2
    <2> QED
      BY <1>0, <2>1, <2>2, <2>3, <2>4, QuietCover DEF TokenLabels
  <1> QED
    BY <1>1, <1>2 DEF ClientCall

(* WakeupsCover is inductive, given the types and when workers exist.      *)
LEMMA CNext == TInv /\ TInv' /\ PInv /\ WakeupsCover /\ [Next]_vars => WakeupsCover'
  <1> SUFFICES ASSUME TInv, TInv', PInv, WakeupsCover, [Next]_vars
               PROVE  WakeupsCover'
    OBVIOUS
  <1>1. CASE UNCHANGED vars
    BY <1>1 DEF vars, listVars, localVars, WakeupsCover, HoldsToken, PostsMain
  <1> QED
    BY <1>1, CWorker, CClient, CCall DEF Next

(* No wake-up is lost: whatever workers, FinishQueue, BindThread and       *)
(* EndThreads do with the semaphores of the lists, each job on a list is   *)
(* matched by a token, a thread that is about to pop, or a post to come.   *)
THEOREM NoWakeupLost == Spec => []WakeupsCover
  <1>1. Init => TInv /\ PInv /\ WakeupsCover
    BY TInit, PInit, CInit
  <1>2. TInv /\ PInv /\ WakeupsCover /\ [Next]_vars => (TInv /\ PInv /\ WakeupsCover)'
    BY TNext, PNext, CNext
  <1> QED
    BY <1>1, <1>2, PTL DEF Spec

-----------------------------------------------------------------------------
(* Where jobs are: every job that was queued is in exactly one place; and, *)
(* for one client, FinishQueue waits for all of its jobs and the pool      *)
(* implements JobPool.                                                     *)

(* The jobs of a list, and that none is on it twice.                       *)
Elements(s) == {s[k] : k \in DOMAIN s}

NoRepeat(s) == \A j, k \in DOMAIN s : s[j] = s[k] => j = k

(* OnlyOnce in terms of lists instead of their places.                     *)
Separate ==
    /\ Queued \intersect InHand = {}
    /\ (Queued \union InHand) \intersect (done \union dropped) = {}
    /\ done \intersect dropped = {}
    /\ \A t, u \in Threads : t # u /\ job[t] # NoJob => job[t] # job[u]
    /\ \A q \in Queues : NoRepeat(queue[q])
    /\ \A p, q \in Queues : p # q => Elements(queue[p]) \intersect Elements(queue[q]) = {}

JInv == NoJobLost /\ Separate /\ CopiesOwned

(* A job that joins a list at its front or its back,                       *)
LEMMA JoinFront ==
    ASSUME NEW s \in Seq(Jobs), NEW j \in Jobs
    PROVE  /\ Elements(<<j>> \o s) = Elements(s) \union {j}
           /\ NoRepeat(s) /\ j \notin Elements(s) => NoRepeat(<<j>> \o s)
  <1> DEFINE r == <<j>> \o s
  <1>1. <<j>> \in Seq(Jobs) /\ Len(<<j>>) = 1 /\ <<j>>[1] = j
    OBVIOUS
  <1>2. /\ r \in Seq(Jobs) /\ Len(r) = 1 + Len(s)
        /\ \A i \in 1 .. 1 + Len(s) : r[i] = IF i <= 1 THEN <<j>>[i] ELSE s[i - 1]
    BY <1>1, ConcatProperties
  <1>3. Len(s) \in Nat /\ DOMAIN s = 1 .. Len(s) /\ DOMAIN r = 1 .. Len(s) + 1
    BY <1>2, LenProperties
  <1> HIDE DEF r
  <1>4. r[1] = j /\ \A i \in 1 .. Len(s) : i + 1 \in DOMAIN r /\ r[i + 1] = s[i]
    BY <1>1, <1>2, <1>3
  <1>5. \A i \in DOMAIN r : i = 1 \/ (i - 1 \in DOMAIN s /\ r[i] = s[i - 1])
    BY <1>2, <1>3
  <1>6. Elements(r) = Elements(s) \union {j}
    <2>1. 1 \in DOMAIN r
      BY <1>3
    <2>2. ASSUME NEW x \in Elements(r) PROVE x \in Elements(s) \union {j}
      BY <2>2, <1>4, <1>5 DEF Elements
    <2>3. ASSUME NEW x \in Elements(s) PROVE x \in Elements(r)
      <3>1. PICK i \in DOMAIN s : x = s[i]
        BY <2>3 DEF Elements
      <3> QED
        BY <3>1, <1>3, <1>4 DEF Elements
    <2>4. j \in Elements(r)
      BY <2>1, <1>4 DEF Elements
    <2> QED
      BY <2>2, <2>3, <2>4
  <1>7. ASSUME NoRepeat(s), j \notin Elements(s) PROVE NoRepeat(r)
    <2> SUFFICES ASSUME NEW m \in DOMAIN r, NEW n \in DOMAIN r, r[m] = r[n]
                 PROVE  m = n
      BY DEF NoRepeat
    <2>1. CASE m = 1 \/ n = 1
      BY <2>1, <1>4, <1>5, <1>7 DEF Elements
    <2>2. CASE m # 1 /\ n # 1
      <3>1. m - 1 \in DOMAIN s /\ n - 1 \in DOMAIN s /\ s[m - 1] = s[n - 1]
        BY <2>2, <1>5
      <3>2. m - 1 = n - 1
        BY <3>1, <1>7 DEF NoRepeat
      <3> QED
        BY <3>2, <1>3
    <2> QED
      BY <2>1, <2>2
  <1> QED
    BY <1>6, <1>7 DEF r

(* the latter likewise,                                                    *)
LEMMA JoinBack ==
    ASSUME NEW s \in Seq(Jobs), NEW j \in Jobs
    PROVE  /\ Elements(Append(s, j)) = Elements(s) \union {j}
           /\ NoRepeat(s) /\ j \notin Elements(s) => NoRepeat(Append(s, j))
  <1> DEFINE r == Append(s, j)
  <1>1. /\ r \in Seq(Jobs) /\ Len(r) = Len(s) + 1
        /\ \A i \in 1 .. Len(s) : r[i] = s[i]
        /\ r[Len(s) + 1] = j
    BY AppendProperties
  <1>2. Len(s) \in Nat /\ DOMAIN s = 1 .. Len(s) /\ DOMAIN r = 1 .. Len(s) + 1
    BY <1>1, LenProperties
  <1> HIDE DEF r
  <1>3. /\ Len(s) + 1 \in DOMAIN r /\ Len(s) + 1 \notin DOMAIN s
        /\ \A i \in DOMAIN r : i = Len(s) + 1 \/ i \in DOMAIN s
        /\ \A i \in DOMAIN s : i \in DOMAIN r /\ r[i] = s[i]
    BY <1>1, <1>2
  <1>4. Elements(r) = Elements(s) \union {j}
    BY <1>1, <1>3 DEF Elements
  <1>5. ASSUME NoRepeat(s), j \notin Elements(s) PROVE NoRepeat(r)
    BY <1>1, <1>3, <1>5 DEF NoRepeat, Elements
  <1> QED
    BY <1>4, <1>5 DEF r

(* and the job that leaves one.                                            *)
LEMMA LeaveFront ==
    ASSUME NEW s \in Seq(Jobs), s # <<>>
    PROVE  /\ Elements(s) = Elements(Tail(s)) \union {Head(s)}
           /\ NoRepeat(s) => NoRepeat(Tail(s)) /\ Head(s) \notin Elements(Tail(s))
  <1> DEFINE r == Tail(s)
  <1> DEFINE h == Head(s)
  <1>1. /\ r \in Seq(Jobs) /\ Len(r) = Len(s) - 1
        /\ \A i \in 1 .. Len(r) : r[i] = s[i + 1]
    BY HeadTailProperties
  <1>2. /\ Len(s) \in Nat /\ DOMAIN s = 1 .. Len(s)
        /\ Len(r) \in Nat /\ DOMAIN r = 1 .. Len(r)
    BY <1>1, LenProperties
  <1>3. h = s[1]
    OBVIOUS
  <1> HIDE DEF r, h
  <1>4. /\ 1 \in DOMAIN s
        /\ \A i \in DOMAIN r : i + 1 \in DOMAIN s /\ i + 1 # 1 /\ r[i] = s[i + 1]
        /\ \A i \in DOMAIN s : i = 1 \/ (i - 1 \in DOMAIN r /\ r[i - 1] = s[i])
    BY <1>1, <1>2
  <1>5. Elements(s) = Elements(r) \union {h}
    <2>1. ASSUME NEW x \in Elements(s) PROVE x \in Elements(r) \union {h}
      BY <2>1, <1>3, <1>4 DEF Elements
    <2>2. ASSUME NEW x \in Elements(r) PROVE x \in Elements(s)
      BY <2>2, <1>4 DEF Elements
    <2>3. h \in Elements(s)
      BY <1>3, <1>4 DEF Elements
    <2> QED
      BY <2>1, <2>2, <2>3
  <1>6. ASSUME NoRepeat(s) PROVE NoRepeat(r)
    <2> SUFFICES ASSUME NEW m \in DOMAIN r, NEW n \in DOMAIN r, r[m] = r[n]
                 PROVE  m = n
      BY DEF NoRepeat
    <2>1. m + 1 = n + 1
      BY <1>4, <1>6 DEF NoRepeat
    <2> QED
      BY <2>1, <1>2
  <1>7. ASSUME NoRepeat(s) PROVE h \notin Elements(r)
    BY <1>3, <1>4, <1>7 DEF NoRepeat, Elements
  <1> QED
    BY <1>5, <1>6, <1>7 DEF r, h

-----------------------------------------------------------------------------

(* The steps that move a job: it enters a list,                            *)
LEMMA EnqueueLemma ==
    ASSUME TInv, JInv, NEW j \in Jobs \ submitted, NEW q \in Queues, Enqueue(j, q),
           UNCHANGED <<job, done, dropped>>
    PROVE  /\ JInv'
           /\ Queued' = Queued \union {j} /\ UNCHANGED InHand
           /\ j \notin Queued /\ j \notin InHand /\ j \notin done /\ j \notin dropped
  <1>1. /\ queue \in [Queues -> Seq(Jobs)]
        /\ queue' = [queue EXCEPT ![q] = queue'[q]]
        /\ queue'[q] = IF j \in Priority THEN <<j>> \o queue[q] ELSE Append(queue[q], j)
    BY DEF TInv, TypeOK, Enqueue
  <1>2. \A p \in Queues \ {q} : queue'[p] = queue[p]
    BY <1>1
  <1>3. j \notin Queued /\ j \notin InHand /\ j \notin done /\ j \notin dropped
    BY DEF JInv, NoJobLost
  <1>4. Queued = UNION {Elements(queue[p]) : p \in Queues}
    BY DEF Queued, Elements
  <1>5. j \notin Elements(queue[q])
    BY <1>3, <1>4
  <1>6. /\ Elements(queue'[q]) = Elements(queue[q]) \union {j}
        /\ NoRepeat(queue'[q])
    BY <1>1, <1>5, JoinFront, JoinBack DEF JInv, Separate
  <1>7. Queued' = UNION {Elements(queue'[p]) : p \in Queues}
    BY DEF Queued, Elements
  <1>8. Queued' = Queued \union {j}
    BY <1>2, <1>4, <1>6, <1>7
  <1>9. InHand' = InHand
    BY DEF InHand
  <1>10. NoJobLost' /\ CopiesOwned'
    BY <1>3, <1>8, <1>9 DEF JInv, NoJobLost, CopiesOwned, Enqueue
  <1>11. Separate'
    <2>1. \A p \in Queues : NoRepeat(queue'[p])
      BY <1>2, <1>6 DEF JInv, Separate
    <2>2. ASSUME NEW o \in Queues, NEW p \in Queues, o # p
          PROVE  Elements(queue'[o]) \intersect Elements(queue'[p]) = {}
      <3>1. \A r \in Queues : j \notin Elements(queue[r])
        BY <1>3, <1>4
      <3>2. Elements(queue[o]) \intersect Elements(queue[p]) = {}
        BY <2>2 DEF JInv, Separate
      <3>3. \A r \in Queues :
                Elements(queue'[r]) = IF r = q THEN Elements(queue[q]) \union {j} ELSE Elements(queue[r])
        BY <1>2, <1>6
      <3> QED
        BY <2>2, <3>1, <3>2, <3>3
    <2>3. /\ Queued' \intersect InHand' = {}
          /\ (Queued' \union InHand') \intersect (done' \union dropped') = {}
      BY <1>3, <1>8, <1>9 DEF JInv, Separate
    <2> QED
      BY <2>1, <2>2, <2>3 DEF JInv, Separate
  <1> QED
    BY <1>3, <1>8, <1>9, <1>10, <1>11 DEF JInv

(* leaves it for the hands of a thread,                                    *)
LEMMA UnlinkLemma ==
    ASSUME TInv, JInv, NEW t \in Threads, job[t] = NoJob, Unlink(t),
           UNCHANGED <<copies, submitted, done, dropped>>
    PROVE  /\ JInv'
           /\ job'[t] \in Jobs /\ Queued = Queued' \union {job'[t]} /\ job'[t] \notin Queued'
           /\ InHand' = InHand \union {job'[t]}
           /\ job'[t] \notin InHand /\ job'[t] \notin done /\ job'[t] \notin dropped
  <1> DEFINE q == list[t]
  <1> DEFINE h == Head(queue[q])
  <1>1. /\ queue \in [Queues -> Seq(Jobs)] /\ q \in Queues
        /\ job \in [Threads -> Jobs \union {NoJob}]
        /\ queue[q] # <<>>
        /\ job' = [job EXCEPT ![t] = h]
        /\ queue' = [queue EXCEPT ![q] = Tail(queue[q])]
    BY DEF TInv, TypeOK, Unlink
  <1>2. h \in Jobs
    BY <1>1, HeadTailProperties
  <1> HIDE DEF h, q
  <1>3. /\ queue'[q] = Tail(queue[q])
        /\ \A p \in Queues \ {q} : queue'[p] = queue[p]
        /\ job'[t] = h
        /\ \A u \in Threads \ {t} : job'[u] = job[u]
    BY <1>1
  <1>4. /\ Elements(queue[q]) = Elements(queue'[q]) \union {h}
        /\ NoRepeat(queue'[q])
        /\ h \notin Elements(queue'[q])
    <2>1. NoRepeat(queue[q])
      BY <1>1 DEF JInv, Separate
    <2> QED
      BY <1>1, <1>3, <2>1, LeaveFront DEF h
  <1>5. /\ Queued = UNION {Elements(queue[p]) : p \in Queues}
        /\ Queued' = UNION {Elements(queue'[p]) : p \in Queues}
    BY DEF Queued, Elements
  <1>6. Queued = Queued' \union {h} /\ h \notin Queued'
    <2>1. \A p \in Queues \ {q} : h \notin Elements(queue[p])
      BY <1>1, <1>4 DEF JInv, Separate
    <2> QED
      BY <1>1, <1>3, <1>4, <1>5, <2>1
  <1>7. InHand' = InHand \union {h}
    BY <1>2, <1>3, ConstantFacts DEF InHand
  <1>8. h \notin InHand /\ h \notin done /\ h \notin dropped
    BY <1>6 DEF JInv, Separate
  <1>9. NoJobLost' /\ CopiesOwned'
    BY <1>6, <1>7 DEF JInv, NoJobLost, CopiesOwned
  <1>10. Separate'
    <2>1. \A p \in Queues : NoRepeat(queue'[p])
      BY <1>3, <1>4 DEF JInv, Separate
    <2>2. ASSUME NEW o \in Queues, NEW p \in Queues, o # p
          PROVE  Elements(queue'[o]) \intersect Elements(queue'[p]) = {}
      BY <1>3, <1>4, <2>2 DEF JInv, Separate
    <2>3. /\ Queued' \intersect InHand' = {}
          /\ (Queued' \union InHand') \intersect (done' \union dropped') = {}
          /\ done' \intersect dropped' = {}
      BY <1>6, <1>7, <1>8 DEF JInv, Separate
    <2>4. ASSUME NEW u \in Threads, NEW v \in Threads, u # v, job'[u] # NoJob
          PROVE  job'[u] # job'[v]
      BY <1>2, <1>3, <1>8, <2>4, ConstantFacts DEF JInv, Separate, InHand
    <2> QED
      BY <2>1, <2>2, <2>3, <2>4 DEF Separate
  <1> QED
    BY <1>2, <1>3, <1>6, <1>7, <1>8, <1>9, <1>10 DEF JInv

(* and leaves those when it was run or dropped.                            *)
LEMMA LetGoLemma ==
    ASSUME TInv, JInv, NEW t \in Threads, job[t] # NoJob,
           job' = [job EXCEPT ![t] = NoJob], UNCHANGED <<queue, submitted>>,
           \/ /\ done' = done \union {job[t]}
              /\ copies' = IF job[t] \in ByRef THEN copies ELSE copies \ {job[t]}
              /\ UNCHANGED dropped
           \/ /\ dropped' = dropped \union {job[t]}
              /\ UNCHANGED <<done, copies>>
    PROVE  /\ JInv'
           /\ InHand = InHand' \union {job[t]} /\ job[t] \notin InHand' /\ UNCHANGED Queued
           /\ job[t] \notin Queued /\ job[t] \notin done /\ job[t] \notin dropped
  <1> DEFINE h == job[t]
  <1>1. job \in [Threads -> Jobs \union {NoJob}]
    BY DEF TInv, TypeOK
  <1>2. /\ job'[t] = NoJob
        /\ \A u \in Threads \ {t} : job'[u] = job[u]
    BY <1>1
  <1>3. h # NoJob
    OBVIOUS
  <1> HIDE DEF h
  <1>4. InHand = InHand' \union {h} /\ h \notin InHand'
    BY <1>2, <1>3 DEF InHand, h, JInv, Separate
  <1>5. Queued' = Queued
    BY DEF Queued
  <1>6. h \notin Queued /\ h \notin done /\ h \notin dropped
    BY <1>4 DEF JInv, Separate
  <1>7. done' \union dropped' = done \union dropped \union {h}
    BY DEF h
  <1>8. h \in submitted
    BY <1>4 DEF JInv, NoJobLost
  <1>9. NoJobLost'
    BY <1>4, <1>5, <1>7 DEF JInv, NoJobLost
  <1>10. CopiesOwned'
    <2>1. CASE done' = done \union {h} /\ copies' = IF h \in ByRef THEN copies ELSE copies \ {h}
      BY <2>1 DEF JInv, CopiesOwned
    <2>2. CASE UNCHANGED <<done, copies>>
      BY <2>2 DEF JInv, CopiesOwned
    <2> QED
      BY <2>1, <2>2 DEF h
  <1>11. Separate'
    <2>1. /\ Queued' \intersect InHand' = {}
          /\ (Queued' \union InHand') \intersect (done' \union dropped') = {}
      BY <1>4, <1>5, <1>6, <1>7 DEF JInv, Separate
    <2>2. done' \intersect dropped' = {}
      BY <1>6 DEF JInv, Separate, h
    <2>3. ASSUME NEW u \in Threads, NEW v \in Threads, u # v, job'[u] # NoJob
          PROVE  job'[u] # job'[v]
      BY <1>2, <2>3 DEF JInv, Separate
    <2> QED
      BY <2>1, <2>2, <2>3 DEF JInv, Separate
  <1> QED
    BY <1>4, <1>5, <1>6, <1>9, <1>10, <1>11 DEF JInv, h

(* No other step touches a job.                                            *)
LEMMA QuietLemma ==
    ASSUME JInv, UNCHANGED <<queue, job, copies, submitted, done, dropped>>
    PROVE  JInv'
  <1>1. Queued' = Queued /\ InHand' = InHand
    BY DEF Queued, InHand
  <1>2. NoJobLost' /\ CopiesOwned'
    BY <1>1 DEF JInv, NoJobLost, CopiesOwned
  <1>3. Separate'
    <2>1. \A q \in Queues : queue'[q] = queue[q]
      OBVIOUS
    <2>2. \A t \in Threads : job'[t] = job[t]
      OBVIOUS
    <2> QED
      BY <1>1, <2>1, <2>2 DEF JInv, Separate
  <1> QED
    BY <1>2, <1>3 DEF JInv

(* JInv holds at the start,                                                *)
LEMMA JInit == Init => JInv
  <1> SUFFICES ASSUME Init PROVE JInv
    OBVIOUS
  <1>1. /\ \A q \in Queues : queue[q] = <<>>
        /\ \A t \in Threads : job[t] = NoJob
        /\ copies = {} /\ submitted = {} /\ done = {} /\ dropped = {}
    BY DEF Init
  <1>2. \A q \in Queues : Elements(queue[q]) = {} /\ NoRepeat(queue[q])
    BY <1>1 DEF Elements, NoRepeat
  <1>3. Queued = {} /\ InHand = {}
    BY <1>1 DEF Queued, InHand
  <1> QED
    BY <1>1, <1>2, <1>3 DEF JInv, NoJobLost, Separate, CopiesOwned

(* and in every step.                                                      *)
LEMMA JNext == TInv /\ JInv /\ [Next]_vars => JInv'
  <1> SUFFICES ASSUME TInv, JInv, [Next]_vars PROVE JInv'
    OBVIOUS
  <1> HIDE DEF Workers, Threads, Queues
  <1>1. ASSUME NEW t \in Threads, JobStep(t) PROVE JInv'
    <2>1. CASE Spawn(t)
      <3>1. /\ Child[job[t]] \in Jobs \ submitted
            /\ Enqueue(Child[job[t]], Main)
            /\ UNCHANGED <<job, done, dropped>>
        BY <2>1 DEF Spawn, localVars
      <3>2. Main \in Queues
        BY DEF Queues
      <3> QED
        BY <3>1, <3>2, EnqueueLemma
    <2>2. CASE PostSpawned(t)
      BY <2>2, QuietLemma DEF PostSpawned, localVars, jobVars
    <2>3. CASE RunJob(t)
      <3>1. job[t] # NoJob
        BY <2>3 DEF RunJob, Goto, TInv, HandsOK
      <3>2. /\ job' = [job EXCEPT ![t] = NoJob]
            /\ UNCHANGED <<queue, submitted, dropped>>
            /\ done' = done \union {job[t]}
            /\ copies' = IF job[t] \in ByRef THEN copies ELSE copies \ {job[t]}
        BY <2>3 DEF RunJob, listVars
      <3> QED
        BY <3>1, <3>2, LetGoLemma
    <2> QED
      BY <1>1, <2>1, <2>2, <2>3 DEF JobStep
  <1>2. ASSUME NEW w \in Workers, WorkerStep(w) PROVE JInv'
    <2>1. w \in Threads
      BY DEF Threads
    <2>2. CASE CheckQuit(w)
      <3>1. UNCHANGED <<queue, submitted, done, copies>>
        BY <2>2 DEF CheckQuit, listVars
      <3>2. CASE shouldQuit[w] /\ job[w] # NoJob
        <4>1. /\ job' = [job EXCEPT ![w] = NoJob]
              /\ dropped' = dropped \union {job[w]}
          BY <2>2, <3>2 DEF CheckQuit
        <4> QED
          BY <2>1, <3>1, <3>2, <4>1, LetGoLemma
      <3>3. CASE ~(shouldQuit[w] /\ job[w] # NoJob)
        <4>1. job' = job /\ dropped' = dropped
          <5>1. CASE ~shouldQuit[w]
            BY <2>2, <5>1 DEF CheckQuit
          <5>2. CASE shouldQuit[w] /\ job[w] = NoJob
            <6>1. job \in [Threads -> Jobs \union {NoJob}]
              BY DEF TInv, TypeOK
            <6> QED
              BY <2>1, <2>2, <5>2, <6>1 DEF CheckQuit
          <5> QED
            BY <3>3, <5>1, <5>2
        <4> QED
          BY <3>1, <4>1, QuietLemma
      <3> QED
        BY <3>2, <3>3
    <2>3. CASE PopJob(w)
      <3>1. job[w] = NoJob
        BY <2>1, <2>3 DEF PopJob, Goto, TInv, HandsOK
      <3> QED
        BY <2>1, <2>3, <3>1, UnlinkLemma DEF PopJob, jobVars
    <2>4. CASE ReloadList(w) \/ UnlockJob(w) \/ WaitForJob(w) \/ PassOnQuit(w) \/ GoOnToPop(w)
               \/ PopNothing(w) \/ HoldList(w) \/ LockJob(w)
      <3>1. UNCHANGED <<queue, job, copies, submitted, done, dropped>>
        BY <2>4 DEF ReloadList, UnlockJob, WaitForJob, PassOnQuit, GoOnToPop, PopNothing,
                    HoldList, LockJob, listVars, localVars, jobVars
      <3> QED
        BY <3>1, QuietLemma
    <2> QED
      BY <1>1, <1>2, <2>1, <2>2, <2>3, <2>4 DEF WorkerStep
  <1>3. ASSUME NEW c \in Clients, ClientStep(c) PROVE JInv'
    <2>1. c \in Threads
      BY DEF Threads
    <2>2. CASE TryPop(c)
      <3>1. job[c] = NoJob
        BY <2>1, <2>2 DEF TryPop, Goto, TInv, HandsOK
      <3> QED
        BY <2>1, <2>2, <3>1, UnlinkLemma DEF TryPop, jobVars
    <2>3. CASE PostQueued(c) \/ InitThread(c) \/ PickList(c) \/ TryToken(c) \/ NoToken(c)
               \/ TryQuit(c) \/ TryGoOn(c) \/ TryPopNothing(c) \/ SpinUntilEmpty(c)
               \/ LockWorker(c) \/ UnlockWorker(c)
      <3>1. UNCHANGED <<queue, job, copies, submitted, done, dropped>>
        BY <2>3 DEF PostQueued, InitThread, PickList, TryToken, NoToken, TryQuit, TryGoOn,
                    TryPopNothing, SpinUntilEmpty, LockWorker, UnlockWorker,
                    listVars, localVars, jobVars
      <3> QED
        BY <3>1, QuietLemma
    <2>4. CASE SkipBound(c) \/ FoundUnbound(c) \/ SetList(c) \/ WakeMain(c) \/ LockBound(c)
               \/ ResetList(c) \/ UnlockBound(c) \/ FlagWorker(c) \/ QuitList(c)
               \/ WakeWorker(c) \/ JoinWorker(c)
      <3>1. UNCHANGED <<queue, job, copies, submitted, done, dropped>>
        BY <2>4 DEF SkipBound, FoundUnbound, SetList, WakeMain, LockBound, ResetList,
                    UnlockBound, FlagWorker, QuitList, WakeWorker, JoinWorker,
                    listVars, localVars, jobVars
      <3> QED
        BY <3>1, QuietLemma
    <2> QED
      BY <1>1, <1>3, <2>1, <2>2, <2>3, <2>4 DEF ClientStep
  <1>4. ASSUME NEW c \in Clients, ClientCall(c) PROVE JInv'
    <2>1. ASSUME NEW j \in Jobs, NEW q \in Queues, QueueJob(c, j, q) PROVE JInv'
      <3>1. /\ j \in Jobs \ submitted
            /\ Enqueue(j, q)
            /\ UNCHANGED <<job, done, dropped>>
        BY <2>1 DEF QueueJob
      <3> QED
        BY <3>1, EnqueueLemma
    <2>2. ASSUME CallInit(c) \/ CallFinish(c) \/ CallEnd(c)
                 \/ \E q \in BoundQueues : CallBind(c, q) \/ CallUnbind(c, q)
          PROVE  JInv'
      <3>1. UNCHANGED <<queue, job, copies, submitted, done, dropped>>
        BY <2>2 DEF CallInit, CallFinish, CallEnd, CallBind, CallUnbind, listVars, jobVars
      <3> QED
        BY <3>1, QuietLemma
    <2> QED
      BY <1>4, <2>1, <2>2 DEF ClientCall
  <1>5. CASE UNCHANGED vars
    BY <1>5, QuietLemma DEF vars, listVars, localVars, jobVars
  <1> QED
    BY <1>2, <1>3, <1>4, <1>5 DEF Next

(* Lists that share no job and repeat none have each job in one place.     *)
LEMMA SeparateMeansOnce == Separate => OnlyOnce
  <1> SUFFICES ASSUME Separate,
                      NEW p \in Queues, NEW q \in Queues,
                      NEW j \in DOMAIN queue[p], NEW k \in DOMAIN queue[q],
                      queue[p][j] = queue[q][k]
               PROVE  p = q /\ j = k
    BY DEF Separate, OnlyOnce
  <1>1. queue[p][j] \in Elements(queue[p]) /\ queue[p][j] \in Elements(queue[q])
    BY DEF Elements
  <1>2. p = q
    BY <1>1 DEF Separate
  <1>3. NoRepeat(queue[p])
    BY DEF Separate
  <1> QED
    BY <1>2, <1>3 DEF NoRepeat

(* Both invariants hold throughout.                                        *)
LEMMA JobsInPlace == Spec => [](TInv /\ JInv)
  <1>1. Init => TInv /\ JInv
    BY TInit, JInit
  <1>2. TInv /\ JInv /\ [Next]_vars => (TInv /\ JInv)'
    BY TNext, JNext
  <1> QED
    BY <1>1, <1>2, PTL DEF Spec

(* No job is taken by two threads, is on two lists or is run twice, for    *)
(* every number of threads and lists and whatever other calls are made     *)
(* between DoPopFront's locks.                                             *)
THEOREM JobsRunOnce == Spec => []OnlyOnce
  <1>1. TInv /\ JInv => OnlyOnce
    BY SeparateMeansOnce DEF JInv
  <1> QED
    BY <1>1, JobsInPlace, PTL

(* No queued job is lost: ThreadLoop, FinishQueue and EndThreads run it,   *)
(* have it in hand, or drop it with a worker that is told to quit.         *)
THEOREM JobsKept == Spec => []NoJobLost
  <1>1. TInv /\ JInv => NoJobLost
    BY DEF JInv
  <1> QED
    BY <1>1, JobsInPlace, PTL

(* The copy QueueJob makes of an argument is freed exactly when its job    *)
(* was run: never before, never twice, and not for a job that is dropped.  *)
THEOREM CopiesFreedOnce == Spec => []CopiesOwned
  <1>1. TInv /\ JInv => CopiesOwned
    BY DEF JInv
  <1> QED
    BY <1>1, JobsInPlace, PTL

-----------------------------------------------------------------------------
(* FinishQueue, when one client calls the pool and no list but the main    *)
(* one is used.                                                            *)

OneClient == (\E c : Clients = {c}) /\ BoundQueues = {}

(* No job the client queued is on a list any more.                         *)
Clear(c) == owed[c] \intersect Queued = {}

Binding == {"bind_scan", "bind_set", "bind_post", "unb_lock", "unb_set", "unb_unlock"}

Finishing == {"fq_spin", "fq_lock", "fq_unlock"}

(* A worker locks its jLock before it takes a job of the client's and      *)
(* keeps it until the job was run; one that is about to take a job while   *)
(* FinishQueue unlocked its jLock takes a job some other job queued.       *)
LockedAtWork ==
    \A c \in Clients, w \in Workers :
        /\ job[w] \in owed[c] => jLock[w] = w
        /\ pc[w] = "pop" /\ jLock[w] # w => Clear(c)

(* Once FinishQueue has seen the list empty, the client's jobs are in the  *)
(* hands of workers it has yet to come to.                                 *)
Passed ==
    \A c \in Clients :
        /\ pc[c] \in {"fq_lock", "fq_unlock"} => Clear(c)
        /\ pc[c] = "fq_spin" /\ idx[c] > 0 => Clear(c)
        /\ pc[c] \in Finishing => \A w \in Workers : w < idx[c] => job[w] \notin owed[c]
        /\ pc[c] = "fq_unlock" => job[idx[c]] \notin owed[c]

FInv ==
    /\ \A c \in Clients : owed[c] \subseteq submitted /\ pc[c] \notin Binding
    /\ LockedAtWork
    /\ Passed

(* What the invariants proved so far say together.                         *)
AllInv == TInv /\ PInv /\ ListHeld /\ JInv

LEMMA AllNext == AllInv /\ [Next]_vars => AllInv'
  BY TNext, PNext, HNext, JNext DEF AllInv

(* Most steps leave the client's jobs where they are or take them away,    *)
(* touch the locks only of workers that have none of them, and leave a     *)
(* client that has seen the list empty where it is.                        *)
LEMMA FFrame ==
    ASSUME TInv, FInv, UNCHANGED owed, submitted \subseteq submitted',
           \A c \in Clients : Clear(c) => Clear(c)',
           \A c \in Clients, w \in Workers :
              job'[w] \in owed[c] => job[w] \in owed[c] /\ jLock'[w] = jLock[w],
           \A w \in Workers : pc'[w] = "pop" /\ jLock'[w] # w => pc[w] = "pop" /\ jLock[w] # w,
           \A c \in Clients :
              /\ pc'[c] \notin Binding
              /\ \/ pc'[c] \notin Finishing
                 \/ pc'[c] = "fq_spin" /\ idx'[c] = 0
                 \/ pc'[c] = pc[c] /\ idx'[c] = idx[c]
    PROVE  FInv'
  <1>1. LockedAtWork'
    BY DEF FInv, LockedAtWork
  <1>2. Passed'
    <2> SUFFICES ASSUME NEW c \in Clients
                 PROVE  /\ pc'[c] \in {"fq_lock", "fq_unlock"} => Clear(c)'
                        /\ pc'[c] = "fq_spin" /\ idx'[c] > 0 => Clear(c)'
                        /\ pc'[c] \in Finishing =>
                              \A w \in Workers : w < idx'[c] => job'[w] \notin owed'[c]
                        /\ pc'[c] = "fq_unlock" => job'[idx'[c]] \notin owed'[c]
      BY DEF Passed
    <2>1. CASE pc'[c] \notin Finishing
      BY <2>1 DEF Finishing
    <2>2. CASE pc'[c] = "fq_spin" /\ idx'[c] = 0
      <3>1. \A w \in Workers : ~(w < 0)
        BY ThreadFacts
      <3> QED
        BY <2>2, <3>1
    <2>3. CASE pc'[c] = pc[c] /\ idx'[c] = idx[c] /\ pc[c] \in Finishing
      <3>1. pc[c] = "fq_unlock" => idx[c] \in Workers
        BY DEF TInv, CountersOK
      <3> QED
        BY <2>3, <3>1 DEF FInv, Passed
    <2> QED
      BY <2>1, <2>2, <2>3
  <1> QED
    BY <1>1, <1>2 DEF FInv

(* The part of a step that leaves jobs and locks alone.                    *)
LEMMA FQuiet ==
    ASSUME TInv, FInv, UNCHANGED <<queue, job, owed, submitted, jLock>>,
           \A w \in Workers : pc'[w] = "pop" => pc[w] = "pop",
           \A c \in Clients :
              /\ pc'[c] \notin Binding
              /\ \/ pc'[c] \notin Finishing
                 \/ pc'[c] = "fq_spin" /\ idx'[c] = 0
                 \/ pc'[c] = pc[c] /\ idx'[c] = idx[c]
    PROVE  FInv'
  <1>1. \A c \in Clients : Clear(c) => Clear(c)'
    BY DEF Clear, Queued
  <1> QED
    BY <1>1, FFrame

(* A worker's step leaves the clients where they are.                      *)
LEMMA WorkerStays ==
    ASSUME TInv, FInv, NEW w \in Workers, WorkerStep(w)
    PROVE  \A c \in Clients :
              /\ pc'[c] = pc[c] /\ idx'[c] = idx[c]
              /\ pc'[c] \notin Binding
  <1>1. pc \in [Threads -> Labels]
    BY DEF TInv, TypeOK
  <1>2. UNCHANGED idx /\ \E to : pc' = [pc EXCEPT ![w] = to]
    BY DEF WorkerStep, JobStep, Spawn, PostSpawned, RunJob, CheckQuit, ReloadList, UnlockJob,
           WaitForJob, PassOnQuit, GoOnToPop, PopNothing, HoldList, LockJob, PopJob, Goto,
           localVars
  <1> QED
    BY <1>1, <1>2, ThreadFacts DEF FInv

(* A job that runs queues one the client never queued.                     *)
LEMMA FSpawn ==
    ASSUME AllInv, FInv, NEW t \in Threads, Spawn(t)
    PROVE  /\ UNCHANGED <<owed, job, jLock, idx>> /\ submitted \subseteq submitted'
           /\ \A c \in Clients : Clear(c) => Clear(c)'
           /\ pc' = [pc EXCEPT ![t] = "run_post"]
  <1>1. /\ Child[job[t]] \in Jobs \ submitted /\ Main \in Queues
        /\ Enqueue(Child[job[t]], Main)
        /\ UNCHANGED <<job, done, dropped, owed, jLock, idx>>
        /\ pc' = [pc EXCEPT ![t] = "run_post"]
    BY DEF Spawn, Goto, localVars, workerVars, Queues
  <1>2. Queued' = Queued \union {Child[job[t]]}
    BY <1>1, EnqueueLemma DEF AllInv
  <1>3. \A c \in Clients : Child[job[t]] \notin owed[c]
    BY <1>1 DEF FInv
  <1>4. submitted' = submitted \union {Child[job[t]]}
    BY <1>1 DEF Enqueue
  <1> QED
    BY <1>1, <1>2, <1>3, <1>4 DEF Clear

(* A job that leaves a list is on none.                                    *)
LEMMA FUnlink ==
    ASSUME AllInv, NEW t \in Threads, job[t] = NoJob, Unlink(t),
           UNCHANGED <<copies, submitted, done, dropped, owed>>
    PROVE  /\ \A c \in Clients : Clear(c) => Clear(c)'
           /\ \A u \in Threads \ {t} : job'[u] = job[u]
           /\ \A c \in Clients : job'[t] \in owed[c] => ~Clear(c)
  <1>1. Queued = Queued' \union {job'[t]}
    BY UnlinkLemma DEF AllInv
  <1>2. \A u \in Threads \ {t} : job'[u] = job[u]
    BY DEF AllInv, TInv, TypeOK, Unlink
  <1> QED
    BY <1>1, <1>2 DEF Clear

(* FInv holds at the start,                                                *)
LEMMA FInit == Init => FInv
  <1> SUFFICES ASSUME Init PROVE FInv
    OBVIOUS
  <1>1. /\ \A c \in Clients : pc[c] = "idle" /\ owed[c] = {}
        /\ \A w \in Workers : pc[w] = "off"
    BY ThreadFacts DEF Init
  <1> QED
    BY <1>1 DEF FInv, LockedAtWork, Passed, Clear, Binding, Finishing

(* in every step of a worker,                                              *)
LEMMA FWorker ==
    ASSUME AllInv, FInv, NEW w \in Workers, WorkerStep(w)
    PROVE  FInv'
  <1>0. /\ TInv /\ w \in Threads
        /\ pc \in [Threads -> Labels] /\ job \in [Threads -> Jobs \union {NoJob}]
        /\ jLock \in [Workers -> Threads \union {Nobody}]
        /\ \A c \in Clients : NoJob \notin owed[c]
    BY ThreadFacts, ConstantFacts DEF AllInv, TInv, TypeOK
  <1>1. \A c \in Clients : pc'[c] = pc[c] /\ idx'[c] = idx[c] /\ pc'[c] \notin Binding
    BY <1>0, WorkerStays
  <1>2. CASE Spawn(w)
    <2>1. \A u \in Workers : pc'[u] = "pop" => pc[u] = "pop"
      <3>1. pc' = [pc EXCEPT ![w] = "run_post"]
        BY <1>2 DEF Spawn, Goto
      <3> QED
        BY <1>0, <3>1
    <2> QED
      BY <1>0, <1>1, <1>2, <2>1, FSpawn, FFrame
  <1>3. CASE RunJob(w) \/ CheckQuit(w)
    <2>1. /\ UNCHANGED <<queue, owed, submitted, jLock>>
          /\ job' = job \/ job' = [job EXCEPT ![w] = NoJob]
      BY <1>3 DEF RunJob, CheckQuit, listVars, workerVars
    <2>2. PICK to \in {"reload", "fq_try", "done", "run"} : pc' = [pc EXCEPT ![w] = to]
      BY <1>3, Zenon DEF RunJob, CheckQuit, Goto
    <2>3. \A u \in Workers : pc'[u] = "pop" => pc[u] = "pop"
      BY <1>0, <2>2
    <2>4. \A c \in Clients : Clear(c) => Clear(c)'
      BY <2>1 DEF Clear, Queued
    <2>5. \A c \in Clients, u \in Workers : job'[u] \in owed[c] => job[u] \in owed[c]
      BY <1>0, <2>1, ThreadFacts
    <2> QED
      BY <1>0, <1>1, <2>1, <2>3, <2>4, <2>5, FFrame
  <1>4. CASE PostSpawned(w) \/ ReloadList(w) \/ WaitForJob(w) \/ PassOnQuit(w) \/ GoOnToPop(w)
             \/ PopNothing(w) \/ HoldList(w)
    <2>1. UNCHANGED <<queue, owed, submitted, jLock, job>>
      BY <1>4 DEF PostSpawned, ReloadList, WaitForJob, PassOnQuit, GoOnToPop, PopNothing,
                  HoldList, listVars, workerVars, localVars, jobVars
    <2>2. PICK to \in {"run", "unlock", "woken", "check", "poplock", "jlock"} :
              pc' = [pc EXCEPT ![w] = to]
      BY <1>4 DEF PostSpawned, ReloadList, WaitForJob, PassOnQuit, GoOnToPop, PopNothing,
                  HoldList, Goto
    <2>3. \A u \in Workers : pc'[u] = "pop" => pc[u] = "pop"
      BY <1>0, <2>2
    <2> QED
      BY <1>0, <1>1, <2>1, <2>3, FQuiet
  <1>5. CASE UnlockJob(w) \/ LockJob(w)
    <2>1. /\ UNCHANGED <<queue, owed, submitted, job>>
          /\ pc[w] \in {"unlock", "jlock"}
      BY <1>5 DEF UnlockJob, LockJob, listVars, localVars, jobVars, Goto
    <2>2. job[w] = NoJob
      BY <1>0, <2>1 DEF TInv, HandsOK
    <2>3. \A u \in Workers \ {w} : jLock'[u] = jLock[u] /\ pc'[u] = pc[u]
      BY <1>0, <1>5, ThreadFacts DEF UnlockJob, LockJob, Goto
    <2>4. pc'[w] = "pop" => jLock'[w] = w
      BY <1>0, <1>5 DEF UnlockJob, LockJob, Goto
    <2>5. \A c \in Clients : Clear(c) => Clear(c)'
      BY <2>1 DEF Clear, Queued
    <2> QED
      BY <1>0, <1>1, <2>1, <2>2, <2>3, <2>4, <2>5, FFrame
  <1>6. CASE PopJob(w)
    <2>1. /\ UNCHANGED <<owed, submitted, jLock, copies, done, dropped>>
          /\ Unlink(w)
          /\ pc[w] = "pop" /\ pc' = [pc EXCEPT ![w] = "check"]
      BY <1>6 DEF PopJob, Goto, workerVars, jobVars
    <2>2. job[w] = NoJob
      BY <1>0, <2>1 DEF TInv, HandsOK
    <2>3. /\ \A c \in Clients : Clear(c) => Clear(c)'
          /\ \A u \in Workers \ {w} : job'[u] = job[u]
          /\ \A c \in Clients : job'[w] \in owed[c] => ~Clear(c)
      BY <1>0, <2>1, <2>2, FUnlink, ThreadFacts
    <2>4. \A u \in Workers : pc'[u] = "pop" => pc[u] = "pop"
      BY <1>0, <2>1
    <2>5. LockedAtWork'
      BY <2>1, <2>3, <2>4 DEF FInv, LockedAtWork
    <2>6. Passed'
      <3> SUFFICES ASSUME NEW c \in Clients
                   PROVE  /\ pc[c] \in {"fq_lock", "fq_unlock"} => Clear(c)'
                          /\ pc[c] = "fq_spin" /\ idx[c] > 0 => Clear(c)'
                          /\ pc[c] \in Finishing =>
                                \A u \in Workers : u < idx[c] => job'[u] \notin owed[c]
                          /\ pc[c] = "fq_unlock" => job'[idx[c]] \notin owed[c]
        BY <1>1, <2>1 DEF Passed
      <3>1. Passed
        BY DEF FInv
      <3>2. pc[c] = "fq_unlock" => idx[c] \in Workers
        BY <1>0 DEF TInv, CountersOK
      <3>3. ASSUME NEW u \in Workers, u < idx[c], pc[c] \in Finishing
            PROVE  Clear(c)
        <4>1. u >= 0 /\ u \in Int /\ idx[c] \in Nat
          BY <1>0, ThreadFacts DEF TInv, TypeOK
        <4>2. idx[c] > 0
          BY <3>3, <4>1
        <4> QED
          BY <3>1, <3>3, <4>2 DEF Passed, Finishing
      <3>4. \A u \in Workers : job'[u] \in owed[c] => job[u] \in owed[c] \/ ~Clear(c)
        BY <2>3
      <3> QED
        BY <2>3, <3>1, <3>2, <3>3, <3>4 DEF Passed
    <2> QED
      BY <1>1, <2>1, <2>5, <2>6 DEF FInv
  <1> QED
    BY <1>2, <1>3, <1>4, <1>5, <1>6 DEF WorkerStep, JobStep

(* The only client is alone in its calls.                                  *)
LEMMA OnlyClient ==
    ASSUME OneClient, NEW c \in Clients
    PROVE  Clients = {c} /\ Queues = {Main}
  BY DEF OneClient, Queues

(* in every step of the client inside a call,                              *)
LEMMA FClient ==
    ASSUME OneClient, AllInv, FInv, NEW c \in Clients, ClientStep(c)
    PROVE  FInv'
  <1>0. /\ TInv /\ c \in Threads /\ Clients = {c} /\ c \notin Workers
        /\ pc \in [Threads -> Labels] /\ job \in [Threads -> Jobs \union {NoJob}]
        /\ jLock \in [Workers -> Threads \union {Nobody}]
        /\ \A w \in Workers : w \in Threads /\ w # c
        /\ NoJob \notin owed[c]
    BY OnlyClient, ThreadFacts, ConstantFacts DEF AllInv, TInv, TypeOK
  <1>1. CASE Spawn(c)
    <2>1. pc' = [pc EXCEPT ![c] = "run_post"]
      BY <1>1, FSpawn, <1>0
    <2>2. /\ \A w \in Workers : pc'[w] = pc[w]
          /\ pc'[c] = "run_post"
      BY <1>0, <2>1
    <2> QED
      BY <1>0, <1>1, <2>2, FSpawn, FFrame DEF Binding, Finishing
  <1>2. CASE RunJob(c)
    <2>1. /\ UNCHANGED <<queue, owed, submitted, jLock>>
          /\ job' = [job EXCEPT ![c] = NoJob]
          /\ pc' = [pc EXCEPT ![c] = "fq_try"]
      BY <1>0, <1>2 DEF RunJob, Goto, listVars, workerVars
    <2>2. /\ \A w \in Workers : pc'[w] = pc[w] /\ job'[w] = job[w]
          /\ pc'[c] = "fq_try"
      BY <1>0, <2>1
    <2>3. Clear(c) => Clear(c)'
      BY <2>1 DEF Clear, Queued
    <2> QED
      BY <1>0, <2>1, <2>2, <2>3, FFrame DEF Binding, Finishing
  <1>3. CASE TryPop(c)
    <2>1. /\ UNCHANGED <<owed, submitted, jLock, copies, done, dropped>>
          /\ Unlink(c)
          /\ pc[c] = "fq_pop" /\ pc' = [pc EXCEPT ![c] = "run"]
      BY <1>3 DEF TryPop, Goto, workerVars, jobVars
    <2>2. job[c] = NoJob
      BY <1>0, <2>1 DEF TInv, HandsOK
    <2>3. /\ Clear(c) => Clear(c)'
          /\ \A w \in Workers : job'[w] = job[w]
      BY <1>0, <2>1, <2>2, FUnlink
    <2>4. /\ \A w \in Workers : pc'[w] = pc[w]
          /\ pc'[c] = "run"
      BY <1>0, <2>1
    <2> QED
      BY <1>0, <2>1, <2>3, <2>4, FFrame DEF Binding, Finishing
  <1>4. CASE InitThread(c) \/ JoinWorker(c)
    <2> DEFINE v == idx[c]
    <2>1. /\ v \in Workers
          /\ pc[c] = "init" => pc[v] = "off"
          /\ pc[c] = "end_join" => pc[v] = "done"
          /\ pc[c] \in {"init", "end_join"}
      <3>1. \A w \in Workers : w \in Nat
        BY ThreadFacts
      <3>2. v \in Workers /\ pc[c] \in {"init", "end_join"} /\ (pc[c] = "end_join" => pc[v] = "done")
        BY <1>0, <1>4 DEF InitThread, JoinWorker, TInv, CountersOK
      <3> QED
        BY <3>1, <3>2 DEF AllInv, PInv, Started
    <2>2. /\ UNCHANGED <<queue, owed, submitted, job>>
          /\ jLock' = [jLock EXCEPT ![v] = Nobody]
      BY <1>4 DEF InitThread, JoinWorker, listVars, jobVars
    <2>3. job[v] = NoJob
      BY <1>0, <2>1 DEF TInv, HandsOK
    <2>4. /\ pc'[c] \in {"idle", "init", "end_join"}
          /\ pc'[v] \in {"check", "off"}
          /\ \A w \in Workers \ {v} : pc'[w] = pc[w]
      BY <1>0, <1>4, <2>1 DEF InitThread, JoinWorker
    <2> HIDE DEF v
    <2>5. \A w \in Workers \ {v} : jLock'[w] = jLock[w]
      BY <1>0, <2>2
    <2>6. Clear(c) => Clear(c)'
      BY <2>2 DEF Clear, Queued
    <2> QED
      BY <1>0, <2>2, <2>3, <2>4, <2>5, <2>6, FFrame DEF Binding, Finishing
  <1>5. CASE PostSpawned(c) \/ PostQueued(c) \/ PickList(c) \/ TryToken(c) \/ TryGoOn(c)
    <2>1. PICK to \in {"run", "idle", "fq_try", "fq_woken", "fq_pop"} :
              pc' = [pc EXCEPT ![c] = to]
      BY <1>5 DEF PostSpawned, PostQueued, PickList, TryToken, TryGoOn, Goto
    <2>2. UNCHANGED <<queue, job, owed, submitted, jLock>>
      BY <1>5 DEF PostSpawned, PostQueued, PickList, TryToken, TryGoOn, listVars, workerVars,
                  localVars, jobVars
    <2>3. /\ \A w \in Workers : pc'[w] = pc[w]
          /\ pc'[c] \notin Binding /\ pc'[c] \notin Finishing
      BY <1>0, <2>1 DEF Binding, Finishing
    <2> QED
      BY <1>0, <2>2, <2>3, FQuiet
  <1>6. CASE NoToken(c) \/ TryQuit(c) \/ TryPopNothing(c) \/ FlagWorker(c) \/ QuitList(c)
             \/ WakeWorker(c)
    <2>1. PICK from \in {"fq_try", "fq_woken", "fq_pop", "end_flag", "end_quit", "end_post"},
               again \in {"fq_list", "end_flag", "end_quit", "end_post"},
               after \in {"fq_spin", "end_quit", "end_post", "end_join"},
               limit \in {NumThreads, 4 * NumThreads} :
                  LoopStep(c, from, limit, again, after)
      BY <1>6 DEF NoToken, TryQuit, TryPopNothing, NextList, FlagWorker, QuitList, WakeWorker
    <2>2. \/ pc' = [pc EXCEPT ![c] = again]
          \/ pc' = [pc EXCEPT ![c] = after] /\ idx'[c] = 0
      BY <1>0, <2>1, LoopMoves
    <2>3. UNCHANGED <<queue, job, owed, submitted, jLock>>
      BY <1>6 DEF NoToken, TryQuit, TryPopNothing, FlagWorker, QuitList, WakeWorker, listVars,
                  workerVars, jobVars
    <2>4. /\ \A w \in Workers : pc'[w] = pc[w]
          /\ pc'[c] \notin Binding
          /\ pc'[c] \notin Finishing \/ (pc'[c] = "fq_spin" /\ idx'[c] = 0)
      BY <1>0, <2>2 DEF Binding, Finishing
    <2> QED
      BY <1>0, <2>3, <2>4, FQuiet
  <1>7. CASE SpinUntilEmpty(c)
    <2>1. /\ UNCHANGED <<queue, job, owed, submitted, jLock, idx>>
          /\ pc[c] = "fq_spin" /\ pc' = [pc EXCEPT ![c] = "fq_lock"]
          /\ queue[jobsOf[idx[c]]] = <<>>
      BY <1>7 DEF SpinUntilEmpty, Goto, listVars, workerVars, localVars, jobVars
    <2>2. \A w \in Workers : pc'[w] = pc[w]
      BY <1>0, <2>1
    <2>3. pc'[c] = "fq_lock"
      BY <1>0, <2>1
    <2>4. Queues = {Main} /\ jobsOf[idx[c]] = Main
      <3>1. idx[c] \in Workers
        BY <1>0, <2>1 DEF TInv, CountersOK
      <3> QED
        BY <1>0, <3>1, OnlyClient DEF TInv, TypeOK
    <2>5. Clear(c)'
      <3>1. Queued' = {}
        BY <2>1, <2>4 DEF Queued
      <3> QED
        BY <3>1 DEF Clear
    <2>6. LockedAtWork'
      BY <1>0, <2>1, <2>2, <2>5 DEF FInv, LockedAtWork
    <2>7. Passed'
      BY <1>0, <2>1, <2>3, <2>5 DEF FInv, Passed, Finishing
    <2> QED
      BY <1>0, <2>1, <2>3, <2>6, <2>7 DEF FInv, Binding
  <1>8. CASE LockWorker(c)
    <2> DEFINE v == idx[c]
    <2>1. /\ UNCHANGED <<queue, job, owed, submitted, idx>>
          /\ pc[c] = "fq_lock" /\ pc' = [pc EXCEPT ![c] = "fq_unlock"]
          /\ jLock[v] = Nobody /\ jLock' = [jLock EXCEPT ![v] = c]
      BY <1>8 DEF LockWorker, Goto, listVars, localVars, jobVars
    <2>2. v \in Workers
      BY <1>0, <2>1 DEF TInv, CountersOK
    <2> HIDE DEF v
    <2>3. \A w \in Workers : pc'[w] = pc[w]
      BY <1>0, <2>1
    <2>4. pc'[c] = "fq_unlock"
      BY <1>0, <2>1
    <2>5. \A w \in Workers \ {v} : jLock'[w] = jLock[w]
      BY <1>0, <2>1
    <2>6. v # Nobody
      BY <1>0, <2>2, ConstantFacts
    <2>7. Clear(c) /\ Clear(c)'
      <3>1. Clear(c)
        BY <2>1 DEF FInv, Passed
      <3> QED
        BY <2>1, <3>1 DEF Clear, Queued
    <2>8. job[v] \notin owed[c]
      BY <2>1, <2>2, <2>6 DEF FInv, LockedAtWork
    <2>9. LockedAtWork'
      BY <1>0, <2>1, <2>3, <2>5, <2>7, <2>8 DEF FInv, LockedAtWork
    <2>10. Passed'
      <3>1. idx'[c] = v /\ idx[c] = v
        BY <2>1 DEF v
      <3>2. \A w \in Workers : w < v => job[w] \notin owed[c]
        BY <2>1, <3>1 DEF FInv, Passed, Finishing
      <3> QED
        BY <1>0, <2>1, <2>4, <2>7, <2>8, <3>1, <3>2 DEF Passed
    <2> QED
      BY <1>0, <2>1, <2>4, <2>9, <2>10 DEF FInv, Binding
  <1>9. CASE UnlockWorker(c)
    <2> DEFINE v == idx[c]
    <2>1. /\ UNCHANGED <<queue, job, owed, submitted>>
          /\ LoopStep(c, "fq_unlock", NumThreads, "fq_spin", "idle")
          /\ jLock' = [jLock EXCEPT ![v] = Nobody]
      BY <1>9 DEF UnlockWorker, listVars, jobVars
    <2>2. pc[c] = "fq_unlock"
      BY <1>0, <2>1, LoopMoves
    <2>3. v \in Workers /\ v \in Nat
      BY <1>0, <2>2, ThreadFacts DEF TInv, CountersOK
    <2>4. \/ pc' = [pc EXCEPT ![c] = "fq_spin"] /\ idx'[c] = v + 1
          \/ pc' = [pc EXCEPT ![c] = "idle"]
      <3>1. idx \in [Clients -> Nat]
        BY <1>0 DEF TInv, TypeOK
      <3>2. CASE v + 1 < NumThreads
        BY <2>1, <3>1, <3>2 DEF LoopStep, Goto
      <3>3. CASE ~(v + 1 < NumThreads)
        BY <2>1, <3>1, <3>3 DEF LoopStep, Goto
      <3> QED
        BY <3>2, <3>3
    <2>5. \A w \in Workers : w < v \/ w = v => job[w] \notin owed[c]
      BY <2>2 DEF FInv, Passed, Finishing
    <2> HIDE DEF v
    <2>6. \A w \in Workers : pc'[w] = pc[w]
      BY <1>0, <2>4
    <2>7. (pc'[c] = "fq_spin" /\ idx'[c] = v + 1) \/ pc'[c] = "idle"
      BY <1>0, <2>4
    <2>8. \A w \in Workers \ {v} : jLock'[w] = jLock[w]
      BY <1>0, <2>1
    <2>9. Clear(c) /\ Clear(c)'
      <3>1. Clear(c)
        BY <2>2 DEF FInv, Passed
      <3> QED
        BY <2>1, <3>1 DEF Clear, Queued
    <2>10. job[v] \notin owed[c]
      BY <2>3, <2>5
    <2>11. LockedAtWork'
      BY <1>0, <2>1, <2>6, <2>8, <2>9, <2>10 DEF FInv, LockedAtWork
    <2>12. Passed'
      <3>1. \A w \in Workers : w < v + 1 => w < v \/ w = v
        BY <2>3, ThreadFacts
      <3> QED
        BY <1>0, <2>1, <2>5, <2>7, <2>9, <3>1 DEF Passed, Finishing
    <2> QED
      BY <1>0, <2>1, <2>7, <2>11, <2>12 DEF FInv, Binding
  <1>10. CASE SkipBound(c) \/ FoundUnbound(c) \/ SetList(c) \/ WakeMain(c) \/ LockBound(c)
              \/ ResetList(c) \/ UnlockBound(c)
    <2>1. pc[c] \in Binding
      BY <1>10 DEF SkipBound, FoundUnbound, SetList, WakeMain, LockBound, ResetList,
                   UnlockBound, LoopStep, Goto, Binding
    <2> QED
      BY <2>1 DEF FInv
  <1> QED
    BY <1>1, <1>2, <1>3, <1>4, <1>5, <1>6, <1>7, <1>8, <1>9, <1>10 DEF ClientStep, JobStep

(* and when it starts one: a job that joins the list cannot be taken by a  *)
(* worker that is about to pop, since that worker holds the list.          *)
LEMMA FCall ==
    ASSUME OneClient, AllInv, FInv, NEW c \in Clients, ClientCall(c)
    PROVE  FInv'
  <1>0. /\ TInv /\ c \in Threads /\ Clients = {c} /\ Queues = {Main}
        /\ pc \in [Threads -> Labels] /\ owed \in [Clients -> SUBSET Jobs]
        /\ \A w \in Workers : w \in Threads /\ w # c /\ w # Nobody
        /\ NoJob \notin Jobs
    BY OnlyClient, ThreadFacts, ConstantFacts DEF AllInv, TInv, TypeOK
  <1>1. ASSUME NEW j \in Jobs, NEW q \in Queues, QueueJob(c, j, q)
        PROVE  FInv'
    <2>1. /\ Enqueue(j, q) /\ j \notin submitted
          /\ UNCHANGED <<job, done, dropped, jLock>>
          /\ owed' = [owed EXCEPT ![c] = @ \union {j}]
          /\ pc' = [pc EXCEPT ![c] = "q_post"]
      BY <1>1 DEF QueueJob, Goto, workerVars
    <2>2. /\ owed'[c] = owed[c] \union {j}
          /\ submitted' = submitted \union {j}
          /\ pc'[c] = "q_post" /\ \A w \in Workers : pc'[w] = pc[w]
      BY <1>0, <2>1 DEF Enqueue
    <2>3. \A w \in Workers : pc[w] # "pop"
      <3>1. listLock[q] = Nobody
        BY <2>1 DEF Enqueue
      <3>2. \A w \in Workers : list[w] = q
        BY <1>0 DEF TInv, TypeOK
      <3> QED
        BY <1>0, <3>1, <3>2 DEF AllInv, ListHeld
    <2>4. \A w \in Workers : job[w] # j
      <3>1. j \notin InHand
        BY <2>1 DEF AllInv, JInv, NoJobLost
      <3> QED
        BY <1>0, <3>1 DEF InHand
    <2>5. LockedAtWork'
      BY <1>0, <2>1, <2>2, <2>3, <2>4 DEF FInv, LockedAtWork
    <2>6. Passed'
      BY <1>0, <2>2 DEF Passed, Finishing
    <2> QED
      BY <1>0, <2>2, <2>5, <2>6 DEF FInv, Binding
  <1>2. CASE CallInit(c) \/ CallFinish(c) \/ CallEnd(c)
    <2>1. UNCHANGED <<queue, job, owed, submitted, jLock>>
      BY <1>2 DEF CallInit, CallFinish, CallEnd, listVars, workerVars, jobVars
    <2>2. PICK to \in {"init", "fq_spin", "fq_list", "end_flag"} : StartCall(c, to)
      BY <1>2 DEF CallInit, CallFinish, CallEnd
    <2>3. pc' = [pc EXCEPT ![c] = to] /\ idx'[c] = 0
      BY <2>2 DEF StartCall, Goto, AllInv, TInv, TypeOK
    <2>4. /\ \A w \in Workers : pc'[w] = pc[w]
          /\ pc'[c] \notin Binding
          /\ pc'[c] \notin Finishing \/ (pc'[c] = "fq_spin" /\ idx'[c] = 0)
      BY <1>0, <2>3 DEF Binding, Finishing
    <2> QED
      BY <1>0, <2>1, <2>4, FQuiet
  <1>3. ~ \E q \in BoundQueues : CallBind(c, q) \/ CallUnbind(c, q)
    BY DEF OneClient
  <1> QED
    BY <1>1, <1>2, <1>3 DEF ClientCall

(* FInv is inductive, given the other invariants.                          *)
LEMMA FNext == OneClient /\ AllInv /\ FInv /\ [Next]_vars => FInv'
  <1> SUFFICES ASSUME OneClient, AllInv, FInv, [Next]_vars PROVE FInv'
    OBVIOUS
  <1>1. CASE UNCHANGED vars
    BY <1>1 DEF vars, listVars, workerVars, localVars, jobVars, FInv, LockedAtWork, Passed,
                Clear, Queued
  <1> QED
    BY <1>1, FWorker, FClient, FCall DEF Next

(* With one client the invariants hold throughout.                         *)
LEMMA FAlways ==
    ASSUME OneClient
    PROVE  Spec => [](AllInv /\ FInv)
  <1>1. Init => AllInv /\ FInv
    BY TInit, PInit, HInit, JInit, FInit DEF AllInv
  <1>2. AllInv /\ FInv /\ [Next]_vars => (AllInv /\ FInv)'
    BY AllNext, FNext
  <1> QED
    BY <1>1, <1>2, PTL DEF Spec

(* FinishQueue ends with its last unlock, when all of the client's jobs    *)
(* have left the lists and all hands.                                      *)
LEMMA FinishEnds ==
    ASSUME OneClient, AllInv, FInv, NEW c \in Clients, [Next]_vars,
           pc[c] = "fq_unlock", pc'[c] # "fq_unlock"
    PROVE  /\ UnlockWorker(c)
           /\ idx[c] + 1 = NumThreads => owed[c] \subseteq done \union dropped
  <1>0. /\ TInv /\ Clients = {c} /\ c \in Threads /\ pc \in [Threads -> Labels]
        /\ \A w \in Workers : w # c /\ w \in Nat /\ w < NumThreads
        /\ idx[c] \in Workers
    BY OnlyClient, ThreadFacts DEF AllInv, TInv, TypeOK, CountersOK
  <1>1. UnlockWorker(c)
    <2>1. pc' # pc
      OBVIOUS
    <2>2. ~ \E w \in Workers : WorkerStep(w)
      BY <1>0, WorkerStays
    <2>3. ~ClientCall(c)
      BY DEF ClientCall, QueueJob, CallInit, CallFinish, CallEnd, CallBind, CallUnbind,
             StartCall, Goto
    <2>4. ClientStep(c)
      BY <1>0, <2>1, <2>2, <2>3 DEF Next, vars
    <2> QED
      BY <2>4 DEF ClientStep, JobStep, Spawn, PostSpawned, RunJob, PostQueued, InitThread,
                  PickList, TryToken, NoToken, NextList, TryQuit, TryGoOn, TryPop,
                  TryPopNothing, SpinUntilEmpty, LockWorker, SkipBound, FoundUnbound, SetList,
                  WakeMain, LockBound, ResetList, UnlockBound, FlagWorker, QuitList,
                  WakeWorker, JoinWorker, LoopStep, Goto
  <1>2. ASSUME idx[c] + 1 = NumThreads PROVE owed[c] \subseteq done \union dropped
    <2>1. \A w \in Workers : w < idx[c] \/ w = idx[c]
      BY <1>0, <1>2
    <2>2. \A w \in Workers : job[w] \notin owed[c]
      BY <2>1 DEF FInv, Passed, Finishing
    <2>3. job[c] = NoJob /\ NoJob \notin owed[c]
      BY <1>0, ConstantFacts DEF TInv, TypeOK, HandsOK
    <2>4. \A t \in Threads : job[t] \notin owed[c]
      BY <1>0, <2>2, <2>3 DEF Threads
    <2>5. owed[c] \intersect InHand = {}
      BY <2>4 DEF InHand
    <2>6. owed[c] \intersect Queued = {} /\ owed[c] \subseteq submitted
      BY DEF FInv, Passed, Clear
    <2> QED
      BY <2>5, <2>6 DEF AllInv, JInv, NoJobLost
  <1> QED
    BY <1>1, <1>2

(* FinishQueue returns only when every job its client queued was run, or   *)
(* dropped by a worker told to quit, for every number of threads and jobs, *)
(* if there is no other client: with two, one unlocks the jLock the other  *)
(* relies on.                                                              *)
THEOREM FinishWaits ==
    ASSUME OneClient
    PROVE  Spec => FinishMeansDone
  <1>1. AllInv /\ AllInv' /\ FInv /\ [Next]_vars =>
            [\A c \in Clients : pc[c] = "fq_unlock" /\ pc'[c] = "idle"
                                => owed[c] \subseteq done \union dropped]_vars
    <2> SUFFICES ASSUME AllInv, FInv, [Next]_vars, NEW c \in Clients,
                        pc[c] = "fq_unlock", pc'[c] = "idle"
                 PROVE  owed[c] \subseteq done \union dropped
      OBVIOUS
    <2>1. UnlockWorker(c)
      BY FinishEnds
    <2>2. idx[c] + 1 = NumThreads
      <3>1. idx[c] \in Nat /\ idx[c] < NumThreads /\ NumThreads \in Nat
        BY ThreadFacts DEF AllInv, TInv, TypeOK, CountersOK
      <3>2. ASSUME idx[c] + 1 < NumThreads PROVE FALSE
        <4>1. pc' = [pc EXCEPT ![c] = "fq_spin"]
          BY <2>1, <3>2 DEF UnlockWorker, LoopStep, Goto
        <4> QED
          BY <4>1, ThreadFacts DEF AllInv, TInv, TypeOK
      <3> QED
        BY <3>1, <3>2
    <2> QED
      BY <2>2, FinishEnds
  <1>2. AllInv /\ [Next]_vars => AllInv'
    BY AllNext
  <1> QED
    BY <1>1, <1>2, FAlways, PTL DEF Spec, FinishMeansDone

-----------------------------------------------------------------------------
(* The pool, for one client, is a JobPool.                                 *)

StateMap == [j \in Jobs |-> StateOf(j)]

Waiting == {c \in Clients : InFinish(c)}

(* What StateOf says of a job that is in one place only.                   *)
StateByPlace ==
    \A j \in Jobs :
        /\ j \in done \ (dropped \union InHand \union Queued) => StateOf(j) = "done"
        /\ j \in dropped \ (done \union InHand \union Queued) => StateOf(j) = "dropped"
        /\ j \in InHand \ (done \union dropped \union Queued) => StateOf(j) = "running"
        /\ j \in Queued \ (done \union dropped \union InHand) => StateOf(j) = "queued"
        /\ j \notin done \union dropped \union InHand \union Queued => StateOf(j) = "new"

(* It does in every state.                                                 *)
LEMMA StateCases == StateByPlace
  <1> SUFFICES ASSUME NEW j \in Jobs
               PROVE  /\ j \in done \ (dropped \union InHand \union Queued)
                            => StateOf(j) = "done"
                      /\ j \in dropped \ (done \union InHand \union Queued)
                            => StateOf(j) = "dropped"
                      /\ j \in InHand \ (done \union dropped \union Queued)
                            => StateOf(j) = "running"
                      /\ j \in Queued \ (done \union dropped \union InHand)
                            => StateOf(j) = "queued"
                      /\ j \notin done \union dropped \union InHand \union Queued
                            => StateOf(j) = "new"
    BY DEF StateByPlace
  <1>1. CASE j \in done \ (dropped \union InHand \union Queued)
    BY <1>1 DEF StateOf
  <1>2. CASE j \in dropped \ (done \union InHand \union Queued)
    BY <1>2 DEF StateOf
  <1>3. CASE j \in InHand \ (done \union dropped \union Queued)
    BY <1>3 DEF StateOf
  <1>4. CASE j \in Queued \ (done \union dropped \union InHand)
    BY <1>4 DEF StateOf
  <1>5. CASE j \notin done \union dropped \union InHand \union Queued
    BY <1>5 DEF StateOf
  <1> QED
    BY <1>1, <1>2, <1>3, <1>4, <1>5

(* A step that leaves every job but h where it is.                         *)
LEMMA MovesOne ==
    ASSUME JInv, JInv', NEW h \in Jobs,
           \A j \in Jobs \ {h} :
              /\ j \in done' <=> j \in done
              /\ j \in dropped' <=> j \in dropped
              /\ j \in InHand' <=> j \in InHand
              /\ j \in Queued' <=> j \in Queued
    PROVE  StateMap' = [StateMap EXCEPT ![h] = StateOf(h)']
  <1>1. StateByPlace /\ StateByPlace'
    BY StateCases, PTL
  <1>2. \A j \in Jobs \ {h} : StateOf(j)' = StateOf(j)
    <2> SUFFICES ASSUME NEW j \in Jobs \ {h} PROVE StateOf(j)' = StateOf(j)
      OBVIOUS
    <2>1. /\ j \in done => j \notin dropped \union InHand \union Queued
          /\ j \in dropped => j \notin done \union InHand \union Queued
          /\ j \in InHand => j \notin done \union dropped \union Queued
          /\ j \in Queued => j \notin done \union dropped \union InHand
      BY DEF JInv, Separate
    <2> QED
      BY <1>1, <2>1 DEF StateByPlace
  <1> QED
    BY <1>2 DEF StateMap

(* A job that is queued,                                                   *)
LEMMA StateQueued ==
    ASSUME TInv, JInv, NEW j \in Jobs \ submitted, NEW q \in Queues, Enqueue(j, q),
           UNCHANGED <<job, done, dropped>>
    PROVE  StateMap[j] = "new" /\ StateMap' = [StateMap EXCEPT ![j] = "queued"]
  <1>1. /\ JInv' /\ Queued' = Queued \union {j} /\ InHand' = InHand
        /\ j \notin Queued /\ j \notin InHand /\ j \notin done /\ j \notin dropped
    BY EnqueueLemma
  <1>2. StateMap' = [StateMap EXCEPT ![j] = StateOf(j)']
    BY <1>1, MovesOne
  <1>3. StateByPlace /\ StateByPlace'
    BY StateCases, PTL
  <1>4. StateOf(j) = "new" /\ StateOf(j)' = "queued"
    BY <1>1, <1>3 DEF StateByPlace
  <1> QED
    BY <1>2, <1>4 DEF StateMap

(* one that a thread takes,                                                *)
LEMMA StateTaken ==
    ASSUME TInv, JInv, NEW t \in Threads, job[t] = NoJob, Unlink(t),
           UNCHANGED <<copies, submitted, done, dropped>>
    PROVE  /\ job'[t] \in Jobs
           /\ StateMap[job'[t]] = "queued"
           /\ StateMap' = [StateMap EXCEPT ![job'[t]] = "running"]
  <1>0. PICK h : h = job'[t]
    OBVIOUS
  <1>1. /\ JInv' /\ h \in Jobs /\ Queued = Queued' \union {h} /\ h \notin Queued'
        /\ InHand' = InHand \union {h}
        /\ h \notin InHand /\ h \notin done /\ h \notin dropped
    BY <1>0, UnlinkLemma
  <1>2. StateMap' = [StateMap EXCEPT ![h] = StateOf(h)']
    BY <1>1, MovesOne
  <1>3. StateByPlace /\ StateByPlace'
    BY StateCases, PTL
  <1>4. StateOf(h) = "queued" /\ StateOf(h)' = "running"
    BY <1>1, <1>3 DEF StateByPlace
  <1> QED
    BY <1>0, <1>1, <1>2, <1>4 DEF StateMap

(* and one that it lets go of.                                             *)
LEMMA StateLeft ==
    ASSUME TInv, JInv, NEW t \in Threads, job[t] # NoJob,
           job' = [job EXCEPT ![t] = NoJob], UNCHANGED <<queue, submitted>>,
           \/ /\ done' = done \union {job[t]}
              /\ copies' = IF job[t] \in ByRef THEN copies ELSE copies \ {job[t]}
              /\ UNCHANGED dropped
           \/ /\ dropped' = dropped \union {job[t]}
              /\ UNCHANGED <<done, copies>>
    PROVE  /\ job[t] \in Jobs
           /\ StateMap[job[t]] = "running"
           /\ StateMap' = [StateMap EXCEPT ![job[t]] = IF UNCHANGED done THEN "dropped" ELSE "done"]
  <1>0. PICK h : h = job[t]
    OBVIOUS
  <1>1. /\ JInv' /\ h \in Jobs /\ InHand = InHand' \union {h} /\ h \notin InHand'
        /\ Queued' = Queued /\ h \notin Queued /\ h \notin done /\ h \notin dropped
    BY <1>0, LetGoLemma DEF TInv, TypeOK
  <1>2. \/ done' = done \union {h} /\ dropped' = dropped
        \/ dropped' = dropped \union {h} /\ done' = done
    BY <1>0
  <1>3. StateMap' = [StateMap EXCEPT ![h] = StateOf(h)']
    BY <1>1, <1>2, MovesOne
  <1>4. StateByPlace /\ StateByPlace'
    BY StateCases, PTL
  <1>5. StateOf(h) = "running"
    BY <1>1, <1>4 DEF StateByPlace
  <1>6. StateOf(h)' = IF UNCHANGED done THEN "dropped" ELSE "done"
    <2>1. CASE done' = done \union {h} /\ dropped' = dropped
      BY <2>1, <1>1, <1>4 DEF StateByPlace
    <2>2. CASE dropped' = dropped \union {h} /\ done' = done
      BY <2>2, <1>1, <1>4 DEF StateByPlace
    <2> QED
      BY <1>2, <2>1, <2>2
  <1> QED
    BY <1>0, <1>1, <1>3, <1>5, <1>6 DEF StateMap

(* No other step is one of a job.                                          *)
LEMMA StateQuiet ==
    ASSUME UNCHANGED <<queue, job, done, dropped>>
    PROVE  UNCHANGED StateMap
  <1>1. Queued' = Queued /\ InHand' = InHand
    BY DEF Queued, InHand
  <1> QED
    BY <1>1 DEF StateMap, StateOf

(* RunJob's steps are the pool's.                                          *)
LEMMA MapJob ==
    ASSUME AllInv, NEW t \in Threads, JobStep(t), UNCHANGED Waiting
    PROVE  [Pool!JobPoolNext]_(Pool!jobPoolVars)
  <1>0. TInv /\ JInv /\ job \in [Threads -> Jobs \union {NoJob}] /\ Main \in Queues
    BY DEF AllInv, TInv, TypeOK, Queues
  <1>1. CASE Spawn(t)
    <2>1. PICK j \in Jobs \ submitted : Enqueue(j, Main)
      BY <1>1 DEF Spawn
    <2>2. UNCHANGED <<job, done, dropped, owed>> /\ pc[t] = "run"
      BY <1>1 DEF Spawn, localVars, Goto
    <2>3. StateMap[j] = "new" /\ StateMap' = [StateMap EXCEPT ![j] = "queued"]
      BY <1>0, <2>1, <2>2, StateQueued
    <2>4. job[t] \in Jobs
      BY <1>0, <2>2 DEF TInv, HandsOK
    <2>5. StateMap[job[t]] = "running"
      <3>1. job[t] \in InHand
        BY <1>0, <2>4, ConstantFacts DEF InHand
      <3>2. job[t] \notin Queued \union done \union dropped
        BY <1>0, <3>1 DEF JInv, Separate
      <3> QED
        BY <2>4, <3>1, <3>2, StateCases DEF StateByPlace, StateMap
    <2>6. Pool!SubmitFrom(job[t], j)
      BY <2>2, <2>3, <2>5 DEF Pool!SubmitFrom, Pool!Move, StateMap, Waiting
    <2> QED
      BY <2>4, <2>6 DEF Pool!JobPoolNext
  <1>2. CASE PostSpawned(t)
    <2>1. UNCHANGED <<queue, job, done, dropped, owed>>
      BY <1>2 DEF PostSpawned, localVars, jobVars
    <2> QED
      BY <2>1, StateQuiet DEF Pool!jobPoolVars, StateMap, Waiting
  <1>3. CASE RunJob(t)
    <2>1. /\ job' = [job EXCEPT ![t] = NoJob] /\ UNCHANGED <<queue, submitted, dropped, owed>>
          /\ done' = done \union {job[t]}
          /\ copies' = IF job[t] \in ByRef THEN copies ELSE copies \ {job[t]}
          /\ pc[t] = "run"
      BY <1>3 DEF RunJob, listVars, Goto
    <2>2. job[t] # NoJob
      BY <2>1 DEF AllInv, TInv, HandsOK
    <2>3. /\ job[t] \in Jobs
          /\ StateMap[job[t]] = "running"
          /\ StateMap' = [StateMap EXCEPT ![job[t]] = IF UNCHANGED done THEN "dropped" ELSE "done"]
      BY <1>0, <2>1, <2>2, StateLeft
    <2>4. done' # done
      <3>1. job[t] \notin done
        BY <1>0, <2>1, <2>2, LetGoLemma
      <3> QED
        BY <2>1, <3>1
    <2>5. Pool!Finish(job[t])
      BY <2>1, <2>3, <2>4 DEF Pool!Finish, Pool!Move, StateMap, Waiting
    <2> QED
      BY <2>3, <2>5 DEF Pool!JobPoolNext
  <1> QED
    BY <1>1, <1>2, <1>3 DEF JobStep

(* A step in which no job moves and no client starts or ends a FinishQueue *)
(* is none of the JobPool.                                                 *)
LEMMA MapQuiet ==
    ASSUME UNCHANGED <<queue, job, done, dropped, owed>>, UNCHANGED Waiting
    PROVE  [Pool!JobPoolNext]_(Pool!jobPoolVars)
  BY StateQuiet DEF Pool!jobPoolVars, StateMap, Waiting

(* The steps of a worker map to steps of the JobPool.                      *)
LEMMA MapWorker ==
    ASSUME AllInv, FInv, NEW w \in Workers, WorkerStep(w)
    PROVE  [Pool!JobPoolNext]_(Pool!jobPoolVars)
  <1>0. TInv /\ JInv /\ w \in Threads
    BY ThreadFacts DEF AllInv
  <1>1. UNCHANGED Waiting
    <2>1. \A c \in Clients : InFinish(c)' = InFinish(c)
      BY <1>0, WorkerStays DEF InFinish
    <2> QED
      BY <2>1 DEF Waiting
  <1>2. CASE JobStep(w)
    BY <1>0, <1>1, <1>2, MapJob
  <1>3. CASE CheckQuit(w) /\ shouldQuit[w] /\ job[w] # NoJob
    <2>1. /\ job' = [job EXCEPT ![w] = NoJob] /\ UNCHANGED <<queue, submitted, owed>>
          /\ dropped' = dropped \union {job[w]}
          /\ UNCHANGED <<done, copies>>
      BY <1>3 DEF CheckQuit, listVars
    <2>2. /\ job[w] \in Jobs
          /\ StateMap[job[w]] = "running"
          /\ StateMap' = [StateMap EXCEPT ![job[w]] = IF UNCHANGED done THEN "dropped" ELSE "done"]
      BY <1>0, <1>3, <2>1, StateLeft
    <2>3. Pool!Drop(job[w])
      BY <1>1, <2>1, <2>2 DEF Pool!Drop, Pool!Move, StateMap, Waiting
    <2> QED
      BY <2>2, <2>3 DEF Pool!JobPoolNext
  <1>4. CASE CheckQuit(w) /\ ~(shouldQuit[w] /\ job[w] # NoJob)
    <2>1. UNCHANGED <<queue, done, owed>>
      BY <1>4 DEF CheckQuit, listVars
    <2>2. job' = job /\ dropped' = dropped
      <3>1. CASE ~shouldQuit[w]
        BY <1>4, <3>1 DEF CheckQuit
      <3>2. CASE shouldQuit[w] /\ job[w] = NoJob
        BY <1>0, <1>4, <3>2 DEF CheckQuit, TInv, TypeOK
      <3> QED
        BY <1>4, <3>1, <3>2
    <2> QED
      BY <1>1, <2>1, <2>2, MapQuiet
  <1>5. CASE PopJob(w)
    <2>1. /\ Unlink(w) /\ UNCHANGED <<copies, submitted, done, dropped, owed>>
          /\ pc[w] = "pop"
      BY <1>5 DEF PopJob, jobVars, Goto
    <2>2. job[w] = NoJob
      BY <1>0, <2>1 DEF TInv, HandsOK
    <2>3. /\ job'[w] \in Jobs
          /\ StateMap[job'[w]] = "queued"
          /\ StateMap' = [StateMap EXCEPT ![job'[w]] = "running"]
      BY <1>0, <2>1, <2>2, StateTaken
    <2>4. PICK h \in Jobs : StateMap[h] = "queued" /\ StateMap' = [StateMap EXCEPT ![h] = "running"]
      BY <2>3
    <2>5. Pool!Start(h)
      BY <1>1, <2>1, <2>4 DEF Pool!Start, Pool!Move, StateMap, Waiting
    <2> QED
      BY <2>5 DEF Pool!JobPoolNext
  <1>6. CASE ReloadList(w) \/ UnlockJob(w) \/ WaitForJob(w) \/ PassOnQuit(w) \/ GoOnToPop(w)
             \/ PopNothing(w) \/ HoldList(w) \/ LockJob(w)
    <2>1. UNCHANGED <<queue, job, done, dropped, owed>>
      BY <1>6 DEF ReloadList, UnlockJob, WaitForJob, PassOnQuit, GoOnToPop, PopNothing,
                  HoldList, LockJob, listVars, localVars, jobVars
    <2> QED
      BY <1>1, <2>1, MapQuiet
  <1> QED
    BY <1>2, <1>3, <1>4, <1>5, <1>6 DEF WorkerStep

(* A client that moves on inside or outside of FinishQueue.                *)
LEMMA WaitingStays ==
    ASSUME OneClient, TInv, NEW c \in Clients, InFinish(c)' = InFinish(c)
    PROVE  UNCHANGED Waiting
  BY OnlyClient DEF Waiting

(* The steps of the client inside its calls do.                            *)
LEMMA MapClient ==
    ASSUME OneClient, AllInv, FInv, NEW c \in Clients, ClientStep(c)
    PROVE  [Pool!JobPoolNext]_(Pool!jobPoolVars)
  <1>0. /\ TInv /\ JInv /\ c \in Threads /\ Clients = {c} /\ c \notin Workers
        /\ pc \in [Threads -> Labels]
        /\ \A w \in Workers : w \in Threads /\ w # c
    BY OnlyClient, ThreadFacts DEF AllInv, TInv, TypeOK
  <1>1. CASE JobStep(c)
    <2>1. PICK to \in {"run", "run_post", "fq_try"} :
              pc[c] \in {"run", "run_post"} /\ pc' = [pc EXCEPT ![c] = to]
      BY <1>0, <1>1 DEF JobStep, Spawn, PostSpawned, RunJob, Goto
    <2>2. InFinish(c)' = InFinish(c)
      BY <1>0, <2>1 DEF InFinish
    <2> QED
      BY <1>0, <1>1, <2>2, WaitingStays, MapJob
  <1>2. CASE TryPop(c)
    <2>1. /\ Unlink(c) /\ UNCHANGED <<copies, submitted, done, dropped, owed>>
          /\ pc[c] = "fq_pop" /\ pc' = [pc EXCEPT ![c] = "run"]
      BY <1>2 DEF TryPop, jobVars, Goto
    <2>2. job[c] = NoJob
      BY <1>0, <2>1 DEF TInv, HandsOK
    <2>3. /\ job'[c] \in Jobs
          /\ StateMap[job'[c]] = "queued"
          /\ StateMap' = [StateMap EXCEPT ![job'[c]] = "running"]
      BY <1>0, <2>1, <2>2, StateTaken
    <2>4. PICK h \in Jobs : StateMap[h] = "queued" /\ StateMap' = [StateMap EXCEPT ![h] = "running"]
      BY <2>3
    <2>5. InFinish(c)' = InFinish(c)
      BY <1>0, <2>1 DEF InFinish
    <2>6. UNCHANGED Waiting
      BY <1>0, <2>5, WaitingStays
    <2>7. Pool!Start(h)
      BY <2>1, <2>4, <2>6 DEF Pool!Start, Pool!Move, StateMap, Waiting
    <2> QED
      BY <2>7 DEF Pool!JobPoolNext
  <1>3. CASE InitThread(c) \/ JoinWorker(c)
    <2>1. /\ pc[c] \in {"init", "end_join"} /\ idx[c] \in Workers
      BY <1>0, <1>3 DEF InitThread, JoinWorker, TInv, CountersOK
    <2>2. pc'[c] \in {"idle", "init", "end_join"}
      BY <1>0, <1>3, <2>1 DEF InitThread, JoinWorker
    <2>3. InFinish(c)' = InFinish(c)
      BY <2>1, <2>2 DEF InFinish
    <2>4. UNCHANGED <<queue, job, done, dropped, owed>>
      BY <1>3 DEF InitThread, JoinWorker, listVars, jobVars
    <2> QED
      BY <1>0, <2>3, <2>4, WaitingStays, MapQuiet
  <1>4. CASE UnlockWorker(c)
    <2>1. /\ UNCHANGED <<queue, job, done, dropped, owed>>
          /\ LoopStep(c, "fq_unlock", NumThreads, "fq_spin", "idle")
      BY <1>4 DEF UnlockWorker, listVars, jobVars
    <2>2. pc[c] = "fq_unlock" /\ idx[c] \in Nat /\ idx[c] < NumThreads /\ NumThreads \in Nat
      BY <1>0, <2>1, ThreadFacts DEF LoopStep, Goto, TInv, CountersOK
    <2>3. CASE idx[c] + 1 < NumThreads
      <3>1. pc'[c] = "fq_spin"
        BY <1>0, <2>1, <2>3 DEF LoopStep, Goto
      <3>2. InFinish(c)' = InFinish(c)
        BY <2>2, <3>1 DEF InFinish
      <3> QED
        BY <1>0, <2>1, <3>2, WaitingStays, MapQuiet
    <2>4. CASE ~(idx[c] + 1 < NumThreads)
      <3>1. pc'[c] = "idle" /\ idx[c] + 1 = NumThreads
        BY <1>0, <2>1, <2>2, <2>4 DEF LoopStep, Goto
      <3>2. InFinish(c) /\ ~InFinish(c)'
        BY <2>2, <3>1 DEF InFinish
      <3>3. owed[c] \subseteq done \union dropped
        <4>1. [Next]_vars /\ pc'[c] # "fq_unlock"
          BY <3>1 DEF Next
        <4> QED
          BY <2>2, <3>1, <4>1, FinishEnds
      <3>4. c \in Waiting /\ Waiting' = Waiting \ {c}
        BY <1>0, <3>2 DEF Waiting
      <3>5. \A j \in owed[c] : StateMap[j] \in {"done", "dropped"}
        <4>1. ASSUME NEW j \in owed[c] PROVE StateMap[j] \in {"done", "dropped"}
          <5>1. j \in Jobs /\ (j \in done \/ j \in dropped)
            BY <1>0, <3>3 DEF TInv, TypeOK
          <5>2. \/ j \in done \ (dropped \union InHand \union Queued)
                \/ j \in dropped \ (done \union InHand \union Queued)
            BY <1>0, <5>1 DEF JInv, Separate
          <5> QED
            BY <5>1, <5>2, StateCases DEF StateByPlace, StateMap
        <4> QED
          BY <4>1
      <3>6. UNCHANGED StateMap
        BY <2>1, StateQuiet
      <3>7. Pool!Return(c)
        BY <2>1, <3>4, <3>5, <3>6 DEF Pool!Return, StateMap, Waiting
      <3> QED
        BY <3>7 DEF Pool!JobPoolNext
    <2> QED
      BY <2>3, <2>4
  <1>5. CASE PostQueued(c) \/ PickList(c) \/ TryToken(c) \/ TryGoOn(c) \/ SpinUntilEmpty(c)
             \/ LockWorker(c)
    <2>1. UNCHANGED <<queue, job, done, dropped, owed>>
      BY <1>5 DEF PostQueued, PickList, TryToken, TryGoOn, SpinUntilEmpty, LockWorker,
                  listVars, localVars, jobVars
    <2>2. InFinish(c)' = InFinish(c)
      BY <1>0, <1>5 DEF PostQueued, PickList, TryToken, TryGoOn, SpinUntilEmpty, LockWorker,
                        Goto, InFinish
    <2> QED
      BY <1>0, <2>1, <2>2, WaitingStays, MapQuiet
  <1>6. CASE NoToken(c) \/ TryQuit(c) \/ TryPopNothing(c)
    <2>1. UNCHANGED <<queue, job, done, dropped, owed>>
      BY <1>6 DEF NoToken, TryQuit, TryPopNothing, listVars, jobVars
    <2>2. PICK from \in {"fq_try", "fq_woken", "fq_pop"} :
              LoopStep(c, from, NumThreads, "fq_list", "fq_spin")
      BY <1>6 DEF NoToken, TryQuit, TryPopNothing, NextList
    <2>3. pc[c] = from /\ \E to \in {"fq_list", "fq_spin"} : pc' = [pc EXCEPT ![c] = to]
      BY <1>0, <2>2, LoopMoves
    <2>4. InFinish(c)' = InFinish(c)
      BY <1>0, <2>3 DEF InFinish
    <2> QED
      BY <1>0, <2>1, <2>4, WaitingStays, MapQuiet
  <1>7. CASE FlagWorker(c) \/ QuitList(c) \/ WakeWorker(c)
    <2>1. UNCHANGED <<queue, job, done, dropped, owed>>
      BY <1>7 DEF FlagWorker, QuitList, WakeWorker, listVars, jobVars
    <2>2. PICK from \in {"end_flag", "end_quit", "end_post"},
               again \in {"end_flag", "end_quit", "end_post"},
               after \in {"end_quit", "end_post", "end_join"},
               limit \in {NumThreads, 4 * NumThreads} :
                  LoopStep(c, from, limit, again, after)
      BY <1>7 DEF FlagWorker, QuitList, WakeWorker
    <2>3. pc[c] = from /\ \E to \in {again, after} : pc' = [pc EXCEPT ![c] = to]
      BY <1>0, <2>2, LoopMoves
    <2>4. InFinish(c)' = InFinish(c)
      BY <1>0, <2>3 DEF InFinish
    <2> QED
      BY <1>0, <2>1, <2>4, WaitingStays, MapQuiet
  <1>8. CASE SkipBound(c) \/ FoundUnbound(c) \/ SetList(c) \/ WakeMain(c) \/ LockBound(c)
             \/ ResetList(c) \/ UnlockBound(c)
    <2>1. pc[c] \in Binding
      BY <1>8 DEF SkipBound, FoundUnbound, SetList, WakeMain, LockBound, ResetList,
                  UnlockBound, LoopStep, Goto, Binding
    <2> QED
      BY <2>1 DEF FInv
  <1> QED
    BY <1>1, <1>2, <1>3, <1>4, <1>5, <1>6, <1>7, <1>8 DEF ClientStep

(* And so do those with which it starts one.                               *)
LEMMA MapCall ==
    ASSUME OneClient, AllInv, FInv, NEW c \in Clients, ClientCall(c)
    PROVE  [Pool!JobPoolNext]_(Pool!jobPoolVars)
  <1>0. /\ TInv /\ JInv /\ c \in Threads /\ Clients = {c}
        /\ pc \in [Threads -> Labels]
    BY OnlyClient, ThreadFacts DEF AllInv, TInv, TypeOK
  <1>1. ASSUME NEW j \in Jobs, NEW q \in Queues, QueueJob(c, j, q)
        PROVE  [Pool!JobPoolNext]_(Pool!jobPoolVars)
    <2>1. /\ Enqueue(j, q) /\ j \in Jobs \ submitted
          /\ UNCHANGED <<job, done, dropped>>
          /\ owed' = [owed EXCEPT ![c] = owed[c] \union {j}]
          /\ pc[c] = "idle" /\ pc' = [pc EXCEPT ![c] = "q_post"]
      BY <1>1 DEF QueueJob, Goto
    <2>2. StateMap[j] = "new" /\ StateMap' = [StateMap EXCEPT ![j] = "queued"]
      BY <1>0, <2>1, StateQueued
    <2>3. ~InFinish(c) /\ InFinish(c)' = InFinish(c)
      BY <1>0, <2>1 DEF InFinish
    <2>4. UNCHANGED Waiting /\ c \notin Waiting
      BY <1>0, <2>3, WaitingStays DEF Waiting
    <2>5. Pool!Submit(c, j)
      BY <2>1, <2>2, <2>4 DEF Pool!Submit, Pool!Move, StateMap, Waiting
    <2> QED
      BY <2>5 DEF Pool!JobPoolNext
  <1>2. CASE CallFinish(c)
    <2>1. /\ UNCHANGED <<queue, job, done, dropped, owed>>
          /\ pc[c] = "idle"
          /\ \E to \in {"fq_spin", "fq_list"} : pc' = [pc EXCEPT ![c] = to]
      BY <1>2 DEF CallFinish, StartCall, Goto, listVars, jobVars
    <2>2. ~InFinish(c) /\ InFinish(c)'
      BY <1>0, <2>1 DEF InFinish
    <2>3. c \notin Waiting /\ Waiting' = Waiting \union {c}
      BY <1>0, <2>2 DEF Waiting
    <2>4. UNCHANGED StateMap
      BY <2>1, StateQuiet
    <2>5. Pool!Wait(c)
      BY <2>1, <2>3, <2>4 DEF Pool!Wait, StateMap, Waiting
    <2> QED
      BY <2>5 DEF Pool!JobPoolNext
  <1>3. CASE CallInit(c) \/ CallEnd(c)
    <2>1. /\ UNCHANGED <<queue, job, done, dropped, owed>>
          /\ pc[c] = "idle"
          /\ \E to \in {"init", "end_flag"} : pc' = [pc EXCEPT ![c] = to]
      BY <1>3 DEF CallInit, CallEnd, StartCall, Goto, listVars, jobVars
    <2>2. InFinish(c)' = InFinish(c)
      BY <1>0, <2>1 DEF InFinish
    <2> QED
      BY <1>0, <2>1, <2>2, WaitingStays, MapQuiet
  <1>4. ~ \E q \in BoundQueues : CallBind(c, q) \/ CallUnbind(c, q)
    BY DEF OneClient
  <1> QED
    BY <1>1, <1>2, <1>3, <1>4 DEF ClientCall

(* The pool starts as a JobPool with nothing submitted,                    *)
LEMMA MapInit == Init => Pool!JobPoolInit
  <1> SUFFICES ASSUME Init PROVE Pool!JobPoolInit
    OBVIOUS
  <1>1. /\ \A q \in Queues : queue[q] = <<>>
        /\ \A t \in Threads : job[t] = NoJob
        /\ done = {} /\ dropped = {}
        /\ owed = [c \in Clients |-> {}]
        /\ \A c \in Clients : pc[c] = "idle"
    BY ThreadFacts DEF Init
  <1>2. Queued = {} /\ InHand = {}
    BY <1>1 DEF Queued, InHand
  <1>3. \A j \in Jobs : StateOf(j) = "new"
    BY <1>1, <1>2, StateCases DEF StateByPlace
  <1>4. \A c \in Clients : ~InFinish(c)
    BY <1>1 DEF InFinish
  <1> QED
    BY <1>1, <1>3, <1>4 DEF Pool!JobPoolInit

(* and goes on as one.                                                     *)
LEMMA MapNext ==
    OneClient /\ AllInv /\ FInv /\ [Next]_vars => [Pool!JobPoolNext]_(Pool!jobPoolVars)
  <1> SUFFICES ASSUME OneClient, AllInv, FInv, [Next]_vars
               PROVE  [Pool!JobPoolNext]_(Pool!jobPoolVars)
    OBVIOUS
  <1>1. CASE UNCHANGED vars
    <2>1. UNCHANGED <<queue, job, done, dropped, owed, pc>>
      BY <1>1 DEF vars, listVars, localVars, jobVars
    <2>2. UNCHANGED Waiting
      BY <2>1 DEF Waiting, InFinish
    <2> QED
      BY <2>1, <2>2, MapQuiet
  <1> QED
    BY <1>1, MapWorker, MapClient, MapCall DEF Next

(* The pool implements JobPool for one client, any number of threads and   *)
(* any jobs: each is started once by someone, ends or is dropped once, and *)
(* FinishQueue returns only when those of its client have.                 *)
THEOREM PoolIsJobPool ==
    ASSUME OneClient
    PROVE  Spec => ImplementsJobPool
  <1>1. AllInv /\ FInv /\ [Next]_vars => [Pool!JobPoolNext]_(Pool!jobPoolVars)
    BY MapNext
  <1> QED
    BY <1>1, MapInit, FAlways, PTL DEF Spec, ImplementsJobPool, Pool!JobPoolSpec

-----------------------------------------------------------------------------
(* UnbindThread, when one client calls the pool.                           *)

OneCaller == \E c : Clients = {c}

Unbinding == {"unb_lock", "unb_set", "unb_unlock"}

(* UnbindThread has taken its list from the workers it has come by.        *)
UInv ==
    \A c \in Clients : pc[c] \in Unbinding =>
        /\ list[c] \in BoundQueues
        /\ \A w \in Workers : w < idx[c] => jobsOf[w] # list[c]
        /\ pc[c] = "unb_unlock" => jobsOf[idx[c]] # list[c]

(* A worker leaves alone what UnbindThread works with.                     *)
LEMMA UWorker ==
    ASSUME TInv, UInv, NEW w \in Workers, WorkerStep(w)
    PROVE  UInv'
  <1>1. pc \in [Threads -> Labels] /\ list \in [Threads -> Queues]
    BY DEF TInv, TypeOK
  <1>2. /\ UNCHANGED <<idx, jobsOf>>
        /\ \E to : pc' = [pc EXCEPT ![w] = to]
        /\ list' = list \/ \E q : list' = [list EXCEPT ![w] = q]
    BY DEF WorkerStep, JobStep, Spawn, PostSpawned, RunJob, CheckQuit, ReloadList, UnlockJob,
           WaitForJob, PassOnQuit, GoOnToPop, PopNothing, HoldList, LockJob, PopJob, Goto,
           localVars, workerVars
  <1>3. \A c \in Clients : pc'[c] = pc[c] /\ list'[c] = list[c]
    BY <1>1, <1>2, ThreadFacts
  <1> QED
    BY <1>2, <1>3 DEF UInv

(* The client goes through the workers in turn.                            *)
LEMMA UClient ==
    ASSUME OneCaller, TInv, UInv, NEW c \in Clients, ClientStep(c)
    PROVE  UInv'
  <1>0. /\ Clients = {c} /\ c \in Threads /\ \A w \in Workers : w # c /\ w \in Threads
        /\ pc \in [Threads -> Labels] /\ list \in [Threads -> Queues]
        /\ jobsOf \in [Workers -> Queues] /\ idx \in [Clients -> Nat]
        /\ pc[c] \in Unbinding => idx[c] \in Workers
    BY ThreadFacts DEF OneCaller, TInv, TypeOK, CountersOK, Unbinding
  <1>1. CASE LockBound(c)
    <2>1. pc[c] = "unb_lock" /\ pc'[c] = "unb_set" /\ UNCHANGED <<list, idx, jobsOf>>
      BY <1>0, <1>1 DEF LockBound, Goto, localVars
    <2> QED
      BY <1>0, <2>1 DEF UInv, Unbinding
  <1>2. CASE ResetList(c)
    <2> DEFINE v == idx[c]
    <2>1. /\ pc[c] = "unb_set" /\ pc'[c] = "unb_unlock" /\ UNCHANGED <<list, idx>>
          /\ jobsOf' = [jobsOf EXCEPT ![v] = IF @ = list[c] THEN Main ELSE @]
      BY <1>0, <1>2 DEF ResetList, Goto, localVars
    <2>2. /\ v \in Workers /\ list[c] \in BoundQueues
          /\ \A w \in Workers : w < v => jobsOf[w] # list[c]
      BY <1>0, <2>1 DEF UInv, Unbinding
    <2>3. list[c] # Main
      BY <2>2, ThreadPoolAssumption DEF ThreadPoolAssumption
    <2> HIDE DEF v
    <2>4. \A w \in Workers : w < v \/ w = v => jobsOf'[w] # list[c]
      BY <1>0, <2>1, <2>2, <2>3
    <2>5. idx'[c] = v
      BY <2>1 DEF v
    <2> QED
      BY <1>0, <2>1, <2>2, <2>4, <2>5 DEF UInv
  <1>3. CASE UnlockBound(c)
    <2> DEFINE v == idx[c]
    <2>1. /\ LoopStep(c, "unb_unlock", NumThreads, "unb_lock", "idle")
          /\ UNCHANGED <<list, jobsOf>>
      BY <1>3 DEF UnlockBound
    <2>2. \/ pc'[c] = "unb_lock" /\ idx'[c] = v + 1
          \/ pc'[c] = "idle"
      <3>1. CASE v + 1 < NumThreads
        BY <1>0, <2>1, <3>1 DEF LoopStep, Goto
      <3>2. CASE ~(v + 1 < NumThreads)
        BY <1>0, <2>1, <3>2 DEF LoopStep, Goto
      <3> QED
        BY <3>1, <3>2
    <2>3. pc[c] = "unb_unlock"
      BY <2>1 DEF LoopStep, Goto
    <2>4. /\ v \in Nat /\ list[c] \in BoundQueues
          /\ \A w \in Workers : w < v \/ w = v => jobsOf[w] # list[c]
      BY <1>0, <2>3 DEF UInv, Unbinding
    <2> HIDE DEF v
    <2>5. \A w \in Workers : w < v + 1 => w < v \/ w = v
      BY <2>4, ThreadFacts
    <2> QED
      BY <1>0, <2>1, <2>2, <2>4, <2>5 DEF UInv, Unbinding
  <1>4. ASSUME ~LockBound(c), ~ResetList(c), ~UnlockBound(c) PROVE pc'[c] \notin Unbinding
    <2>1. CASE InitThread(c) \/ JoinWorker(c)
      <3>1. idx[c] \in Workers
        BY <2>1 DEF InitThread, JoinWorker, TInv, CountersOK
      <3>2. pc'[c] \in {"idle", "init", "end_join"}
        BY <1>0, <2>1, <3>1 DEF InitThread, JoinWorker
      <3> QED
        BY <3>2 DEF Unbinding
    <2>2. CASE JobStep(c) \/ PostQueued(c) \/ PickList(c) \/ TryToken(c) \/ TryGoOn(c)
               \/ TryPop(c) \/ SpinUntilEmpty(c) \/ LockWorker(c) \/ FoundUnbound(c)
               \/ SetList(c)
      <3>1. PICK to \in {"run", "run_post", "fq_try", "reload", "idle", "fq_woken", "fq_pop",
                         "fq_lock", "fq_unlock", "bind_set", "bind_post"} :
                pc' = [pc EXCEPT ![c] = to]
        BY <2>2 DEF JobStep, Spawn, PostSpawned, RunJob, PostQueued, PickList, TryToken, TryGoOn,
                    TryPop, SpinUntilEmpty, LockWorker, FoundUnbound, SetList, Goto
      <3> QED
        BY <1>0, <3>1 DEF Unbinding
    <2>3. CASE NoToken(c) \/ TryQuit(c) \/ TryPopNothing(c) \/ UnlockWorker(c) \/ SkipBound(c)
               \/ WakeMain(c) \/ FlagWorker(c) \/ QuitList(c) \/ WakeWorker(c)
      <3>1. PICK from \in {"fq_try", "fq_woken", "fq_pop", "fq_unlock", "bind_scan", "bind_post",
                           "end_flag", "end_quit", "end_post"},
                 again \in {"fq_list", "fq_spin", "bind_scan", "bind_post", "end_flag",
                            "end_quit", "end_post"},
                 after \in {"fq_spin", "idle", "end_quit", "end_post", "end_join"},
                 limit \in {NumThreads, 4 * NumThreads} :
                    LoopStep(c, from, limit, again, after)
        BY <2>3 DEF NoToken, NextList, TryQuit, TryPopNothing, UnlockWorker, SkipBound, WakeMain,
                    FlagWorker, QuitList, WakeWorker
      <3>2. \/ pc' = [pc EXCEPT ![c] = again]
            \/ pc' = [pc EXCEPT ![c] = after]
        BY <3>1, LoopMoves
      <3> QED
        BY <1>0, <3>2 DEF Unbinding
    <2> QED
      BY <1>4, <2>1, <2>2, <2>3 DEF ClientStep
  <1> QED
    BY <1>0, <1>1, <1>2, <1>3, <1>4 DEF UInv

(* UnbindThread starts with worker 0, and no other call gets into it.      *)
LEMMA UCall ==
    ASSUME OneCaller, TInv, UInv, NEW c \in Clients, ClientCall(c)
    PROVE  UInv'
  <1>0. /\ Clients = {c} /\ c \in Threads
        /\ pc \in [Threads -> Labels] /\ list \in [Threads -> Queues]
        /\ idx \in [Clients -> Nat]
        /\ \A w \in Workers : ~(w < 0)
    BY ThreadFacts DEF OneCaller, TInv, TypeOK
  <1>1. ASSUME NEW q \in BoundQueues, CallUnbind(c, q) PROVE UInv'
    <2>1. pc'[c] = "unb_lock" /\ idx'[c] = 0 /\ list'[c] = q
      BY <1>0, <1>1 DEF CallUnbind, StartCall, Goto
    <2> QED
      BY <1>0, <2>1 DEF UInv
  <1>2. ASSUME NEW q \in BoundQueues, CallBind(c, q) PROVE UInv'
    <2>1. pc'[c] = "bind_scan"
      BY <1>0, <1>2 DEF CallBind, StartCall, Goto
    <2> QED
      BY <1>0, <2>1 DEF UInv, Unbinding
  <1>3. ASSUME (\E j \in Jobs, q \in Queues : QueueJob(c, j, q))
               \/ CallInit(c) \/ CallFinish(c) \/ CallEnd(c)
        PROVE  UInv'
    <2>1. \E to \in {"q_post", "init", "fq_spin", "fq_list", "end_flag"} :
              pc' = [pc EXCEPT ![c] = to]
      BY <1>3 DEF QueueJob, CallInit, CallFinish, CallEnd, StartCall, Goto
    <2> QED
      BY <1>0, <2>1 DEF UInv, Unbinding
  <1> QED
    BY <1>1, <1>2, <1>3 DEF ClientCall

(* UInv holds throughout, if there is one client.                          *)
LEMMA UAlways ==
    ASSUME OneCaller
    PROVE  Spec => [](TInv /\ UInv)
  <1>1. Init => UInv
    <2>1. Init => \A c \in Clients : pc[c] = "idle"
      BY ThreadFacts DEF Init
    <2> QED
      BY <2>1 DEF UInv, Unbinding
  <1>2. TInv /\ UInv /\ [Next]_vars => UInv'
    <2> SUFFICES ASSUME TInv, UInv, [Next]_vars PROVE UInv'
      OBVIOUS
    <2>1. CASE UNCHANGED vars
      BY <2>1 DEF vars, workerVars, localVars, UInv
    <2> QED
      BY <2>1, UWorker, UClient, UCall DEF Next
  <1> QED
    BY <1>1, <1>2, TInit, TNext, PTL DEF Spec

(* UnbindThread returns only when no worker has its list any more, for     *)
(* every number of threads and lists and whatever the workers do, if no    *)
(* other client binds it again meanwhile.                                  *)
THEOREM UnbindUnbinds ==
    ASSUME OneCaller
    PROVE  Spec => UnbindMeansUnbound
  <1>1. TInv /\ TInv' /\ UInv /\ [Next]_vars =>
            [\A c \in Clients : pc[c] = "unb_unlock" /\ pc'[c] = "idle"
                                => \A w \in Workers : jobsOf'[w] # list[c]]_vars
    <2> SUFFICES ASSUME TInv, UInv, [Next]_vars, NEW c \in Clients,
                        pc[c] = "unb_unlock", pc'[c] = "idle", NEW w \in Workers
                 PROVE  jobsOf'[w] # list[c]
      OBVIOUS
    <2>0. /\ Clients = {c} /\ c \in Threads /\ pc \in [Threads -> Labels]
          /\ idx[c] \in Workers /\ idx \in [Clients -> Nat]
          /\ \A v \in Workers : v # c /\ v \in Nat /\ v < NumThreads
          /\ NumThreads \in Nat
      BY ThreadFacts DEF OneCaller, TInv, TypeOK, CountersOK
    <2>1. UnlockBound(c)
      <3>1. ~ \E v \in Workers : WorkerStep(v)
        <4>1. ASSUME NEW v \in Workers, WorkerStep(v) PROVE FALSE
          <5>1. \E to : pc' = [pc EXCEPT ![v] = to]
            BY <4>1 DEF WorkerStep, JobStep, Spawn, PostSpawned, RunJob, CheckQuit, ReloadList,
                        UnlockJob, WaitForJob, PassOnQuit, GoOnToPop, PopNothing, HoldList,
                        LockJob, PopJob, Goto
          <5> QED
            BY <2>0, <5>1
        <4> QED
          BY <4>1
      <3>2. ~ClientCall(c)
        BY DEF ClientCall, QueueJob, CallInit, CallFinish, CallEnd, CallBind, CallUnbind,
               StartCall, Goto
      <3>3. ClientStep(c)
        BY <2>0, <3>1, <3>2 DEF Next, vars
      <3> QED
        BY <3>3 DEF ClientStep, JobStep, Spawn, PostSpawned, RunJob, PostQueued, InitThread,
                    PickList, TryToken, NoToken, NextList, TryQuit, TryGoOn, TryPop,
                    TryPopNothing, SpinUntilEmpty, LockWorker, UnlockWorker, SkipBound,
                    FoundUnbound, SetList, WakeMain, LockBound, ResetList, FlagWorker, QuitList,
                    WakeWorker, JoinWorker, LoopStep, Goto
    <2>2. UNCHANGED jobsOf /\ LoopStep(c, "unb_unlock", NumThreads, "unb_lock", "idle")
      BY <2>1 DEF UnlockBound
    <2>3. idx[c] + 1 = NumThreads
      <3>1. ASSUME idx[c] + 1 < NumThreads PROVE FALSE
        <4>1. pc' = [pc EXCEPT ![c] = "unb_lock"]
          BY <2>2, <3>1 DEF LoopStep, Goto
        <4> QED
          BY <2>0, <4>1
      <3> QED
        BY <2>0, <3>1
    <2>4. w < idx[c] \/ w = idx[c]
      BY <2>0, <2>3
    <2> QED
      BY <2>2, <2>4 DEF UInv, Unbinding
  <1>2. TInv /\ [Next]_vars => TInv'
    BY TNext
  <1> QED
    BY <1>1, <1>2, UAlways, PTL DEF Spec, UnbindMeansUnbound
=============================================================================
