----------------------------- MODULE Scheduler -----------------------------
(***************************************************************************)
(* src/utils/scheduler.h: Scheduler orders its tasks by priority and hands *)
(* them out one by one, charging the time given to each Run to the bursts  *)
(* of the tasks it passes.                                                 *)
(***************************************************************************)
EXTENDS Integers, Sequences, FiniteSets, FiniteSetsExt, SequencesExt

CONSTANTS
    Tasks,          \* how many tasks there are (size)
    MaxPriority, MaxBurst, MaxTime, MaxRuns     \* bounds

ASSUME SchedulerAssumption ==
    /\ Tasks \in Nat /\ MaxRuns \in Nat
    /\ MaxPriority \in Nat /\ MaxBurst \in Nat /\ MaxTime \in Nat

Idx == 0 .. Tasks - 1
NoTask == -1

VARIABLES
    task, burstTime, priority,  \* what the client filled in, by index
    cid,
    plan,           \* history: bursts and priorities at the last Sort, by task,
    given,          \* the times of the Runs since then,
    ran             \* and the task each of them returned

schedVars == <<task, burstTime, priority, cid, plan, given, ran>>

Zeros == [i \in Idx |-> 0]

(* A global: all but the tasks is zero before the client fills it in.      *)
SchedInit ==
    /\ task = [i \in Idx |-> i]
    /\ burstTime = Zeros /\ priority = Zeros
    /\ cid = 0
    /\ plan = [burst |-> Zeros, prio |-> Zeros]
    /\ given = <<>> /\ ran = <<>>

(* Mutant of PosOf: the last of the greatest.                              *)
PosOfGreatest(prio, i) ==
    CHOOSE pos \in i .. Tasks - 1 :
        \A o \in i .. Tasks - 1 : prio[pos] > prio[o] \/ (prio[pos] = prio[o] /\ o <= pos)

(* The last of the least from i on: the search moves on to equal ones.     *)
PosOf(prio, i) ==
    CHOOSE pos \in i .. Tasks - 1 :
        \A o \in i .. Tasks - 1 : prio[pos] < prio[o] \/ (prio[pos] = prio[o] /\ o <= pos)

Swap(f, i, j) == [f EXCEPT ![i] = f[j], ![j] = f[i]]

Selected(s, i) ==
    LET pos == PosOf(s.prio, i)
    IN  [task |-> Swap(s.task, i, pos), burst |-> Swap(s.burst, i, pos),
         prio |-> Swap(s.prio, i, pos)]

(* The members are public: the client writes a task anew and sorts.        *)
Sort(at, burst, prio) ==
    LET filled == [task |-> task, burst |-> [burstTime EXCEPT ![at] = burst],
                   prio |-> [priority EXCEPT ![at] = prio]]
        s == FoldLeft(Selected, filled, [n \in 1 .. Tasks |-> n - 1])
    IN  /\ task' = s.task /\ burstTime' = s.burst /\ priority' = s.prio
        /\ cid' = 0
        /\ plan' = [burst |-> [t \in Idx |-> filled.burst[CHOOSE i \in Idx : task[i] = t]],
                    prio |-> [t \in Idx |-> filled.prio[CHOOSE i \in Idx : task[i] = t]]]
        /\ given' = <<>> /\ ran' = <<>>

(* What is left of the time when a Run comes to task i.                    *)
LeftAt(time, i) == time - SumFunction([j \in cid .. i - 1 |-> burstTime[j]])

(* Mutant: cid moves on past the end.                                      *)
NextCidPast(stop) == stop + 1

NextCid(stop) == IF stop = Tasks THEN Tasks ELSE stop + 1

Run(time) ==
    LET enough == {i \in cid .. Tasks - 1 : burstTime[i] >= LeftAt(time, i)}
        stop == Min(enough \union {Tasks})
    IN  /\ burstTime' = [i \in Idx |->
                            IF i \in cid .. stop - 1 THEN 0
                            ELSE IF i = stop THEN burstTime[i] - LeftAt(time, i)
                            ELSE burstTime[i]]
        /\ cid' = NextCid(stop)
        /\ given' = Append(given, time)
        /\ ran' = Append(ran, IF stop = Tasks THEN NoTask ELSE task[stop])
        /\ UNCHANGED <<task, priority, plan>>

SchedNext ==
    \/ \E at \in Idx, burst \in 0 .. MaxBurst, prio \in 0 .. MaxPriority : Sort(at, burst, prio)
    \/ Len(given) < MaxRuns /\ \E time \in 0 .. MaxTime : Run(time)

SchedSpec == SchedInit /\ [][SchedNext]_schedVars

-----------------------------------------------------------------------------

SchedTypeOK ==
    /\ task \in [Idx -> Idx]
    /\ burstTime \in [Idx -> 0 .. MaxBurst] /\ priority \in [Idx -> 0 .. MaxPriority]
    /\ cid \in 0 .. Tasks

(* Sorting keeps each task's burst and priority with it, and the Runs      *)
(* after it go up in priority: none returns a task twice, a task that was  *)
(* passed has used up its burst or was returned, and the bursts used up    *)
(* add up to the time given, except for what a Run that returned none had  *)
(* left over.                                                              *)
TimeGoesByPriority ==
    LET used(i) == plan.burst[task[i]] - burstTime[i]
        allUsed == SumFunction([i \in Idx |-> used(i)])
        allGiven == SumFunction(given)
        returned == {ran[r] : r \in DOMAIN ran} \ {NoTask}
    IN  /\ \A i, j \in Idx :
              /\ i # j => task[i] # task[j]
              /\ i < j => plan.prio[task[i]] <= plan.prio[task[j]]
        /\ \A i \in Idx : used(i) >= 0 /\ (i >= cid => used(i) = 0)
        /\ \A i \in 0 .. cid - 1 : given # <<>> => burstTime[i] = 0 \/ task[i] \in returned
        /\ allUsed <= allGiven /\ (NoTask \notin {ran[r] : r \in DOMAIN ran} => allUsed = allGiven)
        /\ \A r, q \in DOMAIN ran :
              r < q /\ ran[q] # NoTask => ran[r] \in returned \ {ran[q]}
                                          /\ plan.prio[ran[r]] <= plan.prio[ran[q]]
=============================================================================
