------------------------------- MODULE Aimbot -------------------------------
(***************************************************************************)
(* src/features/aimbot.cpp, threaded build: RunAimbot looks for the best   *)
(* target in the recent ticks.  FindBestTarget hands ticks to the thread   *)
(* pool, one job of LoopPlayers for each element of the array data, waits  *)
(* on threadSem for as many posts as it queued jobs, and collects what the *)
(* jobs left in data; the ticks to come first, then those that were.       *)
(*                                                                         *)
(* Aims are compared by fov alone.  What the program that uses the aimbot  *)
(* implements (tracing, BacktrackPlayers, VerifyTarget, CompareData) may   *)
(* answer anything, but CompareData only ever improves on a target.        *)
(*                                                                         *)
(* The pool is what JobPool promises: a worker takes a queued job, runs it *)
(* and is done with it.  It is not ended while RunAimbot runs.             *)
(***************************************************************************)
EXTENDS Integers, Sequences, FiniteSets

CONSTANTS
    Workers,
    Width,          \* numThreads * threadQueueMultiplier, elements of data used
    TrackCount, FutureCount,    \* ticks in the two histories
    PlayerIDs,
    MaxFov,         \* fovs of aims are 1 .. MaxFov
    MaxCalls        \* bound on the calls of RunAimbot

ASSUME AimbotAssumption ==
    /\ Workers # {} /\ IsFiniteSet(Workers)
    /\ Width \in Nat \ {0} /\ MaxFov \in Nat \ {0}
    /\ TrackCount \in Nat /\ FutureCount \in Nat /\ MaxCalls \in Nat
    /\ PlayerIDs \subseteq Nat

NoId == -1
NoTick == [future |-> FALSE, backTick |-> -1]
Idle == -1
DefaultFov == MaxFov + 1    \* AimbotTarget::fov, 420
FirstLowest == MaxFov + 2   \* 1000
NoFov == MaxFov + 3         \* 9000
DataElements == 0 .. Width - 1

Target == [id : PlayerIDs \union {NoId}, fov : 1 .. NoFov, backTick : Nat, future : BOOLEAN]
NoTarget == [id |-> NoId, fov |-> DefaultFov, backTick |-> 0, future |-> FALSE]

VARIABLES
    pc,             \* "idle", "fill", "wait" or "collect"
    inFuture,       \* which of the two loops,
    i, o, u,        \* their variables
    b,              \* the loop over the past is to end
    pushedCount,
    data,           \* data[o]: [target, tick], the tick for players
    target, lowestFov, targetPlayers,   \* of FindBestTarget; targetPlayers is a tick
    threadSem,
    queued,         \* the pool's list
    running,        \* running[w]: the element a worker works on, or Idle
    found,          \* history: the aims found in this call,
    refused,        \* history: VerifyTarget said no in this call
    calls

aimVars == <<pc, inFuture, i, o, u, b, pushedCount, data, target, lowestFov, targetPlayers,
             threadSem, queued, running, found, refused, calls>>

poolVars == <<threadSem, queued, running>>
loopVars == <<inFuture, i, b>>
bestVars == <<target, lowestFov, targetPlayers>>

AimInit ==
    /\ pc = "idle" /\ inFuture = TRUE /\ i = 0 /\ o = 0 /\ u = 0 /\ b = FALSE /\ pushedCount = 0
    /\ data = [e \in DataElements |-> [target |-> NoTarget, tick |-> NoTick]]
    /\ target = NoTarget /\ lowestFov = FirstLowest /\ targetPlayers = NoTick
    /\ threadSem = 0 /\ queued = <<>> /\ running = [w \in Workers |-> Idle]
    /\ found = {} /\ refused = FALSE /\ calls = 0

TickCount == IF inFuture THEN FutureCount ELSE TrackCount

(* A tick by its loop and its number there.                                *)
Tick(n) == [future |-> inFuture, backTick |-> n]

-----------------------------------------------------------------------------
(* RunAimbot, up to the first loop.                                        *)
RunAimbot ==
    /\ pc = "idle" /\ calls < MaxCalls
    /\ calls' = calls + 1
    /\ target' = NoTarget /\ lowestFov' = FirstLowest /\ targetPlayers' = NoTick
    /\ inFuture' = TRUE /\ i' = 0 /\ o' = 0 /\ u' = 0 /\ b' = FALSE /\ pushedCount' = 0
    /\ pc' = "fill"
    /\ found' = {} /\ refused' = FALSE
    /\ UNCHANGED <<data, poolVars>>

(* A tick is given to a job, or is out of reach: then a tick to come is    *)
(* passed over, and the ticks that were end there.                         *)
More == o < Width /\ i + o < TickCount

(* What a job starts with: the best target so far.                         *)
(* Mutant: what the element's last job left.                               *)
GivenStale(n) == [target |-> data[o].target, tick |-> Tick(n)]

Given(n) == [target |-> target, tick |-> Tick(n)]

QueueTick ==
    /\ pc = "fill" /\ More
    /\ data' = [data EXCEPT ![o] = Given(i + o)]
    /\ queued' = Append(queued, o)
    /\ pushedCount' = pushedCount + 1
    /\ o' = o + 1
    /\ UNCHANGED <<u, pc, loopVars, bestVars, threadSem, running, found, refused, calls>>

PassTick ==
    /\ pc = "fill" /\ More
    /\ data' = [data EXCEPT ![o].target.fov = NoFov]
    /\ IF inFuture
       THEN o' = o + 1 /\ UNCHANGED <<pc, b>>
       ELSE b' = TRUE /\ pc' = "wait" /\ UNCHANGED o
    /\ UNCHANGED <<u, inFuture, i, pushedCount, bestVars, poolVars, found, refused, calls>>

StartWait ==
    /\ pc = "fill" /\ ~More
    /\ pc' = "wait"
    /\ UNCHANGED <<u, loopVars, o, pushedCount, data, bestVars, poolVars, found, refused, calls>>

WaitForJob ==
    /\ pc = "wait" /\ pushedCount > 0 /\ threadSem > 0
    /\ threadSem' = threadSem - 1 /\ pushedCount' = pushedCount - 1
    /\ UNCHANGED <<u, pc, loopVars, o, data, bestVars, queued, running, found, refused, calls>>

(* Mutant of StartCollect: without waiting for the jobs.                   *)
StartCollectEarly ==
    /\ pc = "wait"
    /\ pc' = "collect" /\ u' = 0
    /\ UNCHANGED <<loopVars, o, pushedCount, data, bestVars, poolVars, found, refused, calls>>

StartCollect ==
    /\ pc = "wait" /\ pushedCount = 0
    /\ pc' = "collect" /\ u' = 0
    /\ UNCHANGED <<loopVars, o, pushedCount, data, bestVars, poolVars, found, refused, calls>>

(* The elements the loop came to, also those it passed over, whose target  *)
(* is of an earlier use.  The second loop asks VerifyTarget about the best *)
(* target so far before it keeps that one.                                 *)
Asks == ~inFuture /\ data[u].target.id # NoId /\ data[u].target.fov >= lowestFov

Better(verified) ==
    /\ data[u].target.id # NoId
    /\ (data[u].target.fov < lowestFov \/ (Asks /\ ~verified))

Collect(verified) ==
    /\ pc = "collect" /\ u < o
    /\ IF Better(verified)
       THEN /\ lowestFov' = data[u].target.fov
            /\ data' = [data EXCEPT ![u].target.backTick = i + u, ![u].target.future = inFuture]
            /\ target' = data'[u].target
            /\ targetPlayers' = Tick(i + u)
       ELSE UNCHANGED <<data, bestVars>>
    /\ refused' = (refused \/ (Asks /\ ~verified))
    /\ u' = u + 1
    /\ UNCHANGED <<pc, loopVars, o, pushedCount, poolVars, found, calls>>

(* The next round of a loop, the second loop, or the return.               *)
NextRound ==
    /\ pc = "collect" /\ u = o
    /\ o' = 0 /\ u' = 0
    /\ IF i + Width < TickCount /\ ~b
       THEN pc' = "fill" /\ i' = i + Width /\ UNCHANGED inFuture
       ELSE IF inFuture
            THEN pc' = "fill" /\ i' = 0 /\ inFuture' = FALSE
            ELSE pc' = "idle" /\ UNCHANGED <<i, inFuture>>
    /\ UNCHANGED <<b, pushedCount, data, bestVars, poolVars, found, refused, calls>>

-----------------------------------------------------------------------------
(* LoopPlayers, on a worker.                                               *)
StartJob(w) ==
    /\ running[w] = Idle /\ queued # <<>>
    /\ running' = [running EXCEPT ![w] = Head(queued)]
    /\ queued' = Tail(queued)
    /\ UNCHANGED <<u, pc, loopVars, o, pushedCount, data, bestVars, threadSem, found, refused, calls>>

(* PrepareHitboxList and ProcessAimPoints find a better aim at a player.   *)
FindAim(w, id, fov) ==
    LET e == running[w]
    IN  /\ e # Idle /\ fov < data[e].target.fov
        /\ data' = [data EXCEPT ![e].target.id = id, ![e].target.fov = fov]
        /\ found' = found \union {[tick |-> data[e].tick, id |-> id, fov |-> fov]}
        /\ UNCHANGED <<u, pc, loopVars, o, pushedCount, bestVars, poolVars, refused, calls>>

(* Mutant of FinishJob: the job does not post.                             *)
FinishJobSilent(w) ==
    /\ running[w] # Idle
    /\ running' = [running EXCEPT ![w] = Idle]
    /\ UNCHANGED <<u, pc, loopVars, o, pushedCount, data, bestVars, threadSem, queued, found, refused, calls>>

FinishJob(w) ==
    /\ running[w] # Idle
    /\ running' = [running EXCEPT ![w] = Idle]
    /\ threadSem' = threadSem + 1
    /\ UNCHANGED <<u, pc, loopVars, o, pushedCount, data, bestVars, queued, found, refused, calls>>

Finder ==
    \/ QueueTick \/ PassTick \/ StartWait \/ WaitForJob \/ StartCollect
    \/ \E verified \in BOOLEAN : Collect(verified)
    \/ NextRound

Worker(w) ==
    \/ StartJob(w)
    \/ \E id \in PlayerIDs, fov \in 1 .. MaxFov : FindAim(w, id, fov)
    \/ FinishJob(w)

AimNext == RunAimbot \/ Finder \/ \E w \in Workers : Worker(w)

(* Calls need not come; threads that can go on do.                         *)
AimFairness == WF_aimVars(Finder) /\ \A w \in Workers : WF_aimVars(Worker(w))

AimSpec == AimInit /\ [][AimNext]_aimVars /\ AimFairness

-----------------------------------------------------------------------------

AimTypeOK ==
    /\ pc \in {"idle", "fill", "wait", "collect"}
    /\ i \in 0 .. TrackCount + FutureCount /\ {o, u} \subseteq 0 .. Width /\ pushedCount \in 0 .. Width
    /\ \A e \in DataElements : data[e].target \in Target
    /\ target \in Target /\ lowestFov \in 1 .. FirstLowest
    /\ threadSem \in 0 .. Width
    /\ running \in [Workers -> DataElements \union {Idle}]

InUse == {queued[n] : n \in DOMAIN queued} \union ({running[w] : w \in Workers} \ {Idle})

(* FindBestTarget and the jobs never use an element of data at once: while *)
(* it fills elements, only those it has queued in this round are in use,   *)
(* and none when it collects, also when jobs finish in any order and posts *)
(* of several workers come together.  No post is left for the next round.  *)
ElementsApart ==
    /\ pc = "fill" => \A e \in InUse : e < o
    /\ pc \in {"collect", "idle"} => InUse = {} /\ threadSem = 0
    /\ \A w, v \in Workers : w # v /\ running[w] # Idle => running[w] # running[v]

(* What RunAimbot returns was found by a job of this call, never left in   *)
(* data by an earlier round or call; unless VerifyTarget refused a target, *)
(* it was found in the tick it is returned with and no job of the call     *)
(* found a better aim, in whatever order the workers ran.  VerifyTarget is *)
(* never asked about players that do not exist yet.                        *)
TargetIsBest ==
    /\ target.id # NoId =>
          \E aim \in found :
              /\ aim.id = target.id /\ aim.fov = target.fov
              /\ ~refused => aim.tick = [future |-> target.future, backTick |-> target.backTick]
    /\ pc = "collect" /\ u < o /\ Asks => targetPlayers # NoTick /\ target.id # NoId
    /\ pc = "idle" /\ ~refused => \A aim \in found : target.fov <= aim.fov

(* RunAimbot returns: every job it waits for posts, and no other takes the *)
(* post.                                                                   *)
RunAimbotReturns == (pc = "fill") ~> (pc = "idle")
=============================================================================
