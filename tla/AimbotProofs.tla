---------------------------- MODULE AimbotProofs ----------------------------
(***************************************************************************)
(* FindBestTarget and its jobs share the array data without a lock.  That  *)
(* they never meet in an element, that no post is left over, and that the  *)
(* best aim is returned, for every number of workers, elements, ticks and  *)
(* players, and whatever VerifyTarget answers.                             *)
(***************************************************************************)
EXTENDS Aimbot, SequenceTheorems, FiniteSetTheorems, TLAPS

Ticks == [future : BOOLEAN, backTick : Int]

Aims == [tick : Ticks, id : PlayerIDs, fov : 1 .. MaxFov]

AimTypes ==
    /\ pc \in {"idle", "fill", "wait", "collect"}
    /\ inFuture \in BOOLEAN /\ b \in BOOLEAN /\ refused \in BOOLEAN
    /\ i \in 0 .. TrackCount + FutureCount /\ o \in 0 .. Width /\ u \in 0 .. Width
    /\ pushedCount \in Nat /\ threadSem \in Nat /\ calls \in Nat
    /\ data \in [DataElements -> [target : Target, tick : Ticks]]
    /\ target \in Target /\ lowestFov \in 1 .. NoFov /\ targetPlayers \in Ticks
    /\ queued \in Seq(DataElements)
    /\ running \in [Workers -> DataElements \union {Idle}]
    /\ found \subseteq Aims

-----------------------------------------------------------------------------
(* Elements and posts.                                                     *)

Busy == {w \in Workers : running[w] # Idle}

(* An element is on the pool's list once or with one worker, and was       *)
(* queued in this round.                                                   *)
JobsApart ==
    /\ \A m, n \in DOMAIN queued : queued[m] = queued[n] => m = n
    /\ \A w \in Workers, n \in DOMAIN queued : running[w] # queued[n]
    /\ \A w, v \in Workers : w # v /\ running[w] # Idle => running[w] # running[v]
    /\ \A w \in Workers : running[w] < o
    /\ \A n \in DOMAIN queued : queued[n] < o

(* FindBestTarget waits for each job that has not posted and each post it  *)
(* did not take.                                                           *)
PostsCounted ==
    /\ pushedCount = threadSem + Len(queued) + Cardinality(Busy)
    /\ pushedCount <= o
    /\ pc \in {"collect", "idle"} => pushedCount = 0
    /\ pc = "idle" => o = 0

QInv == AimTypes /\ JobsApart /\ PostsCounted

(* What AimbotAssumption says of numbers.                                  *)
LEMMA AimFacts ==
    /\ Width \in Nat /\ MaxFov \in Nat /\ MaxFov >= 1
    /\ TrackCount \in Nat /\ FutureCount \in Nat
    /\ \A e \in DataElements : e \in Nat /\ e < Width /\ e # Idle
    /\ \A n \in 0 .. Width : n < Width => n \in DataElements
    /\ Idle \notin DataElements /\ Idle = -1
    /\ NoId \notin PlayerIDs /\ NoId = -1
    /\ NoFov = MaxFov + 3 /\ FirstLowest = MaxFov + 2 /\ DefaultFov = MaxFov + 1
  BY AimbotAssumption DEF AimbotAssumption, DataElements, Idle, NoId, NoFov, FirstLowest, DefaultFov

(* Workers that run a job are counted.                                     *)
LEMMA BusyCount ==
    ASSUME NEW S \in SUBSET Workers
    PROVE  /\ IsFiniteSet(S) /\ Cardinality(S) \in Nat
           /\ Cardinality(S) = 0 <=> S = {}
           /\ \A w \in Workers \ S : Cardinality(S \union {w}) = Cardinality(S) + 1
           /\ \A w \in S : Cardinality(S \ {w}) = Cardinality(S) - 1
  <1>1. IsFiniteSet(S) /\ Cardinality(S) \in Nat
    BY AimbotAssumption, FS_Subset, FS_CardinalityType DEF AimbotAssumption
  <1>2. Cardinality(S) = 0 <=> S = {}
    BY <1>1, FS_EmptySet
  <1>3. \A w \in Workers \ S : Cardinality(S \union {w}) = Cardinality(S) + 1
    BY <1>1, FS_AddElement
  <1>4. \A w \in S : Cardinality(S \ {w}) = Cardinality(S) - 1
    BY <1>1, FS_RemoveElement
  <1> QED
    BY <1>1, <1>2, <1>3, <1>4

(* A target with another fov, *)
LEMMA FovField ==
    ASSUME NEW t \in Target, NEW f \in 1 .. NoFov
    PROVE  /\ [t EXCEPT !.fov = f] \in Target
           /\ [t EXCEPT !.fov = f].id = t.id /\ [t EXCEPT !.fov = f].fov = f
  BY DEF Target

(* of another player, *)
Aimed(t, id, f) == [t EXCEPT !.id = id, !.fov = f]

(* A target made of another and an aim. *)
LEMMA AimField ==
    ASSUME NEW t \in Target, NEW id \in PlayerIDs, NEW f \in 1 .. NoFov
    PROVE  /\ Aimed(t, id, f) \in Target
           /\ Aimed(t, id, f).id = id
           /\ Aimed(t, id, f).fov = f
  BY DEF Target, Aimed

(* or of another tick. *)
Ticked(t, n, x) == [t EXCEPT !.backTick = n, !.future = x]

(* A target with the tick it is in. *)
LEMMA TickField ==
    ASSUME NEW t \in Target, NEW n \in Nat, NEW x \in BOOLEAN
    PROVE  /\ Ticked(t, n, x) \in Target
           /\ Ticked(t, n, x).id = t.id
           /\ Ticked(t, n, x).fov = t.fov
           /\ Ticked(t, n, x).backTick = n
           /\ Ticked(t, n, x).future = x
  BY DEF Target, Ticked

(* What the steps make of data: a job is given,                            *)
LEMMA QueueData ==
    ASSUME AimTypes, QueueTick
    PROVE  /\ o \in DataElements
           /\ data'[o] = [target |-> target, tick |-> Tick(i + o)]
           /\ \A e \in DataElements \ {o} : data'[e] = data[e]
           /\ data' \in [DataElements -> [target : Target, tick : Ticks]]
  <1>1. o \in DataElements
    BY AimFacts DEF AimTypes, QueueTick, More
  <1>2. Tick(i + o) \in Ticks
    BY AimFacts DEF AimTypes, Tick, Ticks
  <1>3. data' = [data EXCEPT ![o] = [target |-> target, tick |-> Tick(i + o)]]
    BY DEF QueueTick, Given
  <1> QED
    BY <1>1, <1>2, <1>3 DEF AimTypes

(* a tick is passed over,                                                  *)
LEMMA PassData ==
    ASSUME AimTypes, PassTick
    PROVE  /\ o \in DataElements
           /\ data'[o].target.fov = NoFov
           /\ \A e \in DataElements \ {o} : data'[e] = data[e]
           /\ data' \in [DataElements -> [target : Target, tick : Ticks]]
  <1>1. o \in DataElements
    BY AimFacts DEF AimTypes, PassTick, More
  <1>2. NoFov \in 1 .. NoFov
    BY AimFacts
  <1>3. /\ data[o] \in [target : Target, tick : Ticks]
        /\ data[o].target \in Target
    BY <1>1 DEF AimTypes
  <1> DEFINE t == [data[o].target EXCEPT !.fov = NoFov]
  <1>4. t \in Target /\ t.fov = NoFov
    BY <1>2, <1>3, FovField
  <1>5. data' = [data EXCEPT ![o] = [data[o] EXCEPT !.target = t]]
    BY DEF PassTick
  <1> HIDE DEF t
  <1>6. /\ [data[o] EXCEPT !.target = t] \in [target : Target, tick : Ticks]
        /\ [data[o] EXCEPT !.target = t].target = t
    BY <1>3, <1>4
  <1> QED
    BY <1>1, <1>4, <1>5, <1>6 DEF AimTypes

(* a job finds an aim.                                                     *)
LEMMA FindData ==
    ASSUME AimTypes, NEW w \in Workers, NEW id \in PlayerIDs, NEW fov \in 1 .. MaxFov,
           FindAim(w, id, fov)
    PROVE  LET e == running[w] IN
           /\ e \in DataElements
           /\ data'[e].target.id = id /\ data'[e].target.fov = fov
           /\ data'[e].tick = data[e].tick
           /\ \A d \in DataElements \ {e} : data'[d] = data[d]
           /\ data' \in [DataElements -> [target : Target, tick : Ticks]]
           /\ [tick |-> data[e].tick, id |-> id, fov |-> fov] \in Aims
  <1> DEFINE e == running[w]
  <1>1. e \in DataElements
    BY DEF AimTypes, FindAim
  <1>2. fov \in 1 .. NoFov
    BY AimFacts
  <1>3. /\ data[e] \in [target : Target, tick : Ticks]
        /\ data[e].target \in Target /\ data[e].tick \in Ticks
    BY <1>1 DEF AimTypes
  <1> DEFINE t == Aimed(data[e].target, id, fov)
  <1>4. t \in Target /\ t.id = id /\ t.fov = fov
    BY <1>2, <1>3, AimField
  <1>5. data' = [data EXCEPT ![e] = [data[e] EXCEPT !.target = t]]
    <2>1. data' = [data EXCEPT ![e].target.id = id, ![e].target.fov = fov]
      BY DEF FindAim
    <2>2. data \in [DataElements -> [target : Target, tick : Ticks]]
      BY DEF AimTypes
    <2> QED
      BY <1>1, <1>3, <2>1, <2>2 DEF Aimed
  <1>6. /\ [data[e] EXCEPT !.target = t] \in [target : Target, tick : Ticks]
        /\ [data[e] EXCEPT !.target = t].target = t
        /\ [data[e] EXCEPT !.target = t].tick = data[e].tick
    BY <1>3, <1>4
  <1>7. [tick |-> data[e].tick, id |-> id, fov |-> fov] \in Aims
    BY <1>3 DEF Aims
  <1> HIDE DEF t, e
  <1>8. /\ data'[e] = [data[e] EXCEPT !.target = t]
        /\ \A d \in DataElements \ {e} : data'[d] = data[d]
        /\ data' \in [DataElements -> [target : Target, tick : Ticks]]
    BY <1>1, <1>5, <1>6 DEF AimTypes
  <1> QED
    BY <1>1, <1>4, <1>6, <1>7, <1>8 DEF e

(* A better target is taken from its element, and its tick is noted there. *)
LEMMA CollectData ==
    ASSUME AimTypes, NEW verified \in BOOLEAN, Collect(verified), Better(verified)
    PROVE  /\ u \in DataElements
           /\ data'[u].target = target'
           /\ target'.id = data[u].target.id /\ target'.fov = data[u].target.fov
           /\ target'.backTick = i + u /\ target'.future = inFuture
           /\ lowestFov' = data[u].target.fov
           /\ target' \in Target
           /\ targetPlayers' = Tick(i + u) /\ Tick(i + u) \in Ticks /\ Tick(i + u) # NoTick
           /\ \A d \in DataElements \ {u} : data'[d] = data[d]
           /\ data' \in [DataElements -> [target : Target, tick : Ticks]]
  <1>1. u \in DataElements /\ i \in Nat /\ u \in Nat /\ inFuture \in BOOLEAN
    <2>1. u \in 0 .. Width /\ o \in 0 .. Width /\ u < o
      BY DEF AimTypes, Collect
    <2>2. u < Width /\ u \in 0 .. Width
      BY <2>1, AimFacts
    <2> QED
      BY <2>2, AimFacts DEF AimTypes
  <1>2. /\ data[u] \in [target : Target, tick : Ticks]
        /\ data[u].target \in Target
    BY <1>1 DEF AimTypes
  <1> DEFINE t == Ticked(data[u].target, i + u, inFuture)
  <1>3. /\ t \in Target /\ t.id = data[u].target.id /\ t.fov = data[u].target.fov
        /\ t.backTick = i + u /\ t.future = inFuture
    <2>1. i + u \in Nat
      BY <1>1
    <2> QED
      BY <1>1, <1>2, <2>1, TickField
  <1>4. /\ data' = [data EXCEPT ![u].target.backTick = i + u, ![u].target.future = inFuture]
        /\ target' = data'[u].target
        /\ lowestFov' = data[u].target.fov
        /\ targetPlayers' = Tick(i + u)
    BY DEF Collect
  <1>5. data' = [data EXCEPT ![u] = [data[u] EXCEPT !.target = t]]
    <2>1. data \in [DataElements -> [target : Target, tick : Ticks]]
      BY DEF AimTypes
    <2> QED
      BY <1>1, <1>2, <1>4, <2>1 DEF Ticked
  <1> HIDE DEF t
  <1>6. /\ [data[u] EXCEPT !.target = t] \in [target : Target, tick : Ticks]
        /\ [data[u] EXCEPT !.target = t].target = t
    BY <1>2, <1>3
  <1>7. /\ data'[u].target = t
        /\ \A d \in DataElements \ {u} : data'[d] = data[d]
        /\ data' \in [DataElements -> [target : Target, tick : Ticks]]
    BY <1>1, <1>5, <1>6 DEF AimTypes
  <1>8. Tick(i + u) \in Ticks /\ Tick(i + u) # NoTick
    BY <1>1 DEF Tick, Ticks, NoTick
  <1> QED
    BY <1>1, <1>3, <1>4, <1>7, <1>8
(* When nothing is waited for, no element is in use and no post is left.   *)
LEMMA NoneOut ==
    ASSUME QInv, pushedCount = 0
    PROVE  threadSem = 0 /\ queued = <<>> /\ Busy = {} /\ \A w \in Workers : running[w] = Idle
  <1>1. Busy \in SUBSET Workers
    BY DEF Busy
  <1>2. Cardinality(Busy) \in Nat /\ (Cardinality(Busy) = 0 <=> Busy = {})
    BY <1>1, BusyCount
  <1>3. queued \in Seq(DataElements) /\ Len(queued) \in Nat /\ threadSem \in Nat
    BY LenProperties DEF QInv, AimTypes
  <1>4. threadSem = 0 /\ Len(queued) = 0 /\ Cardinality(Busy) = 0
    BY <1>2, <1>3 DEF QInv, PostsCounted
  <1>5. queued = <<>>
    BY <1>3, <1>4, EmptySeq
  <1> QED
    BY <1>2, <1>4, <1>5 DEF Busy

(* Steps that leave the pool's jobs alone.                                 *)
LEMMA JobsKept ==
    ASSUME QInv, UNCHANGED <<queued, running>>, o' \in Nat, o <= o'
    PROVE  JobsApart' /\ Cardinality(Busy') = Cardinality(Busy) /\ Len(queued') = Len(queued)
  <1>1. Busy' = Busy
    BY DEF Busy
  <1>2. /\ \A w \in Workers : running[w] \in Int
        /\ \A n \in DOMAIN queued : queued[n] \in Int
        /\ o \in Int
    BY AimFacts, ElementOfSeq DEF QInv, AimTypes
  <1> QED
    BY <1>1, <1>2 DEF QInv, JobsApart

(* A number of elements and posts.                                         *)
LEMMA QNumbers ==
    ASSUME QInv
    PROVE  /\ pushedCount \in Nat /\ threadSem \in Nat /\ Len(queued) \in Nat
           /\ Cardinality(Busy) \in Nat /\ o \in Nat /\ u \in Nat /\ o <= Width /\ u <= Width
           /\ pushedCount = threadSem + Len(queued) + Cardinality(Busy)
           /\ pushedCount <= o
  <1>1. Busy \in SUBSET Workers
    BY DEF Busy
  <1> QED
    BY <1>1, BusyCount, LenProperties, AimFacts DEF QInv, AimTypes, PostsCounted

(* The invariant at first, *)
LEMMA QInit == AimInit => QInv
  <1> SUFFICES ASSUME AimInit PROVE QInv
    OBVIOUS
  <1>1. NoTarget \in Target /\ NoTick \in Ticks
    BY AimFacts DEF NoTarget, NoTick, Ticks, Target
  <1>2. AimTypes
    <2>1. /\ i \in 0 .. TrackCount + FutureCount /\ o \in 0 .. Width /\ u \in 0 .. Width
          /\ pushedCount \in Nat /\ lowestFov \in 1 .. NoFov
      BY AimFacts DEF AimInit
    <2>2. queued \in Seq(DataElements) /\ running \in [Workers -> DataElements \union {Idle}]
      BY DEF AimInit
    <2>3. data \in [DataElements -> [target : Target, tick : Ticks]]
      BY <1>1 DEF AimInit
    <2> QED
      BY <1>1, <2>1, <2>2, <2>3 DEF AimInit, AimTypes
  <1>3. Busy = {} /\ queued = <<>> /\ Len(queued) = 0 /\ DOMAIN queued = {}
    BY EmptySeq DEF AimInit, Busy
  <1>4. Cardinality(Busy) = 0
    BY <1>3, FS_EmptySet
  <1>5. JobsApart
    BY <1>3, AimFacts DEF AimInit, JobsApart
  <1> QED
    BY <1>2, <1>3, <1>4, <1>5 DEF QInv, PostsCounted, AimInit

(* when RunAimbot is called, *)
LEMMA QRun == QInv /\ RunAimbot => QInv'
  <1> SUFFICES ASSUME QInv, RunAimbot PROVE QInv'
    OBVIOUS
  <1>1. NoTarget \in Target /\ NoTick \in Ticks
    BY AimFacts DEF NoTarget, NoTick, Ticks, Target
  <1>2. AimTypes'
    <2>1. /\ pc' = "fill" /\ inFuture' = TRUE /\ b' = FALSE /\ refused' = FALSE
          /\ i' = 0 /\ o' = 0 /\ u' = 0 /\ pushedCount' = 0 /\ calls' = calls + 1
          /\ target' = NoTarget /\ lowestFov' = FirstLowest /\ targetPlayers' = NoTick
          /\ found' = {} /\ UNCHANGED <<data, threadSem, queued, running>>
      BY DEF RunAimbot, poolVars
    <2>2. /\ i' \in 0 .. TrackCount + FutureCount /\ o' \in 0 .. Width /\ u' \in 0 .. Width
          /\ pushedCount' \in Nat /\ lowestFov' \in 1 .. NoFov
      BY <2>1, AimFacts
    <2>3. calls' \in Nat
      BY <2>1 DEF QInv, AimTypes
    <2> QED
      BY <1>1, <2>1, <2>2, <2>3 DEF QInv, AimTypes
  <1>3. pushedCount = 0 /\ o = 0
    BY DEF QInv, PostsCounted, RunAimbot
  <1>4. /\ JobsApart' /\ Cardinality(Busy') = Cardinality(Busy)
        /\ Len(queued') = Len(queued)
    BY <1>3, JobsKept DEF RunAimbot, poolVars
  <1>5. PostsCounted'
    BY <1>3, <1>4, QNumbers DEF PostsCounted, RunAimbot, poolVars
  <1> QED
    BY <1>2, <1>4, <1>5 DEF QInv

(* when a job is queued, *)
LEMMA QQueue == QInv /\ QueueTick => QInv'
  <1> SUFFICES ASSUME QInv, QueueTick PROVE QInv'
    OBVIOUS
  <1>1. /\ o \in DataElements /\ o < Width /\ o \in Nat /\ o' = o + 1
        /\ data' \in [DataElements -> [target : Target, tick : Ticks]]
    BY QueueData, QNumbers DEF QInv, QueueTick, More
  <1>2. /\ queued \in Seq(DataElements) /\ queued' = Append(queued, o)
        /\ queued' \in Seq(DataElements)
        /\ Len(queued') = Len(queued) + 1
        /\ \A n \in 1 .. Len(queued) : queued'[n] = queued[n]
        /\ queued'[Len(queued) + 1] = o
        /\ DOMAIN queued = 1 .. Len(queued) /\ DOMAIN queued' = 1 .. Len(queued) + 1
    BY <1>1, AppendProperties, LenProperties DEF QInv, AimTypes, QueueTick
  <1>3. AimTypes'
    <2>1. UNCHANGED <<u, pc, inFuture, i, b, target, lowestFov, targetPlayers,
                      threadSem, running, found, refused, calls>>
      BY DEF QueueTick, loopVars, bestVars
    <2>2. o' \in 0 .. Width /\ pushedCount' \in Nat
      BY <1>1, QNumbers, AimFacts DEF QueueTick
    <2> QED
      BY <1>1, <1>2, <2>1, <2>2 DEF QInv, AimTypes
  <1>4. /\ \A w \in Workers : running[w] \in Int /\ running[w] < o
        /\ \A n \in 1 .. Len(queued) : queued[n] \in Int /\ queued[n] < o
        /\ Len(queued) \in Nat /\ running' = running
    <2>1. \A n \in 1 .. Len(queued) : queued[n] \in DataElements
      BY <1>2, ElementOfSeq
    <2>2. Len(queued) \in Nat /\ running' = running
      BY QNumbers DEF QueueTick
    <2>3. running \in [Workers -> DataElements \union {Idle}]
      BY DEF QInv, AimTypes
    <2>4. \A w \in Workers : running[w] \in Int
      BY <2>3, AimFacts
    <2>5. \A n \in 1 .. Len(queued) : queued[n] \in Int
      BY <2>1, AimFacts
    <2>6. \A w \in Workers : running[w] < o
      BY DEF QInv, JobsApart
    <2>7. \A n \in 1 .. Len(queued) : queued[n] < o
      BY <1>2 DEF QInv, JobsApart
    <2> QED
      BY <2>2, <2>4, <2>5, <2>6, <2>7
  <1>5. JobsApart'
    <2> DEFINE l == Len(queued)
    <2>1. /\ \A m, n \in 1 .. l : queued[m] = queued[n] => m = n
          /\ \A w \in Workers, n \in 1 .. l : running[w] # queued[n]
          /\ \A w, v \in Workers : w # v /\ running[w] # Idle => running[w] # running[v]
      BY <1>2 DEF QInv, JobsApart
    <2>2. /\ \A n \in 1 .. l + 1 : n \in 1 .. l \/ n = l + 1
          /\ \A n \in 1 .. l : queued'[n] = queued[n] /\ queued[n] \in Int /\ queued[n] < o
          /\ queued'[l + 1] = o
          /\ DOMAIN queued' = 1 .. l + 1
      BY <1>2, <1>4
    <2> HIDE DEF l
    <2>3. \A m, n \in 1 .. l + 1 : queued'[m] = queued'[n] => m = n
      BY <1>1, <2>1, <2>2
    <2>4. \A w \in Workers, n \in 1 .. l + 1 : running'[w] # queued'[n]
      BY <1>1, <1>4, <2>1, <2>2
    <2>5. /\ \A w \in Workers : running'[w] < o'
          /\ \A n \in 1 .. l + 1 : queued'[n] < o'
      BY <1>1, <1>4, <2>2
    <2> QED
      BY <1>4, <2>1, <2>2, <2>3, <2>4, <2>5 DEF JobsApart
  <1>6. Busy' = Busy
    BY <1>4 DEF Busy
  <1>7. PostsCounted'
    BY <1>1, <1>2, <1>6, QNumbers DEF QInv, PostsCounted, QueueTick
  <1> QED
    BY <1>3, <1>5, <1>7 DEF QInv

(* when a tick is passed over, *)
LEMMA QPass == QInv /\ PassTick => QInv'
  <1> SUFFICES ASSUME QInv, PassTick PROVE QInv'
    OBVIOUS
  <1>1. /\ o \in DataElements /\ o < Width /\ o \in Nat /\ o' \in {o, o + 1} /\ pc' \in {"fill", "wait"}
        /\ b' \in BOOLEAN
        /\ data' \in [DataElements -> [target : Target, tick : Ticks]]
    BY PassData, QNumbers DEF QInv, AimTypes, PassTick, More
  <1>2. AimTypes'
    <2>1. UNCHANGED <<u, inFuture, i, pushedCount, target, lowestFov, targetPlayers,
                      threadSem, queued, running, found, refused, calls>>
      BY DEF PassTick, poolVars, bestVars
    <2>2. o' \in 0 .. Width
      BY <1>1, QNumbers, AimFacts
    <2> QED
      BY <1>1, <2>1, <2>2 DEF QInv, AimTypes
  <1>3. /\ JobsApart' /\ Cardinality(Busy') = Cardinality(Busy)
        /\ Len(queued') = Len(queued)
    BY <1>1, JobsKept DEF PassTick, poolVars
  <1>4. PostsCounted'
    BY <1>1, <1>3, QNumbers DEF PostsCounted, PassTick, poolVars
  <1> QED
    BY <1>2, <1>3, <1>4 DEF QInv

(* when FindBestTarget waits, *)
LEMMA QWait == QInv /\ (StartWait \/ WaitForJob) => QInv'
  <1>1. ASSUME QInv, StartWait PROVE QInv'
    <2>1. AimTypes'
      BY <1>1 DEF QInv, AimTypes, StartWait, poolVars, bestVars, loopVars
    <2>2. /\ JobsApart' /\ Cardinality(Busy') = Cardinality(Busy)
          /\ Len(queued') = Len(queued)
      BY <1>1, JobsKept, QNumbers DEF StartWait, poolVars
    <2>3. PostsCounted'
      BY <1>1, <2>2, QNumbers DEF PostsCounted, StartWait, poolVars
    <2> QED
      BY <2>1, <2>2, <2>3 DEF QInv
  <1>2. ASSUME QInv, WaitForJob PROVE QInv'
    <2>1. /\ pushedCount' = pushedCount - 1 /\ pushedCount' \in Nat
          /\ threadSem' = threadSem - 1 /\ threadSem' \in Nat
          /\ o' = o /\ pc' = "wait"
      BY <1>2, QNumbers DEF WaitForJob
    <2>2. AimTypes'
      BY <1>2, <2>1 DEF QInv, AimTypes, WaitForJob, bestVars, loopVars
    <2>3. /\ JobsApart' /\ Cardinality(Busy') = Cardinality(Busy)
          /\ Len(queued') = Len(queued)
      BY <1>2, <2>1, JobsKept, QNumbers DEF WaitForJob
    <2>4. PostsCounted'
      BY <1>2, <2>1, <2>3, QNumbers DEF PostsCounted
    <2> QED
      BY <2>2, <2>3, <2>4 DEF QInv
  <1> QED
    BY <1>1, <1>2

(* when it collects, *)
LEMMA QCollect == QInv /\ (StartCollect \/ \E verified \in BOOLEAN : Collect(verified)) => QInv'
  <1>1. ASSUME QInv, StartCollect PROVE QInv'
    <2>1. /\ pc' = "collect" /\ u' = 0 /\ pushedCount = 0
          /\ UNCHANGED <<inFuture, i, b, o, pushedCount, data, target, lowestFov, targetPlayers,
                         threadSem, queued, running, found, refused, calls>>
      BY <1>1 DEF StartCollect, poolVars, bestVars, loopVars
    <2>2. AimTypes'
      BY <1>1, <2>1, AimFacts DEF QInv, AimTypes
    <2>3. /\ JobsApart' /\ Cardinality(Busy') = Cardinality(Busy)
          /\ Len(queued') = Len(queued)
      BY <1>1, <2>1, JobsKept, QNumbers
    <2>4. PostsCounted'
      BY <1>1, <2>1, <2>3, QNumbers DEF PostsCounted
    <2> QED
      BY <2>2, <2>3, <2>4 DEF QInv
  <1>2. ASSUME QInv, NEW verified \in BOOLEAN, Collect(verified) PROVE QInv'
    <2>1. /\ pc = "collect" /\ u < o /\ u' = u + 1 /\ refused' \in BOOLEAN
          /\ UNCHANGED <<pc, inFuture, i, b, o, pushedCount, threadSem, queued, running, found, calls>>
      BY <1>2 DEF Collect, poolVars, loopVars, QInv, AimTypes
    <2>2. u' \in 0 .. Width
      BY <1>2, <2>1, QNumbers, AimFacts
    <2>3. /\ data' \in [DataElements -> [target : Target, tick : Ticks]]
          /\ target' \in Target /\ lowestFov' \in 1 .. NoFov /\ targetPlayers' \in Ticks
      <3>1. CASE Better(verified)
        <4>1. /\ u \in DataElements /\ lowestFov' = data[u].target.fov
              /\ target' \in Target /\ targetPlayers' \in Ticks
              /\ data' \in [DataElements -> [target : Target, tick : Ticks]]
          BY <1>2, <3>1, CollectData DEF QInv
        <4>2. data[u].target.fov \in 1 .. NoFov
          BY <1>2, <4>1 DEF QInv, AimTypes, Target
        <4> QED
          BY <4>1, <4>2
      <3>2. CASE ~Better(verified)
        BY <1>2, <3>2 DEF Collect, bestVars, QInv, AimTypes
      <3> QED
        BY <3>1, <3>2
    <2>4. AimTypes'
      BY <1>2, <2>1, <2>2, <2>3 DEF QInv, AimTypes
    <2>5. /\ JobsApart' /\ Cardinality(Busy') = Cardinality(Busy)
          /\ Len(queued') = Len(queued)
      BY <1>2, <2>1, JobsKept, QNumbers
    <2>6. PostsCounted'
      BY <1>2, <2>1, <2>5, QNumbers DEF PostsCounted, QInv
    <2> QED
      BY <2>4, <2>5, <2>6 DEF QInv
  <1> QED
    BY <1>1, <1>2

(* when it goes on, *)
LEMMA QNextRound == QInv /\ NextRound => QInv'
  <1> SUFFICES ASSUME QInv, NextRound PROVE QInv'
    OBVIOUS
  <1>1. /\ pc = "collect" /\ pc' \in {"fill", "idle"} /\ o' = 0 /\ u' = 0 /\ inFuture' \in BOOLEAN
        /\ UNCHANGED <<b, pushedCount, data, target, lowestFov, targetPlayers,
                       threadSem, queued, running, found, refused, calls>>
    BY DEF NextRound, poolVars, bestVars, QInv, AimTypes
  <1>2. i' \in 0 .. TrackCount + FutureCount
    <2>1. i \in 0 .. TrackCount + FutureCount
      BY DEF QInv, AimTypes
    <2>2. i' \in {i, 0} \/ (i' = i + Width /\ i + Width < TickCount)
      BY DEF NextRound
    <2>3. TickCount <= TrackCount + FutureCount /\ TickCount \in Nat
      BY AimFacts DEF TickCount
    <2> QED
      BY <2>1, <2>2, <2>3, AimFacts
  <1>3. AimTypes'
    BY <1>1, <1>2, AimFacts DEF QInv, AimTypes
  <1>4. pushedCount = 0
    BY <1>1 DEF QInv, PostsCounted
  <1>5. threadSem = 0 /\ queued = <<>> /\ Busy = {} /\ \A w \in Workers : running[w] = Idle
    BY <1>4, NoneOut
  <1>6. DOMAIN queued = {} /\ Len(queued) = 0
    BY <1>5
  <1>7. JobsApart'
    BY <1>1, <1>5, <1>6, AimFacts DEF JobsApart
  <1>8. PostsCounted'
    <2>1. Busy' = {}
      BY <1>1, <1>5 DEF Busy
    <2> QED
      BY <1>1, <1>4, <1>5, <1>6, <2>1, FS_EmptySet DEF PostsCounted
  <1> QED
    BY <1>3, <1>7, <1>8 DEF QInv

(* when a worker takes a job, *)
LEMMA QStart == ASSUME NEW w \in Workers PROVE QInv /\ StartJob(w) => QInv'
  <1> SUFFICES ASSUME QInv, StartJob(w) PROVE QInv'
    OBVIOUS
  <1>1. /\ running[w] = Idle /\ queued # <<>> /\ queued' = Tail(queued)
        /\ running' = [running EXCEPT ![w] = Head(queued)]
        /\ UNCHANGED <<pc, inFuture, i, b, o, u, pushedCount, data, target, lowestFov, targetPlayers,
                       threadSem, found, refused, calls>>
    BY DEF StartJob, bestVars, loopVars
  <1>2. /\ queued \in Seq(DataElements) /\ Len(queued) \in Nat /\ Len(queued) >= 1
        /\ Head(queued) = queued[1] /\ Head(queued) \in DataElements
        /\ queued' \in Seq(DataElements) /\ Len(queued') = Len(queued) - 1
        /\ \A n \in 1 .. Len(queued) - 1 : queued'[n] = queued[n + 1]
        /\ DOMAIN queued = 1 .. Len(queued) /\ DOMAIN queued' = 1 .. Len(queued) - 1
    BY <1>1, HeadTailProperties, LenProperties, EmptySeq DEF QInv, AimTypes
  <1>3. /\ running' \in [Workers -> DataElements \union {Idle}]
        /\ running'[w] = queued[1] /\ queued[1] # Idle
        /\ \A v \in Workers \ {w} : running'[v] = running[v]
    BY <1>1, <1>2, AimFacts DEF QInv, AimTypes
  <1>4. AimTypes'
    BY <1>1, <1>2, <1>3 DEF QInv, AimTypes
  <1>5. JobsApart'
    <2> DEFINE l == Len(queued)
    <2>1. /\ \A m, n \in 1 .. l : queued[m] = queued[n] => m = n
          /\ \A v \in Workers, n \in 1 .. l : running[v] # queued[n]
          /\ \A v, x \in Workers : v # x /\ running[v] # Idle => running[v] # running[x]
          /\ \A v \in Workers : running[v] < o
          /\ \A n \in 1 .. l : queued[n] < o
      BY <1>2 DEF QInv, JobsApart
    <2>2. /\ l \in Nat /\ l >= 1 /\ 1 \in 1 .. l
          /\ \A n \in 1 .. l - 1 : queued'[n] = queued[n + 1] /\ n + 1 \in 1 .. l /\ n + 1 # 1
          /\ \A m, n \in 1 .. l - 1 : m + 1 = n + 1 => m = n
          /\ DOMAIN queued' = 1 .. l - 1 /\ o' = o
      BY <1>1, <1>2
    <2> HIDE DEF l
    <2>3. \A m, n \in 1 .. l - 1 : queued'[m] = queued'[n] => m = n
      BY <2>1, <2>2
    <2>4. \A v \in Workers, n \in 1 .. l - 1 : running'[v] # queued'[n]
      BY <1>3, <2>1, <2>2
    <2>5. \A v, x \in Workers : v # x /\ running'[v] # Idle => running'[v] # running'[x]
      <3> SUFFICES ASSUME NEW v \in Workers, NEW x \in Workers, v # x, running'[v] # Idle
                   PROVE  running'[v] # running'[x]
        OBVIOUS
      <3>1. CASE v = w
        BY <1>3, <2>1, <2>2, <3>1
      <3>2. CASE x = w
        BY <1>3, <2>1, <2>2, <3>2
      <3>3. CASE v # w /\ x # w
        BY <1>3, <2>1, <3>3
      <3> QED
        BY <3>1, <3>2, <3>3
    <2>6. \A v \in Workers : running'[v] < o'
      BY <1>3, <2>1, <2>2
    <2>7. \A n \in 1 .. l - 1 : queued'[n] < o'
      BY <2>1, <2>2
    <2> QED
      BY <2>2, <2>3, <2>4, <2>5, <2>6, <2>7 DEF JobsApart
  <1>6. Cardinality(Busy') = Cardinality(Busy) + 1
    <2>1. Busy' = Busy \union {w} /\ w \in Workers \ Busy /\ Busy \in SUBSET Workers
      BY <1>1, <1>3 DEF Busy
    <2> QED
      BY <2>1, BusyCount
  <1>7. PostsCounted'
    BY <1>1, <1>2, <1>6, QNumbers DEF QInv, PostsCounted
  <1> QED
    BY <1>4, <1>5, <1>7 DEF QInv

(* is done with it, *)
LEMMA QFinish == ASSUME NEW w \in Workers PROVE QInv /\ FinishJob(w) => QInv'
  <1> SUFFICES ASSUME QInv, FinishJob(w) PROVE QInv'
    OBVIOUS
  <1>1. /\ running[w] # Idle /\ running' = [running EXCEPT ![w] = Idle] /\ threadSem' = threadSem + 1
        /\ UNCHANGED <<pc, inFuture, i, b, o, u, pushedCount, data, target, lowestFov, targetPlayers,
                       queued, found, refused, calls>>
    BY DEF FinishJob, bestVars, loopVars
  <1>2. /\ running' \in [Workers -> DataElements \union {Idle}]
        /\ running'[w] = Idle
        /\ \A v \in Workers \ {w} : running'[v] = running[v]
    BY <1>1 DEF QInv, AimTypes
  <1>3. AimTypes'
    BY <1>1, <1>2 DEF QInv, AimTypes
  <1>4. JobsApart'
    <2>1. \A n \in DOMAIN queued : queued[n] # Idle
      BY AimFacts, ElementOfSeq, LenProperties DEF QInv, AimTypes
    <2>2. Idle < o
      BY QNumbers, AimFacts
    <2> QED
      BY <1>1, <1>2, <2>1, <2>2 DEF QInv, JobsApart
  <1>5. Cardinality(Busy') = Cardinality(Busy) - 1
    <2>1. Busy' = Busy \ {w} /\ w \in Busy /\ Busy \in SUBSET Workers
      BY <1>1, <1>2 DEF Busy
    <2> QED
      BY <2>1, BusyCount
  <1>6. PostsCounted'
    BY <1>1, <1>5, QNumbers DEF QInv, PostsCounted
  <1> QED
    BY <1>3, <1>4, <1>6 DEF QInv

(* and when it finds an aim. *)
LEMMA QFind ==
    ASSUME NEW w \in Workers, NEW id \in PlayerIDs, NEW fov \in 1 .. MaxFov
    PROVE  QInv /\ FindAim(w, id, fov) => QInv'
  <1> SUFFICES ASSUME QInv, FindAim(w, id, fov) PROVE QInv'
    OBVIOUS
  <1>1. /\ data' \in [DataElements -> [target : Target, tick : Ticks]]
        /\ found' \subseteq Aims
        /\ UNCHANGED <<pc, inFuture, i, b, o, u, pushedCount, target, lowestFov, targetPlayers,
                       threadSem, queued, running, refused, calls>>
    <2>1. /\ data' \in [DataElements -> [target : Target, tick : Ticks]]
          /\ [tick |-> data[running[w]].tick, id |-> id, fov |-> fov] \in Aims
      BY FindData DEF QInv
    <2>2. found' = found \union {[tick |-> data[running[w]].tick, id |-> id, fov |-> fov]}
      BY DEF FindAim
    <2>3. found \subseteq Aims
      BY DEF QInv, AimTypes
    <2>4. UNCHANGED <<pc, inFuture, i, b, o, u, pushedCount, target, lowestFov, targetPlayers,
                      threadSem, queued, running, refused, calls>>
      BY DEF FindAim, poolVars, bestVars, loopVars
    <2> QED
      BY <2>1, <2>2, <2>3, <2>4
  <1>2. AimTypes'
    BY <1>1 DEF QInv, AimTypes
  <1>3. /\ JobsApart' /\ Cardinality(Busy') = Cardinality(Busy)
        /\ Len(queued') = Len(queued)
    BY <1>1, JobsKept, QNumbers
  <1>4. PostsCounted'
    BY <1>1, <1>3, QNumbers DEF PostsCounted, QInv
  <1> QED
    BY <1>2, <1>3, <1>4 DEF QInv

(* So it holds after every step.                                           *)
LEMMA QNext == QInv /\ [AimNext]_aimVars => QInv'
  <1>1. ASSUME QInv, UNCHANGED aimVars PROVE QInv'
    <2>1. UNCHANGED <<pc, inFuture, i, b, o, u, pushedCount, data, target, lowestFov, targetPlayers,
                      threadSem, queued, running, found, refused, calls>>
      BY <1>1 DEF aimVars
    <2>2. AimTypes'
      BY <1>1, <2>1 DEF QInv, AimTypes
    <2>3. /\ JobsApart' /\ Cardinality(Busy') = Cardinality(Busy)
          /\ Len(queued') = Len(queued)
      BY <1>1, <2>1, JobsKept, QNumbers
    <2>4. PostsCounted'
      BY <1>1, <2>1, <2>3 DEF PostsCounted, QInv
    <2> QED
      BY <2>2, <2>3, <2>4 DEF QInv
  <1>2. ASSUME QInv, Finder PROVE QInv'
    BY <1>2, QQueue, QPass, QWait, QCollect, QNextRound DEF Finder
  <1>3. ASSUME QInv, NEW w \in Workers, Worker(w) PROVE QInv'
    BY <1>3, QStart, QFinish, QFind DEF Worker
  <1> QED
    BY <1>1, <1>2, <1>3, QRun DEF AimNext

(* Always.                                                                 *)
LEMMA QAlways == AimSpec => []QInv
  BY QInit, QNext, PTL DEF AimSpec

(* FindBestTarget and the jobs never use an element of data at once, and   *)
(* no post is left for the next round.                                     *)
THEOREM JobsNeverMeet == AimSpec => []ElementsApart
  <1>1. ASSUME QInv PROVE ElementsApart
    <2>1. pc = "fill" => \A e \in InUse : e < o
      BY <1>1 DEF QInv, JobsApart, InUse
    <2>2. pc \in {"collect", "idle"} => InUse = {} /\ threadSem = 0
      <3> SUFFICES ASSUME pc \in {"collect", "idle"} PROVE InUse = {} /\ threadSem = 0
        OBVIOUS
      <3>1. pushedCount = 0
        BY <1>1 DEF QInv, PostsCounted
      <3>2. threadSem = 0 /\ queued = <<>> /\ \A w \in Workers : running[w] = Idle
        BY <1>1, <3>1, NoneOut
      <3>3. DOMAIN queued = {}
        BY <3>2
      <3> QED
        BY <3>2, <3>3 DEF InUse
    <2> QED
      BY <1>1, <2>1, <2>2 DEF ElementsApart, QInv, JobsApart
  <1> QED
    BY <1>1, QAlways, PTL

-----------------------------------------------------------------------------
(* The best aim.                                                           *)

(* The elements FindBestTarget came to in this round and did not collect.  *)
Fresh(e) == e < o /\ (pc = "collect" => u <= e)

(* In them is an aim at the tick they stand for, unless that is passed over.*)
FreshFits ==
    \A e \in DataElements : Fresh(e) =>
        /\ ~inFuture => data[e].target.fov # NoFov
        /\ data[e].target.fov # NoFov => data[e].tick = Tick(i + e)

(* The aim was found in this call: in this tick, or the job did not better *)
(* the target it was given.                                                *)
FreshFound ==
    \A e \in DataElements :
        Fresh(e) /\ data[e].target.fov # NoFov /\ data[e].target.id # NoId =>
            \E aim \in found :
                /\ aim.id = data[e].target.id /\ aim.fov = data[e].target.fov
                /\ ~refused => aim.tick = data[e].tick \/ lowestFov <= aim.fov

(* No job runs on a tick that is passed over.                              *)
UseFits ==
    /\ \A w \in Workers : running[w] # Idle => data[running[w]].target.fov # NoFov
    /\ \A n \in DOMAIN queued : data[queued[n]].target.fov # NoFov

(* The target so far was found in this call, in the tick noted in it.      *)
TargetFound ==
    /\ target.id = NoId => lowestFov = FirstLowest /\ target.fov = DefaultFov
    /\ target.id # NoId =>
          /\ lowestFov = target.fov /\ targetPlayers # NoTick
          /\ \E aim \in found :
                /\ aim.id = target.id /\ aim.fov = target.fov
                /\ ~refused => aim.tick = [future |-> target.future, backTick |-> target.backTick]

(* Each aim found is matched by the target so far, or by one that is still *)
(* to be collected.                                                        *)
BestSoFar ==
    ~refused =>
        \A aim \in found :
            \/ lowestFov <= aim.fov
            \/ \E e \in DataElements :
                  Fresh(e) /\ data[e].target.fov <= aim.fov /\ data[e].target.id # NoId

BInv == FreshFits /\ FreshFound /\ UseFits /\ TargetFound /\ BestSoFar

(* Fovs are numbers, those of aims the small ones.                         *)
LEMMA Fovs ==
    ASSUME QInv
    PROVE  /\ \A e \in DataElements : data[e].target \in Target /\ data[e].target.fov \in 1 .. NoFov
           /\ \A aim \in found : aim.fov \in 1 .. MaxFov /\ aim.id \in PlayerIDs
           /\ lowestFov \in 1 .. NoFov /\ target.fov \in 1 .. NoFov
           /\ \A e \in DataElements : e \in Nat /\ e < Width
           /\ \A w \in Workers : running[w] # Idle => running[w] \in DataElements
           /\ \A n \in DOMAIN queued : queued[n] \in DataElements
  <1>1. data \in [DataElements -> [target : Target, tick : Ticks]]
    BY DEF QInv, AimTypes
  <1>2. \A e \in DataElements : data[e].target \in Target /\ data[e].target.fov \in 1 .. NoFov
    BY <1>1 DEF Target
  <1>3. \A aim \in found : aim.fov \in 1 .. MaxFov /\ aim.id \in PlayerIDs
    BY DEF QInv, AimTypes, Aims
  <1>4. lowestFov \in 1 .. NoFov /\ target.fov \in 1 .. NoFov
    BY DEF QInv, AimTypes, Target
  <1>5. \A n \in DOMAIN queued : queued[n] \in DataElements
    BY ElementOfSeq, LenProperties DEF QInv, AimTypes
  <1>6. \A w \in Workers : running[w] # Idle => running[w] \in DataElements
    BY DEF QInv, AimTypes
  <1> QED
    BY <1>2, <1>3, <1>4, <1>5, <1>6, AimFacts

(* The best fov so far is one of an aim, or the first.                     *)
LEMMA LowestSmall ==
    ASSUME QInv, BInv
    PROVE  lowestFov <= FirstLowest /\ lowestFov # NoFov /\ target.fov # NoFov
  <1>1. CASE target.id = NoId
    BY <1>1, AimFacts DEF BInv, TargetFound
  <1>2. CASE target.id # NoId
    BY <1>2, Fovs, AimFacts DEF BInv, TargetFound
  <1> QED
    BY <1>1, <1>2

(* Steps that change no target and no number of the loops.                 *)
LEMMA BestKept ==
    ASSUME BInv, UNCHANGED <<inFuture, i, data, target, lowestFov, targetPlayers, found, refused>>,
           \A e \in DataElements : Fresh(e)' <=> Fresh(e),
           UseFits'
    PROVE  BInv'
  <1>1. FreshFits'
    BY DEF BInv, FreshFits, Tick
  <1>2. FreshFound'
    BY DEF BInv, FreshFound
  <1>3. TargetFound'
    BY DEF BInv, TargetFound
  <1>4. BestSoFar'
    BY DEF BInv, BestSoFar
  <1> QED
    BY <1>1, <1>2, <1>3, <1>4 DEF BInv

(* The invariant at first, and when RunAimbot is called,                   *)
LEMMA BInit == AimInit => BInv
  <1> SUFFICES ASSUME AimInit PROVE BInv
    OBVIOUS
  <1>1. \A e \in DataElements : ~Fresh(e)
    BY AimFacts DEF AimInit, Fresh
  <1>2. UseFits
    BY EmptySeq DEF AimInit, UseFits
  <1>3. TargetFound
    BY DEF AimInit, TargetFound, NoTarget
  <1>4. found = {}
    BY DEF AimInit
  <1> QED
    BY <1>1, <1>2, <1>3, <1>4 DEF BInv, FreshFits, FreshFound, BestSoFar

(* The pool is empty and no element fresh: only the target counts.         *)
LEMMA BestStart ==
    ASSUME QInv, pushedCount = 0, UNCHANGED <<queued, running>>, o' = 0, TargetFound', BestSoFar'
    PROVE  BInv'
  <1>1. queued = <<>> /\ \A w \in Workers : running[w] = Idle
    BY NoneOut
  <1>2. UseFits'
    BY <1>1 DEF UseFits
  <1>3. \A e \in DataElements : ~Fresh(e)'
    BY AimFacts DEF Fresh
  <1> QED
    BY <1>2, <1>3 DEF BInv, FreshFits, FreshFound

(* A call knows no target.                                                 *)
LEMMA BRun == QInv /\ RunAimbot => BInv'
  <1> SUFFICES ASSUME QInv, RunAimbot PROVE BInv'
    OBVIOUS
  <1>1. pushedCount = 0 /\ o' = 0 /\ UNCHANGED <<queued, running>>
    BY DEF QInv, PostsCounted, RunAimbot, poolVars
  <1>2. TargetFound'
    BY DEF RunAimbot, TargetFound, NoTarget
  <1>3. BestSoFar'
    BY DEF RunAimbot, BestSoFar
  <1> QED
    BY <1>1, <1>2, <1>3, BestStart

(* when a job is queued, with the target so far,                           *)
LEMMA BQueue == QInv /\ BInv /\ QueueTick => BInv'
  <1> SUFFICES ASSUME QInv, BInv, QueueTick PROVE BInv'
    OBVIOUS
  <1>1. /\ o \in DataElements /\ o \in Nat /\ o' = o + 1 /\ pc = "fill"
        /\ data'[o].target = target /\ data'[o].tick = Tick(i + o)
        /\ \A e \in DataElements \ {o} : data'[e] = data[e]
        /\ queued' = Append(queued, o)
        /\ UNCHANGED <<pc, inFuture, i, target, lowestFov, targetPlayers, running, found, refused>>
    BY QueueData, QNumbers DEF QInv, QueueTick, loopVars, bestVars
  <1>2. \A e \in DataElements : Fresh(e)' <=> Fresh(e) \/ e = o
    BY <1>1, Fovs DEF Fresh
  <1>3. ~Fresh(o)
    BY <1>1 DEF Fresh
  <1>4. FreshFits'
    BY <1>1, <1>2, <1>3, LowestSmall DEF BInv, FreshFits, Tick
  <1>5. FreshFound'
    <2> SUFFICES ASSUME NEW e \in DataElements, Fresh(e)',
                        data'[e].target.fov # NoFov, data'[e].target.id # NoId
                 PROVE  \E aim \in found :
                          /\ aim.id = data'[e].target.id /\ aim.fov = data'[e].target.fov
                          /\ ~refused => aim.tick = data'[e].tick \/ lowestFov <= aim.fov
      BY <1>1 DEF FreshFound
    <2>1. CASE e = o
      <3>1. target.id # NoId
        BY <1>1, <2>1
      <3>2. PICK aim \in found : aim.id = target.id /\ aim.fov = target.fov
        BY <3>1 DEF BInv, TargetFound
      <3>3. lowestFov <= aim.fov
        BY <3>1, <3>2, Fovs DEF BInv, TargetFound
      <3> QED
        BY <1>1, <2>1, <3>2, <3>3
    <2>2. CASE e # o
      <3>1. data'[e] = data[e] /\ Fresh(e)
        BY <1>1, <1>2, <2>2
      <3>2. PICK aim \in found :
                /\ aim.id = data[e].target.id /\ aim.fov = data[e].target.fov
                /\ ~refused => aim.tick = data[e].tick \/ lowestFov <= aim.fov
        BY <3>1 DEF BInv, FreshFound
      <3> QED
        BY <3>1, <3>2
    <2> QED
      BY <2>1, <2>2
  <1>6. UseFits'
    <2>1. /\ queued \in Seq(DataElements)
          /\ \A n \in 1 .. Len(queued) : queued'[n] = queued[n]
          /\ queued'[Len(queued) + 1] = o
          /\ DOMAIN queued = 1 .. Len(queued) /\ DOMAIN queued' = 1 .. Len(queued) + 1
          /\ Len(queued) \in Nat
      BY <1>1, AppendProperties, LenProperties DEF QInv, AimTypes
    <2>2. \A n \in DOMAIN queued' : n \in DOMAIN queued \/ n = Len(queued) + 1
      BY <2>1
    <2>3. \A n \in DOMAIN queued : queued[n] \in DataElements \ {o}
      BY <1>1, Fovs DEF QInv, JobsApart
    <2>4. \A w \in Workers : running[w] # Idle => running[w] \in DataElements \ {o}
      BY <1>1, Fovs DEF QInv, JobsApart
    <2>5. data'[o].target.fov # NoFov
      BY <1>1, LowestSmall
    <2>6. \A n \in DOMAIN queued' : data'[queued'[n]].target.fov # NoFov
      <3>1. ASSUME NEW n \in DOMAIN queued PROVE data'[queued'[n]].target.fov # NoFov
        <4>1. queued'[n] = queued[n] /\ data'[queued[n]] = data[queued[n]]
          BY <1>1, <2>1, <2>3, <3>1
        <4> QED
          BY <3>1, <4>1 DEF BInv, UseFits
      <3> QED
        BY <2>1, <2>2, <2>5, <3>1
    <2>7. \A w \in Workers : running'[w] # Idle => data'[running'[w]].target.fov # NoFov
      BY <1>1, <2>4 DEF BInv, UseFits
    <2> QED
      BY <2>6, <2>7 DEF UseFits
  <1>7. TargetFound'
    BY <1>1 DEF BInv, TargetFound
  <1>8. BestSoFar'
    BY <1>1, <1>2, <1>3 DEF BInv, BestSoFar
  <1> QED
    BY <1>4, <1>5, <1>6, <1>7, <1>8 DEF BInv

(* when a tick is passed over,                                             *)
LEMMA BPass == QInv /\ BInv /\ PassTick => BInv'
  <1> SUFFICES ASSUME QInv, BInv, PassTick PROVE BInv'
    OBVIOUS
  <1>1. /\ o \in DataElements /\ o \in Nat /\ pc = "fill" /\ pc' \in {"fill", "wait"}
        /\ data'[o].target.fov = NoFov
        /\ \A e \in DataElements \ {o} : data'[e] = data[e]
        /\ UNCHANGED <<inFuture, i, target, lowestFov, targetPlayers, queued, running, found, refused>>
        /\ o' = (IF inFuture THEN o + 1 ELSE o)
    BY PassData, QNumbers DEF QInv, PassTick, poolVars, bestVars
  <1>2. \A e \in DataElements : Fresh(e)' <=> Fresh(e) \/ (e = o /\ inFuture)
    <2>1. CASE inFuture
      BY <1>1, <2>1, Fovs DEF Fresh
    <2>2. CASE ~inFuture
      BY <1>1, <2>2, Fovs DEF Fresh
    <2> QED
      BY <2>1, <2>2
  <1>3. ~Fresh(o)
    BY <1>1 DEF Fresh
  <1>4. FreshFits'
    BY <1>1, <1>2, <1>3 DEF BInv, FreshFits, Tick
  <1>5. FreshFound'
    <2> SUFFICES ASSUME NEW e \in DataElements, Fresh(e)',
                        data'[e].target.fov # NoFov, data'[e].target.id # NoId
                 PROVE  \E aim \in found :
                          /\ aim.id = data'[e].target.id /\ aim.fov = data'[e].target.fov
                          /\ ~refused => aim.tick = data'[e].tick \/ lowestFov <= aim.fov
      BY <1>1 DEF FreshFound
    <2>1. e # o
      BY <1>1
    <2>2. data'[e] = data[e]
      BY <1>1, <2>1
    <2>3. Fresh(e)
      BY <1>2, <2>1
    <2>4. PICK aim \in found :
              /\ aim.id = data[e].target.id /\ aim.fov = data[e].target.fov
              /\ ~refused => aim.tick = data[e].tick \/ lowestFov <= aim.fov
      BY <2>2, <2>3 DEF BInv, FreshFound
    <2> QED
      BY <2>2, <2>4
  <1>6. UseFits'
    <2>1. \A n \in DOMAIN queued : queued[n] \in DataElements \ {o}
      BY <1>1, Fovs DEF QInv, JobsApart
    <2>2. \A w \in Workers : running[w] # Idle => running[w] \in DataElements \ {o}
      BY <1>1, Fovs DEF QInv, JobsApart
    <2> QED
      BY <1>1, <2>1, <2>2 DEF BInv, UseFits
  <1>7. TargetFound'
    BY <1>1 DEF BInv, TargetFound
  <1>8. BestSoFar'
    BY <1>1, <1>2, <1>3 DEF BInv, BestSoFar
  <1> QED
    BY <1>4, <1>5, <1>6, <1>7, <1>8 DEF BInv

(* when FindBestTarget waits and begins to collect,                        *)
LEMMA BWait == QInv /\ BInv /\ (StartWait \/ WaitForJob \/ StartCollect) => BInv'
  <1> SUFFICES ASSUME QInv, BInv, StartWait \/ WaitForJob \/ StartCollect PROVE BInv'
    OBVIOUS
  <1>1. UNCHANGED <<inFuture, i, o, data, target, lowestFov, targetPlayers,
                    queued, running, found, refused>>
    BY DEF StartWait, WaitForJob, StartCollect, poolVars, loopVars, bestVars
  <1>2. pc # "collect" /\ (pc' # "collect" \/ u' = 0)
    BY DEF StartWait, WaitForJob, StartCollect
  <1>3. \A e \in DataElements : Fresh(e)' <=> Fresh(e)
    BY <1>1, <1>2, Fovs DEF Fresh
  <1>4. UseFits'
    BY <1>1 DEF BInv, UseFits
  <1> QED
    BY <1>1, <1>3, <1>4, BestKept

(* What Collect leaves alone, and the elements that are still to come.     *)
LEMMA CollectFrame ==
    ASSUME QInv, NEW verified \in BOOLEAN, Collect(verified)
    PROVE  /\ u \in DataElements /\ Fresh(u)
           /\ UNCHANGED <<inFuture, i, queued, running, found>>
           /\ \A e \in DataElements : Fresh(e)' <=> Fresh(e) /\ e # u
           /\ \A w \in Workers : running[w] = Idle
           /\ DOMAIN queued = {}
           /\ refused' = (refused \/ (Asks /\ ~verified))
  <1>1. /\ pc = "collect" /\ u < o /\ u' = u + 1 /\ u \in Nat /\ o \in Nat /\ o <= Width
        /\ UNCHANGED <<pc, inFuture, i, o, pushedCount, queued, running, found>>
        /\ refused' = (refused \/ (Asks /\ ~verified))
    BY QNumbers DEF Collect, loopVars, poolVars
  <1>2. u \in DataElements /\ Fresh(u)
    BY <1>1, AimFacts DEF Fresh
  <1>3. \A e \in DataElements : Fresh(e)' <=> Fresh(e) /\ e # u
    BY <1>1, Fovs DEF Fresh
  <1>4. pushedCount = 0
    BY <1>1 DEF QInv, PostsCounted
  <1>5. queued = <<>> /\ \A w \in Workers : running[w] = Idle
    BY <1>4, NoneOut
  <1>6. DOMAIN queued = {}
    BY <1>5
  <1> QED
    BY <1>1, <1>2, <1>3, <1>5, <1>6

(* when a better target is collected,                                      *)
LEMMA BBetter ==
    ASSUME NEW verified \in BOOLEAN
    PROVE  QInv /\ BInv /\ Collect(verified) /\ Better(verified) => BInv'
  <1> SUFFICES ASSUME QInv, BInv, Collect(verified), Better(verified) PROVE BInv'
    OBVIOUS
  <1> DEFINE t == data[u].target
  <1>1. /\ u \in DataElements /\ Fresh(u)
        /\ UNCHANGED <<inFuture, i, queued, running, found>>
        /\ \A e \in DataElements : Fresh(e)' <=> Fresh(e) /\ e # u
        /\ \A w \in Workers : running[w] = Idle
        /\ DOMAIN queued = {}
        /\ refused' = (refused \/ (Asks /\ ~verified))
    BY CollectFrame
  <1>2. /\ target'.id = t.id /\ target'.fov = t.fov
        /\ target'.backTick = i + u /\ target'.future = inFuture
        /\ lowestFov' = t.fov
        /\ targetPlayers' # NoTick
        /\ \A d \in DataElements \ {u} : data'[d] = data[d]
    BY CollectData DEF QInv
  <1>3. t.fov \in 1 .. NoFov /\ lowestFov \in 1 .. NoFov /\ t.id # NoId
    BY <1>1, Fovs DEF Better
  <1>4. /\ t.fov < lowestFov \/ (Asks /\ ~verified)
        /\ ~refused' => ~refused /\ t.fov < lowestFov
    BY <1>1 DEF Better
  <1>5. t.fov # NoFov
    <2>1. CASE t.fov < lowestFov
      BY <1>3, <2>1, LowestSmall, AimFacts
    <2>2. CASE Asks
      BY <1>1, <2>2 DEF Asks, BInv, FreshFits
    <2> QED
      BY <1>4, <2>1, <2>2
  <1>6. data[u].tick = Tick(i + u)
    BY <1>1, <1>5 DEF BInv, FreshFits
  <1>7. PICK aim \in found :
          /\ aim.id = t.id /\ aim.fov = t.fov
          /\ ~refused => aim.tick = data[u].tick \/ lowestFov <= aim.fov
    BY <1>1, <1>3, <1>5 DEF BInv, FreshFound
  <1> HIDE DEF t
  <1>8. FreshFits'
    BY <1>1, <1>2 DEF BInv, FreshFits, Tick
  <1>9. FreshFound'
    <2> SUFFICES ASSUME NEW e \in DataElements, Fresh(e)',
                        data'[e].target.fov # NoFov, data'[e].target.id # NoId
                 PROVE  \E a \in found :
                          /\ a.id = data'[e].target.id /\ a.fov = data'[e].target.fov
                          /\ ~refused' => a.tick = data'[e].tick \/ lowestFov' <= a.fov
      BY <1>1 DEF FreshFound
    <2>1. Fresh(e) /\ e # u /\ data'[e] = data[e]
      BY <1>1, <1>2
    <2>2. PICK a \in found :
            /\ a.id = data[e].target.id /\ a.fov = data[e].target.fov
            /\ ~refused => a.tick = data[e].tick \/ lowestFov <= a.fov
      BY <2>1 DEF BInv, FreshFound
    <2>3. ~refused' => a.tick = data[e].tick \/ lowestFov' <= a.fov
      BY <1>2, <1>3, <1>4, <2>2, Fovs
    <2> QED
      BY <2>1, <2>2, <2>3
  <1>10. UseFits'
    BY <1>1 DEF UseFits
  <1>11. TargetFound'
    <2>1. target'.id # NoId
      BY <1>2, <1>3
    <2>2. ~refused' => aim.tick = [future |-> target'.future, backTick |-> target'.backTick]
      <3>1. ~refused' => aim.tick = Tick(i + u)
        BY <1>3, <1>4, <1>6, <1>7
      <3> QED
        BY <1>2, <3>1 DEF Tick
    <2>3. aim.id = target'.id /\ aim.fov = target'.fov /\ aim \in found'
      BY <1>1, <1>2, <1>7
    <2>4. lowestFov' = target'.fov /\ targetPlayers' # NoTick
      BY <1>2
    <2> QED
      BY <2>1, <2>2, <2>3, <2>4 DEF TargetFound
  <1>12. BestSoFar'
    <2> SUFFICES ASSUME ~refused', NEW a \in found
                 PROVE  \/ lowestFov' <= a.fov
                        \/ \E e \in DataElements :
                              Fresh(e)' /\ data'[e].target.fov <= a.fov /\ data'[e].target.id # NoId
      BY <1>1 DEF BestSoFar
    <2>1. CASE lowestFov <= a.fov
      BY <1>2, <1>3, <1>4, <2>1, Fovs
    <2>2. CASE ~(lowestFov <= a.fov)
      <3>1. PICK e \in DataElements :
              Fresh(e) /\ data[e].target.fov <= a.fov /\ data[e].target.id # NoId
        BY <1>4, <2>2 DEF BInv, BestSoFar
      <3>2. CASE e = u
        BY <1>2, <3>1, <3>2 DEF t
      <3>3. CASE e # u
        BY <1>1, <1>2, <3>1, <3>3
      <3> QED
        BY <3>2, <3>3
    <2> QED
      BY <2>1, <2>2
  <1> QED
    BY <1>8, <1>9, <1>10, <1>11, <1>12 DEF BInv

(* or none,                                                                *)
LEMMA BWorse ==
    ASSUME NEW verified \in BOOLEAN
    PROVE  QInv /\ BInv /\ Collect(verified) /\ ~Better(verified) => BInv'
  <1> SUFFICES ASSUME QInv, BInv, Collect(verified), ~Better(verified) PROVE BInv'
    OBVIOUS
  <1>1. /\ u \in DataElements /\ Fresh(u)
        /\ UNCHANGED <<inFuture, i, queued, running, found>>
        /\ \A e \in DataElements : Fresh(e)' <=> Fresh(e) /\ e # u
        /\ \A w \in Workers : running[w] = Idle
        /\ DOMAIN queued = {}
        /\ refused' = (refused \/ (Asks /\ ~verified))
    BY CollectFrame
  <1>2. UNCHANGED <<data, target, lowestFov, targetPlayers>>
    BY DEF Collect, bestVars
  <1>3. refused' = refused
    <2>1. ~(Asks /\ ~verified)
      BY DEF Better, Asks
    <2> QED
      BY <1>1, <2>1 DEF QInv, AimTypes
  <1>4. data[u].target.id # NoId => lowestFov <= data[u].target.fov
    BY <1>1, Fovs DEF Better
  <1>5. FreshFits'
    BY <1>1, <1>2 DEF BInv, FreshFits, Tick
  <1>6. FreshFound'
    BY <1>1, <1>2, <1>3 DEF BInv, FreshFound
  <1>7. UseFits'
    BY <1>1 DEF UseFits
  <1>8. TargetFound'
    BY <1>1, <1>2, <1>3 DEF BInv, TargetFound
  <1>9. BestSoFar'
    <2> SUFFICES ASSUME ~refused, NEW a \in found, ~(lowestFov <= a.fov)
                 PROVE  \E e \in DataElements :
                            Fresh(e)' /\ data[e].target.fov <= a.fov /\ data[e].target.id # NoId
      BY <1>1, <1>2, <1>3 DEF BestSoFar
    <2>1. PICK e \in DataElements :
            Fresh(e) /\ data[e].target.fov <= a.fov /\ data[e].target.id # NoId
      BY DEF BInv, BestSoFar
    <2>2. e # u
      BY <1>1, <1>4, <2>1, Fovs
    <2> QED
      BY <1>1, <2>1, <2>2
  <1> QED
    BY <1>5, <1>6, <1>7, <1>8, <1>9 DEF BInv

(* when all are collected: no aim is out that is better,                   *)
LEMMA BNextRound == QInv /\ BInv /\ NextRound => BInv'
  <1> SUFFICES ASSUME QInv, BInv, NextRound PROVE BInv'
    OBVIOUS
  <1>1. /\ pc = "collect" /\ u = o /\ o' = 0
        /\ UNCHANGED <<pushedCount, data, target, lowestFov, targetPlayers,
                       queued, running, found, refused>>
    BY DEF NextRound, poolVars, bestVars
  <1>2. \A e \in DataElements : ~Fresh(e)
    BY <1>1, Fovs, QNumbers DEF Fresh
  <1>3. BestSoFar'
    BY <1>1, <1>2 DEF BInv, BestSoFar
  <1>4. TargetFound'
    BY <1>1 DEF BInv, TargetFound
  <1>5. pushedCount = 0
    BY <1>1 DEF QInv, PostsCounted
  <1> QED
    BY <1>1, <1>3, <1>4, <1>5, BestStart

(* when a worker takes or leaves a job,                                    *)
LEMMA BJob == ASSUME NEW w \in Workers PROVE QInv /\ BInv /\ (StartJob(w) \/ FinishJob(w)) => BInv'
  <1> SUFFICES ASSUME QInv, BInv, StartJob(w) \/ FinishJob(w) PROVE BInv'
    OBVIOUS
  <1>1. UNCHANGED <<pc, inFuture, i, o, u, data, target, lowestFov, targetPlayers, found, refused>>
    BY DEF StartJob, FinishJob, loopVars, bestVars
  <1>2. \A e \in DataElements : Fresh(e)' <=> Fresh(e)
    BY <1>1 DEF Fresh
  <1>3. CASE StartJob(w)
    <2>1. /\ queued # <<>> /\ queued' = Tail(queued) /\ queued \in Seq(DataElements)
          /\ running' = [running EXCEPT ![w] = Head(queued)]
          /\ running \in [Workers -> DataElements \union {Idle}]
      BY <1>3 DEF StartJob, QInv, AimTypes
    <2>2. /\ Head(queued) = queued[1] /\ 1 \in DOMAIN queued
          /\ \A n \in DOMAIN queued' : queued'[n] = queued[n + 1] /\ n + 1 \in DOMAIN queued
      BY <2>1, HeadTailProperties, LenProperties, EmptySeq
    <2>3. running'[w] = queued[1] /\ \A v \in Workers \ {w} : running'[v] = running[v]
      BY <2>1, <2>2
    <2>4. UseFits'
      BY <1>1, <2>2, <2>3 DEF BInv, UseFits
    <2> QED
      BY <1>1, <1>2, <2>4, BestKept
  <1>4. CASE FinishJob(w)
    <2>1. running'[w] = Idle /\ queued' = queued /\ \A v \in Workers \ {w} : running'[v] = running[v]
      BY <1>4 DEF FinishJob, QInv, AimTypes
    <2>2. UseFits'
      BY <1>1, <2>1 DEF BInv, UseFits
    <2> QED
      BY <1>1, <1>2, <2>2, BestKept
  <1> QED
    BY <1>3, <1>4

(* and when it finds a better aim.                                         *)
LEMMA BFind ==
    ASSUME NEW w \in Workers, NEW id \in PlayerIDs, NEW fov \in 1 .. MaxFov
    PROVE  QInv /\ BInv /\ FindAim(w, id, fov) => BInv'
  <1> SUFFICES ASSUME QInv, BInv, FindAim(w, id, fov) PROVE BInv'
    OBVIOUS
  <1> DEFINE e == running[w]
             aim == [tick |-> data[e].tick, id |-> id, fov |-> fov]
  <1>1. /\ e \in DataElements
        /\ data'[e].target.id = id /\ data'[e].target.fov = fov
        /\ data'[e].tick = data[e].tick
        /\ \A d \in DataElements \ {e} : data'[d] = data[d]
    BY FindData DEF QInv
  <1>2. /\ e # Idle /\ fov < data[e].target.fov
        /\ found' = found \union {aim}
        /\ UNCHANGED <<pc, inFuture, i, o, u, target, lowestFov, targetPlayers,
                       queued, running, refused>>
    BY DEF FindAim, poolVars, bestVars, loopVars
  <1>3. Fresh(e)
    <2>1. pc # "collect"
      <3>1. pushedCount # 0
        BY <1>2, NoneOut
      <3> QED
        BY <3>1 DEF QInv, PostsCounted
    <2>2. e < o
      BY DEF QInv, JobsApart
    <2> QED
      BY <2>1, <2>2 DEF Fresh
  <1>4. \A d \in DataElements : Fresh(d)' <=> Fresh(d)
    BY <1>2 DEF Fresh
  <1>5. data[e].target.fov # NoFov
    BY <1>2 DEF BInv, UseFits
  <1>6. fov # NoFov /\ fov \in Int /\ data[e].target.fov \in Int /\ id # NoId
    BY <1>1, Fovs, AimFacts
  <1>7. aim.tick = data[e].tick /\ aim.id = id /\ aim.fov = fov /\ aim \in found'
    BY <1>2
  <1> HIDE DEF e, aim
  <1>8. FreshFits'
    <2>1. ASSUME NEW d \in DataElements, Fresh(d)', d = e
          PROVE  data'[d].target.fov # NoFov /\ data'[d].tick = Tick(i + d)
      BY <1>1, <1>3, <1>5, <1>6, <2>1 DEF BInv, FreshFits
    <2>2. ASSUME NEW d \in DataElements, Fresh(d)', d # e
          PROVE  /\ ~inFuture => data'[d].target.fov # NoFov
                 /\ data'[d].target.fov # NoFov => data'[d].tick = Tick(i + d)
      BY <1>1, <1>4, <2>2 DEF BInv, FreshFits
    <2> QED
      BY <1>2, <2>1, <2>2 DEF FreshFits, Tick
  <1>9. FreshFound'
    <2> SUFFICES ASSUME NEW d \in DataElements, Fresh(d)',
                        data'[d].target.fov # NoFov, data'[d].target.id # NoId
                 PROVE  \E a \in found' :
                          /\ a.id = data'[d].target.id /\ a.fov = data'[d].target.fov
                          /\ ~refused => a.tick = data'[d].tick \/ lowestFov <= a.fov
      BY <1>2 DEF FreshFound
    <2>1. CASE d = e
      BY <1>1, <1>7, <2>1
    <2>2. CASE d # e
      BY <1>1, <1>2, <1>4, <2>2 DEF BInv, FreshFound
    <2> QED
      BY <2>1, <2>2
  <1>10. UseFits'
    <2>1. /\ \A v \in Workers : running[v] # Idle => running[v] \in DataElements
          /\ \A n \in DOMAIN queued : queued[n] \in DataElements
      BY Fovs
    <2>2. ASSUME NEW d \in DataElements, data[d].target.fov # NoFov PROVE data'[d].target.fov # NoFov
      BY <1>1, <1>6, <2>2
    <2> QED
      BY <1>2, <2>1, <2>2 DEF BInv, UseFits
  <1>11. TargetFound'
    BY <1>2 DEF BInv, TargetFound
  <1>12. BestSoFar'
    <2> SUFFICES ASSUME ~refused, NEW a \in found', ~(lowestFov <= a.fov)
                 PROVE  \E d \in DataElements :
                            Fresh(d)' /\ data'[d].target.fov <= a.fov /\ data'[d].target.id # NoId
      BY <1>2 DEF BestSoFar
    <2>1. CASE a = aim
      BY <1>1, <1>3, <1>4, <1>6, <1>7, <2>1
    <2>2. CASE a \in found
      <3>1. PICK d \in DataElements :
              Fresh(d) /\ data[d].target.fov <= a.fov /\ data[d].target.id # NoId
        BY <2>2 DEF BInv, BestSoFar
      <3>2. CASE d = e
        BY <1>1, <1>2, <1>3, <1>4, <1>6, <2>2, <3>1, <3>2, Fovs
      <3>3. CASE d # e
        BY <1>1, <1>4, <3>1, <3>3
      <3> QED
        BY <3>2, <3>3
    <2> QED
      BY <1>2, <2>1, <2>2
  <1> QED
    BY <1>8, <1>9, <1>10, <1>11, <1>12 DEF BInv

(* So it holds after every step.                                           *)
LEMMA BNext == QInv /\ BInv /\ [AimNext]_aimVars => BInv'
  <1>1. ASSUME QInv, BInv, UNCHANGED aimVars PROVE BInv'
    <2>1. UNCHANGED <<pc, inFuture, i, o, u, data, target, lowestFov, targetPlayers,
                      queued, running, found, refused>>
      BY <1>1 DEF aimVars
    <2>2. \A e \in DataElements : Fresh(e)' <=> Fresh(e)
      BY <2>1 DEF Fresh
    <2>3. UseFits'
      BY <1>1, <2>1 DEF BInv, UseFits
    <2> QED
      BY <1>1, <2>1, <2>2, <2>3, BestKept
  <1>2. ASSUME QInv, BInv, Finder PROVE BInv'
    BY <1>2, BQueue, BPass, BWait, BBetter, BWorse, BNextRound DEF Finder
  <1>3. ASSUME QInv, BInv, NEW w \in Workers, Worker(w) PROVE BInv'
    BY <1>3, BJob, BFind DEF Worker
  <1> QED
    BY <1>1, <1>2, <1>3, BRun DEF AimNext

(* Always.                                                                 *)
LEMMA BAlways == AimSpec => []BInv
  BY QAlways, BInit, BNext, PTL DEF AimSpec

(* Every number and target is in its range: no more posts than elements,   *)
(* and the lowest fov is the first one or an aim's.                        *)
THEOREM AimTyped == AimSpec => []AimTypeOK
  <1>1. ASSUME QInv, BInv PROVE AimTypeOK
    <2>1. /\ pc \in {"idle", "fill", "wait", "collect"}
          /\ i \in 0 .. TrackCount + FutureCount /\ {o, u} \subseteq 0 .. Width
          /\ target \in Target
          /\ running \in [Workers -> DataElements \union {Idle}]
      BY <1>1 DEF QInv, AimTypes
    <2>2. pushedCount \in 0 .. Width /\ threadSem \in 0 .. Width
      BY <1>1, QNumbers, AimFacts
    <2>3. \A e \in DataElements : data[e].target \in Target
      BY <1>1, Fovs
    <2>4. lowestFov \in 1 .. FirstLowest
      BY <1>1, LowestSmall, Fovs, AimFacts
    <2> QED
      BY <2>1, <2>2, <2>3, <2>4 DEF AimTypeOK
  <1> QED
    BY <1>1, QAlways, BAlways, PTL

(* RunAimbot returns the best aim its jobs found, in the tick it was found *)
(* in, unless VerifyTarget refused one; never one of an earlier call; and  *)
(* VerifyTarget is asked about players that exist.                         *)
THEOREM BestIsReturned == AimSpec => []TargetIsBest
  <1>1. ASSUME QInv, BInv PROVE TargetIsBest
    <2>1. target.id # NoId =>
            \E aim \in found :
              /\ aim.id = target.id /\ aim.fov = target.fov
              /\ ~refused => aim.tick = [future |-> target.future, backTick |-> target.backTick]
      BY <1>1 DEF BInv, TargetFound
    <2>2. ASSUME pc = "collect", u < o, Asks PROVE targetPlayers # NoTick /\ target.id # NoId
      <3>1. u \in DataElements /\ Fresh(u)
        BY <1>1, <2>2, QNumbers, AimFacts DEF Fresh
      <3>2. ~inFuture /\ data[u].target.id # NoId /\ data[u].target.fov >= lowestFov
        BY <2>2 DEF Asks
      <3>3. data[u].target.fov # NoFov
        BY <1>1, <3>1, <3>2 DEF BInv, FreshFits
      <3>4. data[u].target.fov \in 1 .. MaxFov
        <4>1. PICK aim \in found : aim.fov = data[u].target.fov
          BY <1>1, <3>1, <3>2, <3>3 DEF BInv, FreshFound
        <4> QED
          BY <1>1, <4>1, Fovs
      <3>5. lowestFov # FirstLowest
        BY <3>2, <3>4, AimFacts
      <3> QED
        BY <1>1, <3>5 DEF BInv, TargetFound
    <2>3. ASSUME pc = "idle", ~refused, NEW aim \in found PROVE target.fov <= aim.fov
      <3>1. \A e \in DataElements : ~Fresh(e)
        BY <1>1, <2>3, Fovs DEF Fresh, QInv, PostsCounted
      <3>2. lowestFov <= aim.fov
        BY <1>1, <2>3, <3>1 DEF BInv, BestSoFar
      <3>3. lowestFov # FirstLowest
        BY <1>1, <3>2, Fovs, AimFacts
      <3> QED
        BY <1>1, <3>2, <3>3 DEF BInv, TargetFound
    <2> QED
      BY <2>1, <2>2, <2>3 DEF TargetIsBest
  <1> QED
    BY <1>1, QAlways, BAlways, PTL

=============================================================================
