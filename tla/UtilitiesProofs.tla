-------------------------- MODULE UtilitiesProofs --------------------------
(***************************************************************************)
(* Components of src/utils that stand alone: the ring of HistoryList, the  *)
(* list of libraries behind GetModuleHandle, which threads read without    *)
(* its lock, the offset pointers that several processes share, the tables  *)
(* that hooks are stacked on, the arrays of Players, the blocks of MD5,    *)
(* the order and accounts of Scheduler, the operations of patterns; and    *)
(* the vectors of src/math.                                                *)
(***************************************************************************)
EXTENDS HistoryList, Handles, OffsetPointer, VFuncHook, Players, MD5, Scheduler,
        Vectors, PatternScan, Recursion, SequenceTheorems

-----------------------------------------------------------------------------
(* HistoryList                                                             *)

AllItems == Items \union {Default}

(* Where the k-th push puts its item.                                      *)
Slot(k) == k % C

(* Slot k % C holds the k-th item pushed, unless a later push took it.     *)
HInv ==
    /\ counter \in 0 .. MaxCounter /\ peak \in counter .. MaxCounter
    /\ list \in [0 .. C - 1 -> AllItems]
    /\ pushed \in Seq(AllItems) /\ Len(pushed) = counter
    /\ \A k \in 1 .. counter : k > peak - C => list[Slot(k)] = pushed[k]

(* What HistoryListAssumption says of numbers.                             *)
LEMMA HistoryFacts ==
    /\ C \in Nat \ {0} /\ C >= 1 /\ MaxCounter \in Nat
    /\ \A k \in Int : Slot(k) \in 0 .. C - 1
  BY HistoryListAssumption DEF HistoryListAssumption, Slot

(* Items less than C pushes apart have slots of their own.                 *)
LEMMA SlotsApart ==
    ASSUME NEW j \in Int, NEW k \in Int, j < k, k < j + C
    PROVE  Slot(j) # Slot(k)
  BY RestsApart, HistoryListAssumption DEF HistoryListAssumption, Slot

(* A new item takes the slot of the one C pushes before,                   *)
LEMMA HPlace == ASSUME NEW item \in AllItems PROVE HInv /\ Place(item) => HInv'
  <1> SUFFICES ASSUME HInv, Place(item) PROVE HInv'
    OBVIOUS
  <1>1. /\ counter \in Nat /\ counter < MaxCounter /\ counter' = counter + 1 /\ MaxCounter \in Nat
        /\ peak \in Nat /\ counter <= peak /\ peak <= MaxCounter
        /\ peak' = (IF counter + 1 > peak THEN counter + 1 ELSE peak)
    BY HistoryFacts DEF HInv, Place
  <1>2. counter' \in 0 .. MaxCounter /\ peak' \in counter' .. MaxCounter /\ peak <= peak'
    BY <1>1
  <1> DEFINE n == counter + 1
  <1>3. Slot(n) \in 0 .. C - 1
    BY <1>1, HistoryFacts
  <1>4. /\ list' = [list EXCEPT ![Slot(n)] = item] /\ list \in [0 .. C - 1 -> AllItems]
        /\ list' \in [0 .. C - 1 -> AllItems]
    BY DEF Place, HInv, Slot
  <1>5. /\ pushed' \in Seq(AllItems) /\ Len(pushed') = n /\ pushed'[n] = item
        /\ \A k \in 1 .. counter : pushed'[k] = pushed[k]
    BY AppendProperties DEF HInv, Place
  <1>6. ASSUME NEW k \in 1 .. n, k > peak' - C PROVE list'[Slot(k)] = pushed'[k]
    <2>1. Slot(k) \in 0 .. C - 1
      BY HistoryFacts
    <2>2. CASE k = n
      BY <1>3, <1>4, <1>5, <2>2
    <2>3. CASE k # n
      <3>1. k \in 1 .. counter /\ k < n /\ n < k + C /\ k > peak - C
        BY <1>1, <1>2, <1>6, <2>3, HistoryFacts
      <3>2. Slot(k) # Slot(n)
        BY <1>1, <3>1, SlotsApart, HistoryFacts
      <3>3. list[Slot(k)] = pushed[k]
        BY <3>1 DEF HInv
      <3> HIDE DEF n
      <3> QED
        BY <1>3, <1>4, <1>5, <2>1, <3>1, <3>2, <3>3
    <2> QED
      BY <2>2, <2>3
  <1> QED
    BY <1>1, <1>2, <1>4, <1>5, <1>6 DEF HInv

(* an item that is filled in its own,                                      *)
LEMMA HFillIn ==
    ASSUME NEW id \in 0 .. C - 1, NEW item \in Items
    PROVE  HInv /\ FillIn(id, item) => HInv'
  <1> SUFFICES ASSUME HInv, FillIn(id, item) PROVE HInv'
    OBVIOUS
  <1> DEFINE n == counter - id
  <1>1. /\ counter \in Nat /\ peak \in Nat /\ counter <= peak /\ id \in Nat /\ id < counter /\ id < C
        /\ counter' = counter /\ peak' = peak
    BY HistoryFacts DEF HInv, FillIn, Count
  <1>2. n \in 1 .. counter /\ n \in Int /\ counter < n + C
    BY <1>1, HistoryFacts
  <1>3. Slot(n) \in 0 .. C - 1
    BY <1>2, HistoryFacts
  <1>4. /\ list' = [list EXCEPT ![Slot(n)] = item] /\ list \in [0 .. C - 1 -> AllItems]
        /\ item \in AllItems
    BY DEF FillIn, LastIdx, HInv, AllItems, Slot
  <1>5. pushed' = [pushed EXCEPT ![n] = item] /\ pushed \in Seq(AllItems) /\ Len(pushed) = counter
    BY DEF FillIn, HInv
  <1> HIDE DEF n
  <1>6. list' \in [0 .. C - 1 -> AllItems]
    BY <1>3, <1>4
  <1>7. /\ pushed' \in Seq(AllItems) /\ Len(pushed') = counter /\ pushed'[n] = item
        /\ \A k \in 1 .. counter : k # n => pushed'[k] = pushed[k]
    BY <1>2, <1>4, <1>5, ExceptSeq
  <1>8. ASSUME NEW k \in 1 .. counter, k > peak - C PROVE list'[Slot(k)] = pushed'[k]
    <2>1. Slot(k) \in 0 .. C - 1 /\ list[Slot(k)] = pushed[k]
      <3>1. k \in Int
        BY <1>1
      <3> QED
        BY <1>8, <3>1, HistoryFacts DEF HInv
    <2>2. CASE k = n
      BY <1>3, <1>4, <1>7, <2>2
    <2>3. CASE k < n
      <3>1. n < k + C
        BY <1>1, <1>2, <1>8, HistoryFacts
      <3>2. Slot(k) # Slot(n)
        BY <1>2, <2>3, <3>1, SlotsApart, HistoryFacts
      <3> QED
        BY <1>2, <1>3, <1>4, <1>7, <2>1, <2>3, <3>2
    <2>4. CASE n < k
      <3>1. k < n + C
        BY <1>1, <1>2, HistoryFacts
      <3>2. Slot(n) # Slot(k)
        BY <1>2, <2>4, <3>1, SlotsApart, HistoryFacts
      <3> QED
        BY <1>2, <1>3, <1>4, <1>7, <2>1, <2>4, <3>2
    <2> QED
      BY <1>2, <2>2, <2>3, <2>4
  <1> QED
    BY <1>1, <1>6, <1>7, <1>8 DEF HInv

(* and a push that is undone leaves its item in the slot.                  *)
LEMMA HUndo == HInv /\ UndoPush => HInv'
  <1> SUFFICES ASSUME HInv, UndoPush PROVE HInv'
    OBVIOUS
  <1>1. /\ counter \in Nat /\ counter > 0 /\ counter' = counter - 1 /\ MaxCounter \in Nat
        /\ counter <= MaxCounter
        /\ peak' = peak /\ peak \in counter .. MaxCounter /\ list' = list
        /\ pushed' = SubSeq(pushed, 1, counter - 1)
    BY HistoryFacts DEF HInv, UndoPush
  <1>2. \A k \in 1 .. counter - 1 : pushed[k] \in AllItems
    BY <1>1, ElementOfSeq DEF HInv
  <1>3. /\ pushed' \in Seq(AllItems)
        /\ Len(pushed') = IF 1 <= counter - 1 THEN counter - 1 - 1 + 1 ELSE 0
        /\ \A k \in 1 .. counter - 1 - 1 + 1 : pushed'[k] = pushed[1 + k - 1]
    BY <1>1, <1>2, SubSeqProperties
  <1>4. Len(pushed') = counter' /\ \A k \in 1 .. counter' : pushed'[k] = pushed[k]
    BY <1>1, <1>3
  <1>5. counter' \in 0 .. MaxCounter /\ peak' \in counter' .. MaxCounter
    BY <1>1
  <1>6. list' \in [0 .. C - 1 -> AllItems]
    BY <1>1, Zenon DEF HInv
  <1>7. ASSUME NEW k \in 1 .. counter', k > peak' - C PROVE list'[Slot(k)] = pushed'[k]
    <2>1. k \in 1 .. counter /\ k > peak - C
      BY <1>1, <1>7
    <2>2. list[Slot(k)] = pushed[k]
      BY <2>1, Zenon DEF HInv
    <2> QED
      BY <1>1, <1>4, <1>7, <2>2, Zenon
  <1> QED
    BY <1>3, <1>4, <1>5, <1>6, <1>7, Zenon DEF HInv

(* The ring holds what it promises always.                                 *)
LEMMA HAlways == HistorySpec => []HInv
  <1>1. HistoryInit => HInv
    BY HistoryFacts, EmptySeq DEF HistoryInit, HInv, AllItems
  <1>2. HInv /\ [HistoryNext]_historyVars => HInv'
    <2>1. ASSUME HInv, UNCHANGED historyVars PROVE HInv'
      BY <2>1 DEF HInv, historyVars
    <2>2. ASSUME HInv, ResetHistory PROVE HInv'
      BY <2>2, HistoryFacts, EmptySeq DEF HInv, ResetHistory
    <2>3. Default \in AllItems /\ \A item \in Items : item \in AllItems
      BY DEF AllItems
    <2>4. ASSUME HInv, HistoryNext PROVE HInv'
      BY <2>2, <2>3, <2>4, HPlace, HFillIn, HUndo DEF HistoryNext, PushNew, PushItem
    <2> QED
      BY <2>1, <2>4
  <1> QED
    BY <1>1, <1>2, PTL DEF HistorySpec

(* GetLastItem gives the items pushed, newest first, however far the ring  *)
(* went round, as far as no push that was undone took their slots.         *)
THEOREM RingKeepsTheLast == HistorySpec => []KeepsTheLast
  <1>1. HInv => KeepsTheLast
    <2> SUFFICES ASSUME HInv, NEW id \in 0 .. Count - 1, counter - id > peak - C
                 PROVE  GetLastItem(id) = pushed[counter - id]
      BY DEF KeepsTheLast, HInv
    <2>1. counter - id \in 1 .. counter
      BY HistoryFacts DEF HInv, Count
    <2> QED
      BY <2>1 DEF HInv, GetLastItem, LastIdx, Slot
  <1> QED
    BY <1>1, HAlways, PTL

-----------------------------------------------------------------------------
(* Handles                                                                 *)

Modules == Names \union {CHOOSE n \in Names : TRUE}

Lookups == [at : {"out", "lock", "iterate", "made", "scan"}, info : BOOLEAN, module : Modules,
            pos : Nat, bestMatch : Libraries \union {NoLibrary}, lendist : 0 .. Far]

LookupTypes ==
    /\ loaded \in Seq(Libraries) /\ snapshot \in Seq(Libraries) /\ libraries \in Seq(Libraries)
    /\ lookup \in [Threads -> Lookups]

(* Who holds the lock: GetModuleInfo also while it looks through the list. *)
Holds(t) ==
    \/ lookup[t].at \in {"iterate", "made"}
    \/ lookup[t].at = "scan" /\ lookup[t].info

(* Best of the first libraries of a list.                                  *)
BestUpTo(me, s) ==
    /\ me.pos <= Len(s)
    /\ \A n \in 1 .. me.pos : me.module \in DOMAIN s[n] => me.lendist <= s[n][me.module]
    /\ me.lendist # Far =>
          \E n \in 1 .. me.pos : me.module \in DOMAIN s[n] /\ me.lendist = s[n][me.module]
    /\ me.bestMatch # NoLibrary => me.module \in DOMAIN me.bestMatch /\ me.bestMatch[me.module] = me.lendist
    /\ me.bestMatch = NoLibrary => me.lendist = Far

(* What a thread relies on where it is: that the list it looks through is  *)
(* the loader's, made before and as long as that one was.                  *)
ThreadFits(t) ==
    /\ Holds(t) => lInfoLock = {t}
    /\ lookup[t].at # "out" => loaded # <<>>
    /\ lookup[t].at \in {"lock", "iterate", "made"} =>
          lookup[t].pos = 0 /\ lookup[t].bestMatch = NoLibrary /\ lookup[t].lendist = Far
    /\ lookup[t].at = "iterate" => loaded = snapshot /\ Len(libraries) < Len(snapshot)
    /\ lookup[t].at \in {"made", "scan"} => libraries = snapshot /\ libraries # <<>>
    /\ lookup[t].at = "scan" => BestUpTo(lookup[t], snapshot)

(* The list is the first part of the loader's, all of it unless a thread   *)
(* makes it, or not made.                                                  *)
ListFits ==
    /\ \A n \in 1 .. Len(libraries) : n <= Len(snapshot) /\ libraries[n] = snapshot[n]
    /\ (\A t \in Threads : lookup[t].at # "iterate") => libraries = <<>> \/ libraries = snapshot

LInv == LookupTypes /\ ListFits /\ \A t \in Threads : ThreadFits(t)

(* The first lendist is a number.                                          *)
LEMMA FarFacts == Far \in Nat /\ Far >= 1 /\ Far \in 0 .. Far
  <1>1. Far = 1000000
    BY DEF Far
  <1>2. Far \in Nat /\ Far >= 1
    BY <1>1, SMT
  <1> QED
    BY <1>2

(* A number that is the least of a set.                                    *)
LEMMA LeastIsMin ==
    ASSUME NEW S \in SUBSET Int, NEW m \in S, \A k \in S : m <= k
    PROVE  Min(S) = m
  <1> DEFINE P(x) == \A y \in S : x =< y
  <1>1. \E x \in S : P(x)
    OBVIOUS
  <1>2. Min(S) \in S /\ P(Min(S))
    BY <1>1 DEF Min
  <1>3. Min(S) <= m /\ m <= Min(S) /\ Min(S) \in Int
    BY <1>2
  <1> QED
    BY <1>3

(* A thread that only goes on.                                             *)
LEMMA GoFields ==
    ASSUME LookupTypes, NEW t \in Threads,
           NEW next \in {"out", "lock", "iterate", "made", "scan"}, GoTo(t, next)
    PROVE  /\ lookup' \in [Threads -> Lookups]
           /\ lookup'[t].at = next /\ lookup'[t].info = lookup[t].info
           /\ lookup'[t].pos = lookup[t].pos /\ lookup'[t].module = lookup[t].module
           /\ lookup'[t].bestMatch = lookup[t].bestMatch /\ lookup'[t].lendist = lookup[t].lendist
           /\ \A s \in Threads \ {t} : lookup'[s] = lookup[s]
  <1>1. lookup \in [Threads -> Lookups] /\ lookup[t] \in Lookups
    BY DEF LookupTypes
  <1>2. lookup' = [lookup EXCEPT ![t] = [lookup[t] EXCEPT !.at = next]]
    BY DEF GoTo
  <1>3. [lookup[t] EXCEPT !.at = next] \in Lookups
    BY <1>1 DEF Lookups
  <1> QED
    BY <1>1, <1>2, <1>3 DEF Lookups

(* Threads a step does not move, when it changes no list.                  *)
LEMMA OthersFit ==
    ASSUME LInv, NEW s \in Threads, lookup'[s] = lookup[s],
           UNCHANGED <<loaded, snapshot, libraries>>, Holds(s) => lInfoLock' = {s}
    PROVE  ThreadFits(s)'
  BY DEF LInv, ThreadFits, Holds

(* A library is loaded: no list is being made.                             *)
LEMMA LLoad == ASSUME NEW l \in Libraries PROVE LInv /\ LoadLibrary(l) => LInv'
  <1> SUFFICES ASSUME LInv, LoadLibrary(l) PROVE LInv'
    OBVIOUS
  <1>1. /\ \A t \in Threads : lookup[t].at # "iterate"
        /\ UNCHANGED <<snapshot, libraries, lInfoLock, lookup>>
        /\ loaded \in Seq(Libraries) /\ loaded' = Append(loaded, l)
    BY DEF LoadLibrary, LInv, LookupTypes
  <1>2. loaded' \in Seq(Libraries) /\ loaded' # <<>>
    BY <1>1, AppendProperties
  <1>3. LookupTypes' /\ ListFits'
    BY <1>1, <1>2 DEF LInv, LookupTypes, ListFits
  <1>4. \A t \in Threads : ThreadFits(t)'
    BY <1>1, <1>2 DEF LInv, ThreadFits, Holds
  <1> QED
    BY <1>3, <1>4 DEF LInv

(* A lookup begins,                                                        *)
LEMMA LEnter ==
    ASSUME NEW t \in Threads, NEW info \in BOOLEAN, NEW module \in Names
    PROVE  LInv /\ Enter(t, info, module) => LInv'
  <1> SUFFICES ASSUME LInv, Enter(t, info, module) PROVE LInv'
    OBVIOUS
  <1>1. /\ lookup \in [Threads -> Lookups] /\ lookup[t].at = "out" /\ loaded # <<>>
        /\ lookup' = [lookup EXCEPT ![t] = Start(info, module)]
        /\ UNCHANGED <<loaded, snapshot, libraries, lInfoLock>>
    BY DEF Enter, LInv, LookupTypes
  <1>2. Start(info, module) \in Lookups
    BY FarFacts DEF Start, Lookups, Modules
  <1>3. /\ lookup' \in [Threads -> Lookups] /\ lookup'[t] = Start(info, module)
        /\ \A s \in Threads \ {t} : lookup'[s] = lookup[s]
    BY <1>1, <1>2
  <1>4. ThreadFits(t)'
    BY <1>1, <1>3 DEF ThreadFits, Holds, Start
  <1>5. \A s \in Threads \ {t} : ThreadFits(s)'
    BY <1>1, <1>3, OthersFit DEF LInv, ThreadFits
  <1>6. \A s \in Threads : lookup'[s].at = "iterate" <=> lookup[s].at = "iterate"
    BY <1>1, <1>3 DEF Start
  <1> QED
    BY <1>1, <1>3, <1>4, <1>5, <1>6 DEF LInv, LookupTypes, ListFits

(* takes the lock, and finds that the list is to be made or was,           *)
LEMMA LTake == ASSUME NEW t \in Threads PROVE LInv /\ TakeLock(t) => LInv'
  <1> SUFFICES ASSUME LInv, TakeLock(t) PROVE LInv'
    OBVIOUS
  <1>1. /\ lookup[t].at = "lock" /\ lInfoLock = {} /\ lInfoLock' = {t} /\ loaded # <<>>
        /\ UNCHANGED <<loaded, libraries>> /\ LookupTypes
    BY DEF TakeLock, LInv, ThreadFits
  <1>2. \A s \in Threads : ~Holds(s)
    BY <1>1 DEF LInv, ThreadFits
  <1>3. \A s \in Threads : lookup[s].at # "iterate"
    BY <1>2 DEF Holds
  <1>4. CASE libraries = <<>>
    <2>1. GoTo(t, "iterate") /\ snapshot' = loaded
      BY <1>4 DEF TakeLock
    <2>2. /\ lookup' \in [Threads -> Lookups] /\ lookup'[t].at = "iterate"
          /\ lookup'[t].pos = lookup[t].pos
          /\ lookup'[t].bestMatch = lookup[t].bestMatch /\ lookup'[t].lendist = lookup[t].lendist
          /\ \A s \in Threads \ {t} : lookup'[s] = lookup[s]
      BY <1>1, <2>1, GoFields
    <2>3. Len(libraries) = 0 /\ Len(loaded) \in Nat /\ Len(loaded) # 0
      BY <1>1, <1>4, LenProperties, EmptySeq DEF LookupTypes
    <2>4. ThreadFits(t)'
      BY <1>1, <2>1, <2>2, <2>3 DEF ThreadFits, Holds, LInv
    <2>5. \A s \in Threads \ {t} : ThreadFits(s)'
      <3> SUFFICES ASSUME NEW s \in Threads \ {t} PROVE ThreadFits(s)'
        OBVIOUS
      <3>1. ThreadFits(s) /\ lookup'[s] = lookup[s] /\ ~Holds(s)
        BY <1>2, <2>2 DEF LInv
      <3>2. lookup[s].at \in {"out", "lock"}
        <4>1. lookup[s] \in Lookups
          BY <1>1 DEF LookupTypes
        <4>2. lookup[s].at # "scan"
          BY <1>4, <3>1 DEF ThreadFits
        <4> QED
          BY <3>1, <4>1, <4>2 DEF Holds, Lookups
      <3> QED
        BY <1>1, <3>1, <3>2 DEF ThreadFits, Holds
    <2>6. LookupTypes' /\ ListFits'
      BY <1>1, <1>4, <2>1, <2>2, <2>3 DEF LookupTypes, ListFits
    <2> QED
      BY <2>4, <2>5, <2>6 DEF LInv
  <1>5. CASE libraries # <<>>
    <2>1. GoTo(t, "made") /\ snapshot' = snapshot
      BY <1>5 DEF TakeLock
    <2>2. /\ lookup' \in [Threads -> Lookups] /\ lookup'[t].at = "made"
          /\ lookup'[t].pos = lookup[t].pos
          /\ lookup'[t].bestMatch = lookup[t].bestMatch /\ lookup'[t].lendist = lookup[t].lendist
          /\ \A s \in Threads \ {t} : lookup'[s] = lookup[s]
      BY <1>1, <2>1, GoFields
    <2>3. libraries = snapshot
      BY <1>3, <1>5 DEF LInv, ListFits
    <2>4. ThreadFits(t)'
      BY <1>1, <1>5, <2>1, <2>2, <2>3 DEF ThreadFits, Holds, LInv
    <2>5. \A s \in Threads \ {t} : ThreadFits(s)'
      BY <1>1, <1>2, <2>1, <2>2, OthersFit
    <2>6. LookupTypes' /\ ListFits'
      BY <1>1, <2>1, <2>2, <2>3 DEF LookupTypes, ListFits, LInv
    <2> QED
      BY <2>4, <2>5, <2>6 DEF LInv
  <1> QED
    BY <1>4, <1>5

(* makes it,                                                               *)
LEMMA LIterate == ASSUME NEW t \in Threads PROVE LInv /\ DlIterateCallback(t) => LInv'
  <1> SUFFICES ASSUME LInv, DlIterateCallback(t) PROVE LInv'
    OBVIOUS
  <1> DEFINE n == Len(libraries)
  <1>1. /\ lookup[t].at = "iterate" /\ lInfoLock = {t} /\ loaded = snapshot /\ n < Len(snapshot)
        /\ UNCHANGED <<loaded, snapshot, lInfoLock>> /\ LookupTypes
        /\ libraries' = Append(libraries, snapshot[n + 1])
        /\ IF Len(libraries') = Len(snapshot) THEN GoTo(t, "made") ELSE UNCHANGED lookup
    BY DEF DlIterateCallback, LInv, ThreadFits, Holds
  <1>2. /\ libraries \in Seq(Libraries) /\ snapshot \in Seq(Libraries)
        /\ n \in Nat /\ Len(snapshot) \in Nat /\ n + 1 \in 1 .. Len(snapshot)
        /\ snapshot[n + 1] \in Libraries
    BY <1>1, LenProperties, ElementOfSeq DEF LookupTypes
  <1>3. /\ libraries' \in Seq(Libraries) /\ Len(libraries') = n + 1
        /\ libraries'[n + 1] = snapshot[n + 1]
        /\ \A k \in 1 .. n : libraries'[k] = libraries[k]
        /\ libraries' # <<>>
    BY <1>1, <1>2, AppendProperties
  <1>4. \A k \in 1 .. n : libraries[k] = snapshot[k]
    BY DEF LInv, ListFits
  <1> HIDE DEF n
  <1>5. \A k \in 1 .. Len(libraries') : k <= Len(snapshot') /\ libraries'[k] = snapshot'[k]
    <2>1. \A k \in 1 .. n + 1 : k \in 1 .. n \/ k = n + 1
      BY <1>2
    <2> QED
      BY <1>1, <1>2, <1>3, <1>4, <2>1
  <1>6. \A s \in Threads \ {t} : lookup[s].at \notin {"iterate", "made", "scan"}
    <2> SUFFICES ASSUME NEW s \in Threads \ {t} PROVE lookup[s].at \notin {"iterate", "made", "scan"}
      OBVIOUS
    <2>1. ThreadFits(s)
      BY DEF LInv
    <2>2. lookup[s].at # "iterate"
      BY <1>1, <2>1 DEF ThreadFits, Holds
    <2>3. libraries # snapshot
      BY <1>1, <1>2 DEF n
    <2> QED
      BY <2>1, <2>2, <2>3 DEF ThreadFits
  <1>7. CASE Len(libraries') = Len(snapshot)
    <2>1. /\ lookup' \in [Threads -> Lookups] /\ lookup'[t].at = "made"
          /\ lookup'[t].pos = lookup[t].pos
          /\ lookup'[t].bestMatch = lookup[t].bestMatch /\ lookup'[t].lendist = lookup[t].lendist
          /\ \A s \in Threads \ {t} : lookup'[s] = lookup[s]
      BY <1>1, <1>7, GoFields
    <2>2. libraries' = snapshot'
      BY <1>1, <1>2, <1>3, <1>5, <1>7, SeqEqual
    <2>3. ThreadFits(t)'
      BY <1>1, <1>3, <2>1, <2>2 DEF ThreadFits, Holds, LInv
    <2>4. \A s \in Threads \ {t} : ThreadFits(s)'
      BY <1>1, <1>6, <2>1 DEF ThreadFits, Holds, LInv
    <2>5. LookupTypes' /\ ListFits'
      BY <1>1, <1>2, <1>3, <1>5, <2>1, <2>2 DEF LookupTypes, ListFits
    <2> QED
      BY <2>3, <2>4, <2>5 DEF LInv
  <1>8. CASE Len(libraries') # Len(snapshot)
    <2>1. lookup' = lookup
      BY <1>1, <1>8
    <2>2. Len(libraries') < Len(snapshot)
      BY <1>2, <1>3, <1>8
    <2>3. ThreadFits(t)'
      BY <1>1, <2>1, <2>2 DEF ThreadFits, Holds, LInv
    <2>4. \A s \in Threads \ {t} : ThreadFits(s)'
      BY <1>1, <1>6, <2>1 DEF ThreadFits, Holds, LInv
    <2>5. LookupTypes' /\ ListFits'
      BY <1>1, <1>2, <1>3, <1>5, <2>1 DEF LookupTypes, ListFits
    <2> QED
      BY <2>3, <2>4, <2>5 DEF LInv
  <1> QED
    BY <1>7, <1>8

(* goes on to look through it, GetModuleHandle without the lock,           *)
LEMMA LMade == ASSUME NEW t \in Threads PROVE LInv /\ ListMade(t) => LInv'
  <1> SUFFICES ASSUME LInv, ListMade(t) PROVE LInv'
    OBVIOUS
  <1>1. /\ lookup[t].at = "made" /\ lInfoLock = {t} /\ GoTo(t, "scan") /\ LookupTypes
        /\ lInfoLock' = (IF lookup[t].info THEN lInfoLock ELSE {})
        /\ UNCHANGED <<loaded, snapshot, libraries>>
    BY DEF ListMade, LInv, ThreadFits, Holds
  <1>2. /\ lookup' \in [Threads -> Lookups] /\ lookup'[t].at = "scan"
        /\ lookup'[t].info = lookup[t].info
        /\ lookup'[t].pos = 0 /\ lookup'[t].bestMatch = NoLibrary /\ lookup'[t].lendist = Far
        /\ \A s \in Threads \ {t} : lookup'[s] = lookup[s]
    BY <1>1, GoFields DEF LInv, ThreadFits
  <1>3. \A s \in Threads \ {t} : ~Holds(s)
    BY <1>1 DEF LInv, ThreadFits
  <1>4. BestUpTo(lookup[t], snapshot)'
    <2>1. Len(snapshot) \in Nat
      BY <1>1, LenProperties DEF LookupTypes
    <2> QED
      BY <1>1, <1>2, <2>1 DEF BestUpTo
  <1>5. ThreadFits(t)'
    BY <1>1, <1>2, <1>4 DEF ThreadFits, Holds, LInv
  <1>6. \A s \in Threads \ {t} : ThreadFits(s)'
    BY <1>1, <1>2, <1>3, OthersFit
  <1>7. LookupTypes' /\ ListFits'
    BY <1>1, <1>2 DEF LookupTypes, ListFits, LInv, ThreadFits
  <1> QED
    BY <1>5, <1>6, <1>7 DEF LInv

(* compares a library                                                      *)
LEMMA LScan == ASSUME NEW t \in Threads PROVE LInv /\ Scan(t) => LInv'
  <1> SUFFICES ASSUME LInv, Scan(t) PROVE LInv'
    OBVIOUS
  <1> DEFINE me == lookup[t]
             i == libraries[me.pos + 1]
             nearer == me.module \in DOMAIN i /\ i[me.module] < me.lendist
             new == [me EXCEPT !.pos = me.pos + 1,
                               !.bestMatch = IF nearer THEN i ELSE me.bestMatch,
                               !.lendist = IF nearer THEN i[me.module] ELSE me.lendist]
  <1>1. /\ me.at = "scan" /\ me.pos < Len(libraries) /\ libraries = snapshot
        /\ me \in Lookups /\ me.pos \in Nat /\ BestUpTo(me, snapshot)
        /\ UNCHANGED <<loaded, snapshot, libraries, lInfoLock>>
        /\ lookup \in [Threads -> Lookups] /\ LookupTypes
    BY DEF Scan, LInv, ThreadFits, LookupTypes, Lookups
  <1>2. lookup' = [lookup EXCEPT ![t] = new]
    BY <1>1 DEF Scan, Lookups
  <1>3. /\ i \in Libraries /\ i = snapshot[me.pos + 1] /\ me.pos + 1 \in 1 .. Len(snapshot)
        /\ Len(snapshot) \in Nat /\ i # NoLibrary
        /\ me.module \in DOMAIN i => i[me.module] \in 0 .. Far - 1
    <2>1. Len(snapshot) \in Nat /\ snapshot \in Seq(Libraries)
      BY <1>1, LenProperties DEF LookupTypes
    <2>2. me.pos + 1 \in 1 .. Len(snapshot)
      BY <1>1, <2>1
    <2>3. i \in Libraries
      BY <1>1, <2>1, <2>2, ElementOfSeq
    <2> QED
      BY <1>1, <2>1, <2>2, <2>3, HandlesAssumption DEF HandlesAssumption
  <1>4. /\ me.lendist \in 0 .. Far /\ Far \in Nat
        /\ new.at = "scan" /\ new.info = me.info /\ new.module = me.module
        /\ new.pos = me.pos + 1
        /\ new.bestMatch = IF nearer THEN i ELSE me.bestMatch
        /\ new.lendist = IF nearer THEN i[me.module] ELSE me.lendist
        /\ new \in Lookups
    <2>1. me.lendist \in 0 .. Far /\ Far \in Nat /\ me.bestMatch \in Libraries \union {NoLibrary}
      BY <1>1, FarFacts DEF Lookups
    <2>2. (IF nearer THEN i[me.module] ELSE me.lendist) \in 0 .. Far
      BY <1>3, <2>1
    <2>3. (IF nearer THEN i ELSE me.bestMatch) \in Libraries \union {NoLibrary}
      BY <1>3, <2>1
    <2>4. me.pos + 1 \in Nat
      BY <1>1
    <2> HIDE DEF nearer, i
    <2> QED
      BY <1>1, <2>1, <2>2, <2>3, <2>4 DEF Lookups
  <1> HIDE DEF new
  <1>5. BestUpTo(new, snapshot)
    <2>1. \A k \in 1 .. me.pos + 1 : k \in 1 .. me.pos \/ k = me.pos + 1
      BY <1>1
    <2>2. \A k \in 1 .. me.pos + 1 : me.module \in DOMAIN snapshot[k] =>
              snapshot[k] \in Libraries /\ snapshot[k][me.module] \in Int
      <3> SUFFICES ASSUME NEW k \in 1 .. me.pos + 1, me.module \in DOMAIN snapshot[k]
                   PROVE  snapshot[k] \in Libraries /\ snapshot[k][me.module] \in Int
        OBVIOUS
      <3>1. k \in 1 .. Len(snapshot)
        BY <1>1, <1>3
      <3>2. snapshot[k] \in Libraries
        BY <1>1, <3>1, ElementOfSeq DEF LookupTypes
      <3> QED
        BY <3>2, HandlesAssumption DEF HandlesAssumption
    <2>3. CASE nearer
      <3>1. /\ new.lendist = i[me.module] /\ new.bestMatch = i /\ i[me.module] < me.lendist
            /\ me.module \in DOMAIN i /\ new.module = me.module /\ new.pos = me.pos + 1
            /\ i[me.module] \in Int
        BY <1>3, <1>4, <2>3
      <3>2. \A k \in 1 .. new.pos : me.module \in DOMAIN snapshot[k] => new.lendist <= snapshot[k][me.module]
        <4> SUFFICES ASSUME NEW k \in 1 .. me.pos + 1, me.module \in DOMAIN snapshot[k]
                     PROVE  i[me.module] <= snapshot[k][me.module]
          BY <3>1
        <4>1. CASE k = me.pos + 1
          BY <1>3, <3>1, <4>1
        <4>2. CASE k \in 1 .. me.pos
          <5>1. me.lendist <= snapshot[k][me.module]
            BY <1>1, <4>2 DEF BestUpTo
          <5>2. snapshot[k][me.module] \in Int
            BY <2>2
          <5> HIDE DEF me, i
          <5> QED
            BY <1>4, <3>1, <5>1, <5>2
        <4> QED
          BY <2>1, <4>1, <4>2
      <3>3. /\ new.pos \in 1 .. new.pos /\ me.module \in DOMAIN snapshot[new.pos]
            /\ new.lendist = snapshot[new.pos][me.module]
        BY <1>1, <1>3, <3>1
      <3> HIDE DEF me, i
      <3> QED
        BY <1>3, <3>1, <3>2, <3>3 DEF BestUpTo
    <2>4. CASE ~nearer
      <3>1. /\ new.lendist = me.lendist /\ new.bestMatch = me.bestMatch
            /\ me.module \in DOMAIN i => me.lendist <= i[me.module]
            /\ new.module = me.module /\ new.pos = me.pos + 1
        BY <1>3, <1>4, <2>4
      <3>2. \A k \in 1 .. new.pos : me.module \in DOMAIN snapshot[k] => new.lendist <= snapshot[k][me.module]
        BY <1>1, <1>3, <1>4, <2>1, <2>2, <3>1 DEF BestUpTo
      <3>3. \A k \in 1 .. me.pos : k \in 1 .. new.pos
        BY <1>1, <3>1
      <3> HIDE DEF me, i
      <3> QED
        BY <1>1, <1>3, <3>1, <3>2, <3>3 DEF BestUpTo
    <2> QED
      BY <2>3, <2>4
  <1>6. /\ lookup'[t] = new /\ lookup' \in [Threads -> Lookups]
        /\ \A s \in Threads \ {t} : lookup'[s] = lookup[s]
    BY <1>1, <1>2, <1>4
  <1>7. ThreadFits(t)'
    BY <1>1, <1>4, <1>5, <1>6 DEF ThreadFits, Holds, LInv
  <1>8. \A s \in Threads \ {t} : ThreadFits(s)'
    BY <1>1, <1>6, OthersFit DEF LInv, ThreadFits
  <1>9. LookupTypes' /\ ListFits'
    <2>1. libraries = snapshot
      BY <1>1
    <2> QED
      BY <1>1, <1>6, <2>1 DEF LookupTypes, ListFits, LInv
  <1> QED
    BY <1>7, <1>8, <1>9 DEF LInv

(* and leaves.                                                             *)
LEMMA LLeave == ASSUME NEW t \in Threads PROVE LInv /\ Leave(t) => LInv'
  <1> SUFFICES ASSUME LInv, Leave(t) PROVE LInv'
    OBVIOUS
  <1>1. /\ lookup[t].at = "scan" /\ GoTo(t, "out") /\ LookupTypes /\ libraries = snapshot
        /\ lInfoLock' = (IF lookup[t].info THEN {} ELSE lInfoLock)
        /\ lookup[t].info => lInfoLock = {t}
        /\ UNCHANGED <<loaded, snapshot, libraries>>
    BY DEF Leave, LInv, ThreadFits, Holds
  <1>2. /\ lookup' \in [Threads -> Lookups] /\ lookup'[t].at = "out"
        /\ \A s \in Threads \ {t} : lookup'[s] = lookup[s]
    BY <1>1, GoFields
  <1>3. ThreadFits(t)'
    BY <1>1, <1>2 DEF ThreadFits, Holds
  <1>4. \A s \in Threads \ {t} : Holds(s) => lInfoLock' = {s}
    BY <1>1 DEF LInv, ThreadFits
  <1>5. \A s \in Threads \ {t} : ThreadFits(s)'
    BY <1>1, <1>2, <1>4, OthersFit
  <1>6. LookupTypes' /\ ListFits'
    BY <1>1, <1>2 DEF LookupTypes, ListFits, LInv
  <1> QED
    BY <1>3, <1>5, <1>6 DEF LInv

(* Always.                                                                 *)
LEMMA LAlways == HandlesSpec => []LInv
  <1>1. HandlesInit => LInv
    <2> SUFFICES ASSUME HandlesInit PROVE LInv
      OBVIOUS
    <2> DEFINE m == CHOOSE n \in Names : TRUE
    <2>1. lookup = [t \in Threads |-> [Start(FALSE, m) EXCEPT !.at = "out"]]
      BY DEF HandlesInit
    <2>2. m \in Modules
      BY DEF Modules
    <2> HIDE DEF m
    <2>3. [Start(FALSE, m) EXCEPT !.at = "out"] \in Lookups
      BY <2>2, FarFacts DEF Start, Lookups
    <2>4. lookup \in [Threads -> Lookups] /\ \A t \in Threads : lookup[t].at = "out"
      BY <2>1, <2>3 DEF Start
    <2>5. LookupTypes
      BY <2>4, EmptySeq DEF HandlesInit, LookupTypes
    <2>6. ListFits
      BY EmptySeq DEF HandlesInit, ListFits
    <2>7. \A t \in Threads : ThreadFits(t)
      BY <2>4 DEF ThreadFits, Holds
    <2> QED
      BY <2>5, <2>6, <2>7 DEF LInv
  <1>2. LInv /\ [HandlesNext]_handleVars => LInv'
    <2>1. ASSUME LInv, UNCHANGED handleVars PROVE LInv'
      <3>1. LookupTypes' /\ ListFits'
        BY <2>1 DEF LInv, LookupTypes, ListFits, handleVars
      <3>2. \A t \in Threads : ThreadFits(t)'
        BY <2>1 DEF LInv, ThreadFits, Holds, handleVars
      <3> QED
        BY <3>1, <3>2 DEF LInv
    <2>2. ASSUME LInv, HandlesNext PROVE LInv'
      BY <2>2, LLoad, LEnter, LTake, LIterate, LMade, LScan, LLeave DEF HandlesNext
    <2> QED
      BY <2>1, <2>2
  <1> QED
    BY <1>1, <1>2, PTL DEF HandlesSpec

(* Every lookup sees all of a list that does not change any more, and ends *)
(* with the library whose name is nearest to what was looked for, for any  *)
(* number of threads and libraries and whenever libraries are loaded.      *)
THEOREM NearestIsFound == HandlesSpec => []LookupsSeeAll
  <1>1. LInv => LookupsSeeAll
    <2> SUFFICES ASSUME LInv, NEW t \in Threads, lookup[t].at = "scan"
                 PROVE  LET me == lookup[t]
                            seen == {n \in 1 .. me.pos : me.module \in DOMAIN snapshot[n]}
                            least == Min({snapshot[n][me.module] : n \in seen} \union {Far})
                        IN  /\ libraries = snapshot
                            /\ me.lendist = least
                            /\ me.bestMatch # NoLibrary => me.bestMatch[me.module] = least
                            /\ me.lendist = 0 \/ me.pos = Len(libraries) =>
                                  \A n \in DOMAIN snapshot :
                                      me.module \in DOMAIN snapshot[n] =>
                                          me.bestMatch # NoLibrary /\ snapshot[n][me.module] >= least
      BY DEF LookupsSeeAll
    <2> DEFINE me == lookup[t]
               seen == {n \in 1 .. me.pos : me.module \in DOMAIN snapshot[n]}
               S == {snapshot[n][me.module] : n \in seen} \union {Far}
    <2>1. /\ libraries = snapshot /\ BestUpTo(me, snapshot) /\ me \in Lookups
          /\ snapshot \in Seq(Libraries) /\ Len(snapshot) \in Nat
          /\ DOMAIN snapshot = 1 .. Len(snapshot)
      BY LenProperties DEF LInv, ThreadFits, LookupTypes
    <2>2. me.pos \in Nat /\ me.pos <= Len(snapshot) /\ me.lendist \in 0 .. Far /\ Far \in Nat
      BY <2>1, FarFacts DEF BestUpTo, Lookups
    <2>3. \A n \in 1 .. Len(snapshot) : me.module \in DOMAIN snapshot[n] =>
              snapshot[n][me.module] \in 0 .. Far - 1
      BY <2>1, ElementOfSeq, HandlesAssumption DEF HandlesAssumption
    <2>4. \A n \in 1 .. me.pos : n \in 1 .. Len(snapshot)
      BY <2>1, <2>2
    <2>5. S \in SUBSET Int
      BY <2>2, <2>3, <2>4
    <2>6. me.lendist \in S
      BY <2>1 DEF BestUpTo
    <2>7. \A k \in S : me.lendist <= k
      BY <2>1, <2>2 DEF BestUpTo
    <2>8. Min(S) = me.lendist
      BY <2>5, <2>6, <2>7, LeastIsMin
    <2>9. ASSUME me.lendist = 0 \/ me.pos = Len(snapshot),
                 NEW n \in DOMAIN snapshot, me.module \in DOMAIN snapshot[n]
          PROVE  me.bestMatch # NoLibrary /\ snapshot[n][me.module] >= me.lendist
      <3>1. snapshot[n][me.module] \in 0 .. Far - 1
        BY <2>1, <2>3, <2>9
      <3>2. snapshot[n][me.module] >= me.lendist
        BY <2>1, <2>2, <2>9, <3>1 DEF BestUpTo
      <3>3. me.lendist # Far
        BY <2>2, <3>1, <3>2
      <3> QED
        BY <2>1, <3>2, <3>3 DEF BestUpTo
    <2>10. me.bestMatch # NoLibrary => me.bestMatch[me.module] = me.lendist
      BY <2>1 DEF BestUpTo
    <2> QED
      BY <2>1, <2>8, <2>9, <2>10
  <1> QED
    BY <1>1, LAlways, PTL

-----------------------------------------------------------------------------
(* OffsetPointer                                                           *)

(* Where an element is in the memory.                                      *)
PlaceOf(e) == e * ElementSize

(* The word a pointer to an element holds.                                 *)
WordOf(e) == IF e = NoElement THEN Null ELSE PlaceOf(e)

(* A pointer holds the place of its element, or the null word, and the     *)
(* allocator knows the elements in use by their places.                    *)
PInv ==
    /\ at \in [Pointers -> 0 .. Elements \union {NoElement}]
    /\ ptr \in [Pointers -> Addresses]
    /\ \A x \in Pointers : ptr[x] = WordOf(at[x])
    /\ held \subseteq 0 .. Elements - 1
    /\ inUse = {PlaceOf(e) : e \in held}

(* The memory lies below the sign bit, in every process above zero.        *)
LEMMA MemoryFits ==
    /\ AddressSpace \in Nat \ {0} /\ SignBit \in Nat /\ AddressSpace = 2 * SignBit
    /\ Null \in Addresses /\ Null \in Nat /\ NoElement = -1
    /\ ElementSize \in Nat \ {0} /\ Elements \in Nat
    /\ \A e \in 0 .. Elements :
          /\ PlaceOf(e) \in Nat /\ PlaceOf(e) < SignBit /\ PlaceOf(e) # Null
          /\ PlaceOf(e) \in Addresses
          /\ \A p \in Processes :
                /\ BaseOf[p] \in Nat /\ BaseOf[p] >= 1 /\ BaseOf[p] < AddressSpace
                /\ BaseOf[p] + PlaceOf(e) \in 1 .. AddressSpace - 1
  <1>1. /\ AddressSpace \in Nat /\ ElementSize \in Nat \ {0} /\ Elements \in Nat
        /\ AddressSpace = 2 * SignBit /\ Elements * ElementSize < SignBit
        /\ BaseOf \in [Processes -> Addresses \ {0}]
        /\ \A p \in Processes : BaseOf[p] + Elements * ElementSize < AddressSpace
    BY OffsetPointerAssumption DEF OffsetPointerAssumption
  <1>2. SignBit \in Int
    BY <1>1 DEF SignBit
  <1>3. Elements * ElementSize \in Nat
    BY <1>1
  <1>4. SignBit \in Nat /\ SignBit >= 1 /\ Null = AddressSpace - 1 /\ Null >= SignBit
    BY <1>1, <1>2, <1>3 DEF Null
  <1>5. ASSUME NEW e \in 0 .. Elements
        PROVE  PlaceOf(e) \in Nat /\ PlaceOf(e) <= Elements * ElementSize
    BY <1>1 DEF PlaceOf
  <1>6. ASSUME NEW p \in Processes
        PROVE  BaseOf[p] \in Nat /\ BaseOf[p] >= 1 /\ BaseOf[p] < AddressSpace
    BY <1>1 DEF Addresses
  <1>7. ASSUME NEW e \in 0 .. Elements, NEW p \in Processes
        PROVE  BaseOf[p] + PlaceOf(e) \in 1 .. AddressSpace - 1
    <2>1. BaseOf[p] + Elements * ElementSize < AddressSpace
      BY <1>1
    <2> QED
      BY <1>1, <1>3, <1>5, <1>6, <2>1
  <1> QED
    BY <1>1, <1>3, <1>4, <1>5, <1>6, <1>7 DEF Addresses, NoElement

(* Words and addresses in reach are what they are.                         *)
LEMMA WrapIs ==
    ASSUME NEW a \in Int
    PROVE  /\ a \in 0 .. AddressSpace - 1 => Wrap(a) = a
           /\ a \in -AddressSpace .. -1 => Wrap(a) = a + AddressSpace
  BY Rests, MemoryFits DEF Wrap

(* Places of different elements differ, by as much as the elements.        *)
LEMMA PlacesApart ==
    ASSUME NEW e \in 0 .. Elements, NEW d \in 0 .. Elements
    PROVE  PlaceOf(e) = PlaceOf(d) <=> e = d
  <1>1. ElementSize \in Nat \ {0} /\ e \in Int /\ d \in Int
    BY MemoryFits
  <1>2. (e * ElementSize) \div ElementSize = e /\ (d * ElementSize) \div ElementSize = d
    BY <1>1, Divides
  <1> QED
    BY <1>2 DEF PlaceOf

(* What a pointer's word is to a process, and an address to a pointer.     *)
LEMMA Conversions ==
    ASSUME NEW p \in Processes, NEW e \in 0 .. Elements
    PROVE  /\ RawOf(p, e) = BaseOf[p] + PlaceOf(e)
           /\ RawOf(p, e) # 0
           /\ FromRaw(p, RawOf(p, e)) = PlaceOf(e)
           /\ GetRawPtr(p, PlaceOf(e)) = RawOf(p, e)
  <1>1. /\ BaseOf[p] \in Nat /\ BaseOf[p] + PlaceOf(e) \in 1 .. AddressSpace - 1
        /\ PlaceOf(e) \in Addresses /\ PlaceOf(e) # Null /\ PlaceOf(e) \in Nat
    BY MemoryFits
  <1>2. RawOf(p, e) = BaseOf[p] + PlaceOf(e)
    <2>1. BaseOf[p] + PlaceOf(e) \in Int /\ BaseOf[p] + PlaceOf(e) \in 0 .. AddressSpace - 1
      BY <1>1
    <2> QED
      BY <2>1, WrapIs DEF RawOf, PlaceOf
  <1>3. RawOf(p, e) # 0
    BY <1>1, <1>2
  <1>4. FromRaw(p, RawOf(p, e)) = PlaceOf(e)
    <2>1. FromRaw(p, RawOf(p, e)) = Wrap(RawOf(p, e) - BaseOf[p])
      BY <1>3 DEF FromRaw
    <2>2. RawOf(p, e) - BaseOf[p] = PlaceOf(e)
      BY <1>1, <1>2
    <2>3. Wrap(PlaceOf(e)) = PlaceOf(e)
      BY <1>1, WrapIs DEF Addresses
    <2> QED
      BY <2>1, <2>2, <2>3
  <1>5. GetRawPtr(p, PlaceOf(e)) = RawOf(p, e)
    BY <1>1 DEF GetRawPtr, RawOf, PlaceOf
  <1> QED
    BY <1>2, <1>3, <1>4, <1>5

(* Arithmetic within the memory, on the word or by way of an address.      *)
LEMMA Arithmetic ==
    ASSUME NEW e \in 0 .. Elements, NEW n \in Int, e + n \in 0 .. Elements
    PROVE  /\ Moved(PlaceOf(e), n) = PlaceOf(e + n)
           /\ \A p \in Processes : Plus(p, PlaceOf(e), n) = PlaceOf(e + n)
  <1>1. PlaceOf(e) + n * ElementSize = PlaceOf(e + n)
    BY MemoryFits DEF PlaceOf
  <1>2. PlaceOf(e + n) \in Addresses /\ PlaceOf(e + n) \in Nat
    BY MemoryFits
  <1>3. Moved(PlaceOf(e), n) = PlaceOf(e + n)
    BY <1>1, <1>2, WrapIs DEF Moved, Addresses
  <1>4. ASSUME NEW p \in Processes PROVE Plus(p, PlaceOf(e), n) = PlaceOf(e + n)
    <2>1. BaseOf[p] \in Nat /\ RawOf(p, e + n) = Wrap(BaseOf[p] + PlaceOf(e + n))
      BY MemoryFits DEF RawOf, PlaceOf
    <2>2. PlaceOf(e + n) + BaseOf[p] = BaseOf[p] + PlaceOf(e + n)
      BY <1>2, <2>1
    <2>3. FromRaw(p, RawOf(p, e + n)) = PlaceOf(e + n)
      BY Conversions
    <2> QED
      BY <1>3, <2>1, <2>2, <2>3 DEF Plus
  <1> QED
    BY <1>3, <1>4

(* A pointer set to an element holds its word.                             *)
LEMMA SetKeeps ==
    ASSUME PInv, NEW x \in Pointers, NEW e \in 0 .. Elements \union {NoElement}, Set(x, WordOf(e), e)
    PROVE  /\ at' \in [Pointers -> 0 .. Elements \union {NoElement}]
           /\ ptr' \in [Pointers -> Addresses]
           /\ \A y \in Pointers : ptr'[y] = WordOf(at'[y])
  <1>1. WordOf(e) \in Addresses
    BY MemoryFits DEF WordOf
  <1>2. /\ ptr' = [ptr EXCEPT ![x] = WordOf(e)] /\ at' = [at EXCEPT ![x] = e]
        /\ at \in [Pointers -> 0 .. Elements \union {NoElement}] /\ ptr \in [Pointers -> Addresses]
    BY DEF Set, PInv
  <1>3. \A y \in Pointers : ptr[y] = WordOf(at[y])
    BY DEF PInv
  <1>4. /\ at'[x] = e /\ ptr'[x] = WordOf(e)
        /\ \A y \in Pointers \ {x} : at'[y] = at[y] /\ ptr'[y] = ptr[y]
    BY <1>2
  <1>5. \A y \in Pointers : ptr'[y] = WordOf(at'[y])
    BY <1>3, <1>4
  <1> QED
    BY <1>1, <1>2, <1>5

(* Every step keeps it.                                                    *)
LEMMA PNext == PInv /\ [PointerNext]_pointerVars => PInv'
  <1>1. ASSUME PInv, UNCHANGED pointerVars PROVE PInv'
    BY <1>1 DEF PInv, pointerVars
  <1>2. ASSUME PInv, NEW x \in Pointers, NEW e \in 0 .. Elements \union {NoElement},
               Set(x, WordOf(e), e), UNCHANGED <<inUse, held>>
        PROVE  PInv'
    <2>1. /\ at' \in [Pointers -> 0 .. Elements \union {NoElement}]
          /\ ptr' \in [Pointers -> Addresses]
          /\ \A y \in Pointers : ptr'[y] = WordOf(at'[y])
      BY <1>2, SetKeeps
    <2> QED
      BY <1>2, <2>1 DEF PInv
  <1>3. \A e \in 0 .. Elements : WordOf(e) = PlaceOf(e)
    BY MemoryFits DEF WordOf
  <1>4. \A e \in 0 .. Elements - 1 : e \in 0 .. Elements /\ e # NoElement
    BY MemoryFits
  <1>5. ASSUME PInv, NEW x \in Pointers, NEW p \in Processes, NEW e \in 0 .. Elements - 1,
               AssignRaw(x, p, e)
        PROVE  PInv'
    <2>1. FromRaw(p, RawOf(p, e)) = WordOf(e)
      BY <1>3, <1>4, Conversions
    <2> QED
      BY <1>2, <1>4, <1>5, <2>1 DEF AssignRaw
  <1>6. ASSUME PInv, NEW x \in Pointers, NEW p \in Processes, AssignRaw(x, p, NoElement)
        PROVE  PInv'
    BY <1>2, <1>6 DEF AssignRaw, FromRaw, WordOf
  <1>7. ASSUME PInv, NEW x \in Pointers, NEW y \in Pointers, CopyPointer(x, y)
        PROVE  PInv'
    <2>1. ptr[y] = WordOf(at[y]) /\ at[y] \in 0 .. Elements \union {NoElement}
      BY <1>7 DEF PInv
    <2>2. PICK e \in 0 .. Elements \union {NoElement} : e = at[y]
      BY <2>1
    <2> QED
      BY <1>2, <1>7, <2>1, <2>2 DEF CopyPointer
  <1>8. ASSUME PInv, NEW x \in Pointers, NEW y \in Pointers, NEW p \in Processes,
               NEW n \in -Elements .. Elements,
               at[y] # NoElement, Within(at[y] + n),
               \/ Set(x, Moved(ptr[y], n), at[y] + n)
               \/ Set(x, Plus(p, ptr[y], n), at[y] + n),
               UNCHANGED <<inUse, held>>
        PROVE  PInv'
    <2>1. /\ at[y] \in 0 .. Elements /\ n \in Int /\ at[y] + n \in 0 .. Elements
          /\ ptr[y] = PlaceOf(at[y])
      BY <1>3, <1>8, MemoryFits DEF PInv, Within
    <2>2. PICK d \in 0 .. Elements : d = at[y]
      BY <2>1
    <2>3. PICK e \in 0 .. Elements : e = at[y] + n
      BY <2>1
    <2>4. Moved(ptr[y], n) = PlaceOf(e) /\ Plus(p, ptr[y], n) = PlaceOf(e)
      BY <2>1, <2>2, <2>3, Arithmetic
    <2>5. Set(x, WordOf(e), e)
      BY <1>3, <1>8, <2>3, <2>4
    <2> QED
      BY <1>2, <1>8, <2>5
  <1>9. ASSUME PInv, NEW x \in Pointers, NEW p \in Processes, NEW e \in 0 .. Elements - 1,
               Allocate(x, p, e)
        PROVE  PInv'
    <2>1. FromRaw(p, GetRawPtr(p, PlaceOf(e))) = WordOf(e)
      BY <1>3, <1>4, Conversions
    <2>2. Set(x, WordOf(e), e)
      BY <1>9, <2>1 DEF Allocate, PlaceOf
    <2>3. /\ at' \in [Pointers -> 0 .. Elements \union {NoElement}]
          /\ ptr' \in [Pointers -> Addresses]
          /\ \A y \in Pointers : ptr'[y] = WordOf(at'[y])
      BY <1>4, <1>9, <2>2, SetKeeps
    <2>4. inUse' = inUse \union {PlaceOf(e)} /\ held' = held \union {e}
      BY <1>9 DEF Allocate, PlaceOf
    <2>5. held' \subseteq 0 .. Elements - 1 /\ inUse' = {PlaceOf(d) : d \in held'}
      BY <1>9, <2>4 DEF PInv
    <2> QED
      BY <2>3, <2>5 DEF PInv
  <1>10. ASSUME PInv, NEW x \in Pointers, NEW p \in Processes, Deallocate(x, p)
         PROVE  PInv'
    <2>1. at[x] \in held /\ held \subseteq 0 .. Elements - 1 /\ at[x] \in 0 .. Elements - 1
      BY <1>10 DEF Deallocate, PInv
    <2>2. ptr[x] = PlaceOf(at[x])
      BY <1>3, <1>4, <1>10, <2>1 DEF PInv
    <2>3. PICK e \in 0 .. Elements - 1 : e = at[x]
      BY <2>1
    <2>4. FromRaw(p, GetRawPtr(p, ptr[x])) = PlaceOf(e)
      BY <1>4, <2>2, <2>3, Conversions
    <2>5. inUse' = inUse \ {PlaceOf(e)} /\ held' = held \ {e} /\ UNCHANGED <<ptr, at>>
      BY <1>10, <2>3, <2>4 DEF Deallocate
    <2>6. \A d \in held : PlaceOf(d) = PlaceOf(e) <=> d = e
      BY <1>4, <2>1, PlacesApart
    <2>7. inUse = {PlaceOf(d) : d \in held}
      BY <1>10 DEF PInv
    <2>8. inUse' = {PlaceOf(d) : d \in held'}
      BY <2>5, <2>6, <2>7
    <2> QED
      BY <1>10, <2>1, <2>5, <2>8 DEF PInv
  <1>11. ASSUME PInv, PointerNext PROVE PInv'
    <2>1. PICK x, y \in Pointers, p \in Processes :
            \/ \E e \in 0 .. Elements - 1 : AssignRaw(x, p, e) \/ Allocate(x, p, e)
            \/ AssignRaw(x, p, NoElement)
            \/ CopyPointer(x, y)
            \/ \E n \in -Elements .. Elements : Advance(x, n) \/ AssignSum(x, p, y, n)
            \/ Deallocate(x, p)
      BY <1>11 DEF PointerNext
    <2>2. CASE \E e \in 0 .. Elements - 1 : AssignRaw(x, p, e) \/ Allocate(x, p, e)
      BY <1>5, <1>9, <1>11, <2>2
    <2>3. CASE \E n \in -Elements .. Elements : Advance(x, n) \/ AssignSum(x, p, y, n)
      BY <1>8, <1>11, <2>3 DEF Advance, AssignSum
    <2> QED
      BY <1>6, <1>7, <1>10, <1>11, <2>1, <2>2, <2>3
  <1> QED
    BY <1>1, <1>11

(* Always.                                                                 *)
LEMMA PAlways == PointerSpec => []PInv
  <1>1. PointerInit => PInv
    BY MemoryFits DEF PointerInit, PInv, WordOf
  <1> QED
    BY <1>1, PNext, PTL DEF PointerSpec

(* Pointers differ by as much as their elements, also downwards.           *)
LEMMA Differences ==
    ASSUME NEW e \in 0 .. Elements, NEW d \in 0 .. Elements
    PROVE  Difference(PlaceOf(e), PlaceOf(d)) = e - d
  <1>1. /\ PlaceOf(e) \in Nat /\ PlaceOf(e) < SignBit
        /\ PlaceOf(d) \in Nat /\ PlaceOf(d) < SignBit
        /\ SignBit \in Nat /\ AddressSpace = 2 * SignBit /\ ElementSize \in Nat \ {0}
        /\ e \in Int /\ d \in Int
    BY MemoryFits
  <1> DEFINE a == PlaceOf(e) - PlaceOf(d)
  <1>2. a \in Int /\ a < SignBit /\ -SignBit < a
    BY <1>1
  <1>3. a = (e - d) * ElementSize
    BY <1>1 DEF PlaceOf
  <1> HIDE DEF a
  <1>4. Signed(Wrap(a)) = a
    <2>1. CASE a >= 0
      <3>1. Wrap(a) = a
        BY <1>1, <1>2, <2>1, WrapIs
      <3> QED
        BY <1>1, <1>2, <3>1 DEF Signed
    <2>2. CASE a < 0
      <3>1. Wrap(a) = a + AddressSpace
        BY <1>1, <1>2, <2>2, WrapIs
      <3>2. a + AddressSpace >= SignBit /\ a + AddressSpace - AddressSpace = a
        BY <1>1, <1>2
      <3> QED
        BY <1>1, <1>2, <3>1, <3>2 DEF Signed
    <2> QED
      BY <1>2, <2>1, <2>2
  <1>5. a \div ElementSize = e - d
    BY <1>1, <1>3, Divides
  <1> QED
    BY <1>4, <1>5 DEF Difference, a

(* Pointers follow their elements from process to process, for every       *)
(* memory that fits, wherever the processes have it and however addresses  *)
(* wrap around.                                                            *)
THEOREM PointersAreOffsets == PointerSpec => []PointersFollow
  <1>1. PInv => PointersFollow
    <2> SUFFICES ASSUME PInv PROVE PointersFollow
      OBVIOUS
    <2>1. inUse = {e * ElementSize : e \in held}
      BY DEF PInv, PlaceOf
    <2>2. \A x \in Pointers :
            /\ at[x] \in 0 .. Elements \union {NoElement} /\ ptr[x] = WordOf(at[x])
            /\ at[x] # NoElement => at[x] \in 0 .. Elements /\ ptr[x] = PlaceOf(at[x])
      BY DEF PInv, WordOf
    <2>3. ASSUME NEW x \in Pointers
          PROVE  /\ IsSet(ptr[x]) <=> at[x] # NoElement
                 /\ \A p \in Processes :
                      GetRawPtr(p, ptr[x]) = IF at[x] = NoElement THEN 0 ELSE RawOf(p, at[x])
      <3>1. CASE at[x] = NoElement
        BY <2>2, <3>1 DEF WordOf, IsSet, GetRawPtr
      <3>2. CASE at[x] # NoElement
        BY <2>2, <3>2, Conversions, MemoryFits DEF IsSet
      <3> QED
        BY <3>1, <3>2
    <2>4. ASSUME NEW x \in Pointers, NEW y \in Pointers
          PROVE  /\ ptr[x] = ptr[y] <=> at[x] = at[y]
                 /\ at[x] # NoElement /\ at[y] # NoElement =>
                       Difference(ptr[x], ptr[y]) = at[x] - at[y]
      <3>1. CASE at[x] # NoElement /\ at[y] # NoElement
        BY <2>2, <3>1, PlacesApart, Differences
      <3>2. CASE at[x] = NoElement \/ at[y] = NoElement
        BY <2>2, <2>3, <3>2 DEF IsSet
      <3> QED
        BY <3>1, <3>2
    <2> QED
      BY <2>1, <2>3, <2>4 DEF PointersFollow
  <1> QED
    BY <1>1, PAlways, PTL

-----------------------------------------------------------------------------
(* VFuncHook                                                               *)

Made == Len(made)
Tables == Hooks \union {ClassTable}
IndexMaps == UNION {[F -> Slots] : F \in SUBSET Functions}
HookRecords == [classBase : Objects, overridePointers : BOOLEAN, curVTable : Tables,
                oldVTable : Tables, indexes : IndexMaps]

CurOf(h) == hook[h].curVTable
OldOf(h) == hook[h].oldVTable
InOverride(h) == hook[h].overridePointers

HookTypes ==
    /\ vptr \in [Objects -> Tables]
    /\ table \in [Tables -> {NoTable} \union [Slots -> AllFunctions]]
    /\ hook \in [Hooks -> HookRecords]
    /\ made \in Seq(Hooks) /\ Made \in 0 .. MaxHooks
    /\ \A n \in 1 .. Made : made[n] = n

(* The table its object had when a hook was made.                          *)
TableBelow(h) == IF InOverride(h) THEN CurOf(h) ELSE OldOf(h)

(* The tables its object may have while it is the newest one on it.        *)
Tops(h) == IF InOverride(h) THEN {CurOf(h)} ELSE {h, OldOf(h)}

(* The class's table, and copies that objects use.                         *)
InUse(t) == t = ClassTable \/ (t \in 1 .. Made /\ ~InOverride(t))

(* Of the first n hooks, o has table t from the last of those that are on  *)
(* it, or from the class.                                                  *)
HasFrom(t, o, n) ==
    \/ t = ClassTable /\ \A k \in 1 .. n : hook[k].classBase # o
    \/ \E k \in 1 .. n : /\ hook[k].classBase = o /\ t \in Tops(k)
                         /\ \A j \in k + 1 .. n : hook[j].classBase # o

Stacked ==
    /\ \A h \in 1 .. Made :
          /\ h = IF InOverride(h) THEN OldOf(h) ELSE CurOf(h)
          /\ TableBelow(h) < h /\ InUse(TableBelow(h))
          /\ HasFrom(TableBelow(h), hook[h].classBase, h - 1)
    /\ \A t \in Hooks : table[t] # NoTable <=> t \in 1 .. Made
    /\ table[ClassTable] # NoTable
    /\ \A o \in Objects : HasFrom(vptr[o], o, Made)

Stands(h, f, i) == f \in DOMAIN hook[h].indexes /\ hook[h].indexes[f] = i

(* The table a copy was made of, or a table that is in use.                *)
CopyOf(t) == IF t # ClassTable /\ InOverride(t) THEN CurOf(t) ELSE t

(* Hook k may have functions in table t.                                   *)
Reaches(t, k) ==
    /\ CurOf(k) = CopyOf(t) \/ (CurOf(k) < CopyOf(t) /\ k < CopyOf(t))
    /\ t # ClassTable /\ InOverride(t) => k < t

Proper(t, f, i) ==
    f = Original(i) \/ \E k \in 1 .. Made : Stands(k, f, i) /\ Reaches(t, k)

Entries == \A t \in 0 .. Made, i \in Slots : Proper(t, table[t][i], i)

OneOwner ==
    \A h, k \in 1 .. Made : \A f \in Functions :
        f \in DOMAIN hook[h].indexes /\ f \in DOMAIN hook[k].indexes => h = k

HookInv == HookTypes /\ Stacked /\ Entries /\ OneOwner

(* What the constants are.                                                 *)
LEMMA HookFacts ==
    /\ VTableLength \in Nat \ {0} /\ MaxHooks \in Nat
    /\ Slots \subseteq Nat /\ 0 \in Slots
    /\ Hooks \subseteq Nat /\ ClassTable = 0 /\ 0 \notin Hooks
    /\ \A i \in Slots : Original(i) \notin Functions /\ Original(i) \in AllFunctions
    /\ Functions \subseteq AllFunctions
  BY VFuncHookAssumption, FunctionsAreNew
  DEF VFuncHookAssumption, FunctionsAreNew, Slots, Hooks, ClassTable, AllFunctions

(* Hooks exist from 1 on, without a gap.                                   *)
LEMMA MadeFacts ==
    ASSUME HookTypes
    PROVE  /\ Made \in Nat /\ Made <= MaxHooks /\ 1 .. Made \subseteq Hooks
           /\ 0 .. Made \subseteq Tables
           /\ \A h \in Hooks : Exists(h) <=> h \in 1 .. Made
           /\ \A h : Newest(h) <=> Made # 0 /\ h = Made
  <1>1. /\ Made \in Nat /\ Made <= MaxHooks /\ 1 .. Made \subseteq Hooks
        /\ 0 .. Made \subseteq Tables
    BY HookFacts DEF HookTypes, Hooks, Tables
  <1>2. made \in Seq(Hooks) /\ DOMAIN made = 1 .. Made /\ Made = Len(made)
    BY DEF HookTypes, Made
  <1>3. \A n \in 1 .. Made : made[n] = n
    BY DEF HookTypes
  <1>4. \A h \in Hooks : Exists(h) <=> h \in 1 .. Made
    BY <1>2, <1>3 DEF Exists
  <1>5. made # <<>> <=> Made # 0
    BY <1>2
  <1>6. \A h : Newest(h) <=> Made # 0 /\ h = Made
    BY <1>1, <1>2, <1>3, <1>5 DEF Newest
  <1> QED
    BY <1>1, <1>4, <1>6

(* NoTable is none of the tables a copy can be.                            *)
LEMMA TablesHold ==
    ASSUME NEW T \in [Slots -> AllFunctions]
    PROVE  T # NoTable
  <1>1. 0 \in DOMAIN T
    BY HookFacts
  <1>2. DOMAIN NoTable = {}
    BY DEF NoTable
  <1> QED
    BY <1>1, <1>2

(* At first there are no hooks.                                            *)
LEMMA HookBegins == HookInit => HookInv
  <1> SUFFICES ASSUME HookInit PROVE HookInv
    OBVIOUS
  <1>1. made = <<>> /\ Made = 0
    BY DEF HookInit, Made
  <1>2. ClassFunctions \in [Slots -> AllFunctions] /\ ClassFunctions # NoTable
    BY HookFacts, TablesHold DEF ClassFunctions
  <1>3. HookTypes
    <2>1. NoHook \in HookRecords
      <3>1. (CHOOSE o \in Objects : TRUE) \in Objects
        BY VFuncHookAssumption DEF VFuncHookAssumption
      <3>2. <<>> \in IndexMaps
        <4>1. <<>> \in [{} -> Slots]
          OBVIOUS
        <4> QED
          BY <4>1 DEF IndexMaps
      <3> QED
        BY <3>1, <3>2 DEF NoHook, HookRecords, Tables
    <2> QED
      BY <1>1, <1>2, <2>1, HookFacts DEF HookTypes, HookInit, Tables
  <1>4. Stacked
    BY <1>1, <1>2, HookFacts DEF Stacked, HookInit, HasFrom
  <1>5. Entries
    BY <1>1 DEF Entries, HookInit, Proper, ClassFunctions, ClassTable
  <1>6. OneOwner
    BY <1>1 DEF OneOwner
  <1> QED
    BY <1>3, <1>4, <1>5, <1>6 DEF HookInv

(* What the newest hook copied, or the table before it, holds functions of *)
(* hooks with a table before its own, or the same and older ones.          *)
LEMMA OldDescends ==
    ASSUME HookTypes, Stacked, NEW h \in 1 .. Made, NEW k \in 1 .. Made, Reaches(OldOf(h), k)
    PROVE  CurOf(k) < CurOf(h) \/ (CurOf(k) = CurOf(h) /\ k < h)
  <1>1. h \in Hooks /\ k \in Hooks /\ h \in Nat /\ k \in Nat /\ h # ClassTable
    BY MadeFacts, HookFacts
  <1>2. CurOf(h) \in Nat /\ CurOf(k) \in Nat /\ OldOf(h) \in Nat
    BY <1>1, HookFacts DEF HookTypes, HookRecords, Tables, CurOf, OldOf
  <1>3. CASE InOverride(h)
    BY <1>1, <1>2, <1>3 DEF Stacked, Reaches, CopyOf
  <1>4. CASE ~InOverride(h)
    <2>1. h = CurOf(h) /\ OldOf(h) < h /\ InUse(OldOf(h))
      BY <1>4 DEF Stacked, TableBelow
    <2>2. CopyOf(OldOf(h)) = OldOf(h)
      BY <2>1 DEF InUse, CopyOf
    <2> QED
      BY <1>1, <1>2, <2>1, <2>2 DEF Reaches
  <1> QED
    BY <1>3, <1>4

(* What is proper in the table the newest hook keeps is proper in the one  *)
(* it writes.                                                              *)
LEMMA OldIsProper ==
    ASSUME HookTypes, Stacked, NEW h \in 1 .. Made, h = Made,
           NEW f, NEW i, Proper(OldOf(h), f, i)
    PROVE  Proper(CurOf(h), f, i)
  <1>1. SUFFICES ASSUME NEW k \in 1 .. Made, Reaches(OldOf(h), k) PROVE Reaches(CurOf(h), k)
    BY DEF Proper
  <1>2. h \in Hooks /\ k \in Hooks /\ h \in Nat /\ k \in Nat /\ h # ClassTable /\ k <= h
    BY MadeFacts, HookFacts
  <1>3. CurOf(h) \in Nat /\ CurOf(k) \in Nat /\ OldOf(h) \in Nat
    BY <1>2, HookFacts DEF HookTypes, HookRecords, Tables, CurOf, OldOf
  <1>4. CASE InOverride(h)
    <2>1. h = OldOf(h) /\ InUse(CurOf(h))
      BY <1>4 DEF Stacked, TableBelow
    <2>2. CopyOf(CurOf(h)) = CurOf(h) /\ CopyOf(OldOf(h)) = CurOf(h)
      BY <1>2, <1>4, <2>1 DEF InUse, CopyOf
    <2> QED
      BY <1>1, <1>2, <1>3, <2>1, <2>2 DEF Reaches, InUse
  <1>5. CASE ~InOverride(h)
    <2>1. h = CurOf(h) /\ CopyOf(CurOf(h)) = CurOf(h)
      BY <1>5 DEF Stacked, CopyOf
    <2>2. CurOf(k) < CurOf(h) \/ (CurOf(k) = CurOf(h) /\ k < h)
      BY <1>1, OldDescends
    <2>3. k # h => k < h
      BY <1>2
    <2>4. k # h
      BY <1>2, <1>3, <2>1, <2>2
    <2> QED
      BY <1>2, <1>3, <1>5, <2>1, <2>2, <2>3, <2>4 DEF Reaches
  <1> QED
    BY <1>4, <1>5

(* A step that leaves the hooks and the objects alone and writes only the  *)
(* table in use of hook h, with functions that are proper there.           *)
Rewrites(h) ==
    /\ UNCHANGED <<vptr, made>>
    /\ hook' \in [Hooks -> HookRecords]
    /\ \A k \in Hooks : /\ hook'[k].classBase = hook[k].classBase
                        /\ InOverride(k)' = InOverride(k)
                        /\ CurOf(k)' = CurOf(k) /\ OldOf(k)' = OldOf(k)
                        /\ \A f, i : Stands(k, f, i) => Stands(k, f, i)'
    /\ \E T \in [Slots -> AllFunctions] :
          /\ table' = [table EXCEPT ![CurOf(h)] = T]
          /\ \A i \in Slots : Proper(CurOf(h), T[i], i)'

LEMMA RewritesKeeps ==
    ASSUME HookInv, NEW h \in 1 .. Made, Rewrites(h)
    PROVE  HookTypes' /\ Stacked' /\ Entries'
  <1> USE DEF Rewrites
  <1>1. HookTypes /\ Stacked /\ Entries /\ Made' = Made /\ h \in Hooks
    BY MadeFacts DEF HookInv, Made
  <1>2. CurOf(h) \in Tables
    BY <1>1 DEF HookTypes, HookRecords, CurOf
  <1>3. PICK T \in [Slots -> AllFunctions] :
            /\ table' = [table EXCEPT ![CurOf(h)] = T]
            /\ \A i \in Slots : Proper(CurOf(h), T[i], i)'
    OBVIOUS
  <1>4. table' \in [Tables -> {NoTable} \union [Slots -> AllFunctions]]
    BY <1>1, <1>2, <1>3 DEF HookTypes
  <1>5. HookTypes'
    BY <1>1, <1>4 DEF HookTypes, Made
  <1>6. \A t \in Tables : table'[t] = IF t = CurOf(h) THEN T ELSE table[t]
    BY <1>1, <1>2, <1>3 DEF HookTypes
  <1>7. \A k \in 1 .. Made : k \in Hooks /\ k # ClassTable
    BY <1>1, MadeFacts, HookFacts
  <1>8. \A k \in 1 .. Made : /\ TableBelow(k)' = TableBelow(k) /\ Tops(k)' = Tops(k)
                             /\ hook'[k].classBase = hook[k].classBase
    BY <1>7 DEF TableBelow, Tops
  <1>9. \A t : InUse(t)' <=> InUse(t)
    BY <1>1, <1>7 DEF InUse
  <1>10. ASSUME NEW t, NEW o, NEW n \in 0 .. Made, HasFrom(t, o, n) PROVE HasFrom(t, o, n)'
    <2>1. 1 .. n \subseteq 1 .. Made /\ \A k \in 1 .. n : k + 1 .. n \subseteq 1 .. n
      BY <1>1, MadeFacts
    <2> QED
      BY <1>8, <1>10, <2>1 DEF HasFrom
  <1>11. Stacked'
    <2>1. T # NoTable
      BY <1>3, TablesHold
    <2>2. table[CurOf(h)] # NoTable
      <3>1. InUse(CurOf(h))
        BY <1>1, <1>7, HookFacts DEF Stacked, TableBelow, InUse
      <3> QED
        BY <1>1, <1>7, <3>1 DEF Stacked, InUse
    <2>3. \A t \in Tables : table'[t] # NoTable <=> table[t] # NoTable
      BY <1>6, <2>1, <2>2
    <2>4. \A k \in 1 .. Made : k - 1 \in 0 .. Made /\ Made \in 0 .. Made
      BY <1>1, MadeFacts
    <2>5. \A k \in 1 .. Made : CurOf(k)' = CurOf(k) /\ OldOf(k)' = OldOf(k) /\ InOverride(k)' = InOverride(k)
      BY <1>7
    <2>6. ASSUME NEW k \in 1 .. Made
          PROVE  /\ k = IF InOverride(k)' THEN OldOf(k)' ELSE CurOf(k)'
                 /\ TableBelow(k)' < k /\ InUse(TableBelow(k))'
                 /\ HasFrom(TableBelow(k), hook[k].classBase, k - 1)'
      <3>1. /\ k = IF InOverride(k) THEN OldOf(k) ELSE CurOf(k)
            /\ TableBelow(k) < k /\ InUse(TableBelow(k))
            /\ HasFrom(TableBelow(k), hook[k].classBase, k - 1)
        BY <1>1 DEF Stacked
      <3>2. HasFrom(TableBelow(k), hook[k].classBase, k - 1)'
        BY <1>8, <1>10, <2>4, <3>1
      <3>3. InUse(TableBelow(k))'
        BY <1>8, <1>9, <3>1
      <3> QED
        BY <1>8, <2>5, <3>1, <3>2, <3>3
    <2>7. \A o \in Objects : HasFrom(vptr[o], o, Made)'
      BY <1>1, <1>10, <2>4 DEF Stacked
    <2>8. (\A t \in Hooks : table'[t] # NoTable <=> t \in 1 .. Made) /\ table'[ClassTable] # NoTable
      BY <1>1, <2>3 DEF Stacked, Tables
    <2> QED
      BY <1>1, <2>6, <2>7, <2>8 DEF Stacked
  <1>12. Entries'
    <2>1. SUFFICES ASSUME NEW t \in 0 .. Made, NEW i \in Slots PROVE Proper(t, table[t][i], i)'
      BY <1>1 DEF Entries
    <2>2. t \in Tables
      BY <1>1, MadeFacts
    <2>3. CASE t = CurOf(h)
      <3>1. table'[t] = T /\ CurOf(h)' = CurOf(h)
        BY <1>1, <1>6, <2>2, <2>3
      <3>2. Proper(CurOf(h), T[i], i)'
        BY <1>3
      <3> QED
        BY <2>3, <3>1, <3>2 DEF Proper, Reaches, CopyOf
    <2>4. CASE t # CurOf(h)
      <3>1. table'[t][i] = table[t][i] /\ Proper(t, table[t][i], i)
        BY <1>1, <1>6, <2>2, <2>4 DEF Entries
      <3>2. t = ClassTable \/ t \in Hooks
        BY <2>2 DEF Tables
      <3>3. CopyOf(t)' = CopyOf(t) /\ (t # ClassTable => InOverride(t)' = InOverride(t))
        BY <3>2 DEF CopyOf
      <3>4. \A k \in 1 .. Made : Reaches(t, k) => Reaches(t, k)'
        BY <1>7, <3>3 DEF Reaches
      <3> QED
        BY <1>1, <1>7, <3>1, <3>4 DEF Proper
    <2> QED
      BY <2>3, <2>4
  <1> QED
    BY <1>5, <1>11, <1>12

(* A function is put in the place of another, in the table the hook uses.  *)
LEMMA HookHooks ==
    ASSUME HookInv, NEW h \in Hooks, NEW i \in Slots, NEW f \in Functions, Hook(h, i, f)
    PROVE  HookInv'
  <1>1. HookTypes /\ Stacked /\ Entries /\ OneOwner /\ h \in 1 .. Made /\ Made' = Made
    BY MadeFacts DEF HookInv, Hook, Made
  <1>2. /\ hook' = [hook EXCEPT ![h].indexes = Inserted(hook[h].indexes, f, i)]
        /\ table' = [table EXCEPT ![CurOf(h)][i] = f]
        /\ vptr' = vptr /\ made' = made
    BY DEF Hook, SetEntry, CurOf
  <1>3. hook[h] \in HookRecords /\ hook[h].indexes \in IndexMaps
    BY <1>1 DEF HookTypes, HookRecords
  <1> DEFINE M == Inserted(hook[h].indexes, f, i)
  <1>4. /\ M \in IndexMaps
        /\ DOMAIN M = DOMAIN hook[h].indexes \union {f}
        /\ \A g \in DOMAIN hook[h].indexes : M[g] = hook[h].indexes[g]
        /\ M[f] = i
    <2>1. f \in DOMAIN hook[h].indexes => hook[h].indexes[f] = i
      BY <1>1, MadeFacts DEF Hook
    <2>2. PICK F \in SUBSET Functions : hook[h].indexes \in [F -> Slots]
      BY <1>3 DEF IndexMaps
    <2>3. M \in [F \union {f} -> Slots]
      BY <2>2 DEF Inserted
    <2>4. F \union {f} \in SUBSET Functions
      OBVIOUS
    <2> QED
      BY <2>1, <2>2, <2>3, <2>4 DEF IndexMaps, Inserted
  <1> HIDE DEF M
  <1>5. hook' \in [Hooks -> HookRecords] /\ hook'[h].indexes = M
    BY <1>1, <1>2, <1>3, <1>4 DEF HookTypes, HookRecords, M
  <1>6. ASSUME NEW k \in Hooks
        PROVE  /\ hook'[k].classBase = hook[k].classBase
               /\ InOverride(k)' = InOverride(k)
               /\ CurOf(k)' = CurOf(k) /\ OldOf(k)' = OldOf(k)
               /\ \A g, j : Stands(k, g, j) => Stands(k, g, j)'
               /\ k # h => hook'[k].indexes = hook[k].indexes
    <2>1. CASE k # h
      BY <1>1, <1>2, <2>1 DEF HookTypes, InOverride, CurOf, OldOf, Stands
    <2>2. CASE k = h
      <3>1. /\ hook'[k].classBase = hook[k].classBase /\ InOverride(k)' = InOverride(k)
            /\ CurOf(k)' = CurOf(k) /\ OldOf(k)' = OldOf(k)
        BY <1>1, <1>2, <1>3, <2>2 DEF HookTypes, HookRecords, InOverride, CurOf, OldOf
      <3> QED
        BY <1>4, <1>5, <2>2, <3>1 DEF Stands
    <2> QED
      BY <2>1, <2>2
  <1>7. Rewrites(h)
    <2>1. CurOf(h) \in Tables /\ InUse(CurOf(h)) /\ CurOf(h) \in 0 .. Made
      <3>1. h # ClassTable /\ h \in Nat /\ Made \in Nat /\ Hooks \subseteq Nat
        BY <1>1, MadeFacts, HookFacts
      <3>2. CurOf(h) \in Tables
        BY <1>1 DEF HookTypes, HookRecords, CurOf
      <3>3. InUse(CurOf(h))
        BY <1>1, <3>1 DEF Stacked, TableBelow, InUse
      <3> QED
        BY <3>1, <3>2, <3>3, HookFacts DEF InUse
    <2>2. table[CurOf(h)] \in [Slots -> AllFunctions]
      <3>1. table[CurOf(h)] # NoTable
        BY <1>1, <2>1, HookFacts DEF Stacked, InUse, Tables
      <3> QED
        BY <1>1, <2>1, <3>1 DEF HookTypes
    <2> PICK T : T = [table[CurOf(h)] EXCEPT ![i] = f]
      OBVIOUS
    <2>3. T \in [Slots -> AllFunctions] /\ table' = [table EXCEPT ![CurOf(h)] = T]
      BY <1>2, <2>2, HookFacts
    <2>4. ASSUME NEW j \in Slots PROVE Proper(CurOf(h), T[j], j)'
      <3>1. \A k \in 1 .. Made : k \in Hooks
        BY <1>1, MadeFacts
      <3>2. CurOf(h) = ClassTable \/ CurOf(h) \in Hooks
        BY <2>1 DEF Tables
      <3>3. CopyOf(CurOf(h))' = CopyOf(CurOf(h)) /\ CopyOf(CurOf(h)) = CurOf(h)
        BY <1>6, <2>1, <3>1, <3>2, HookFacts DEF CopyOf, InUse
      <3>4. CurOf(h)' = CurOf(h)
        BY <1>1, <1>6
      <3>5. CASE j = i
        <4>1. Stands(h, f, j)' /\ T[j] = f
          BY <1>4, <1>5, <2>2, <3>5 DEF Stands
        <4>2. Reaches(CurOf(h), h)'
          BY <1>6, <2>1, <3>1, <3>2, <3>3, <3>4, HookFacts DEF Reaches, InUse
        <4> QED
          BY <1>1, <3>5, <4>1, <4>2 DEF Proper
      <3>6. CASE j # i
        <4>1. T[j] = table[CurOf(h)][j] /\ Proper(CurOf(h), T[j], j)
          BY <1>1, <2>1, <2>2, <3>6 DEF Entries
        <4>2. \A k \in 1 .. Made : Reaches(CurOf(h), k) => Reaches(CurOf(h), k)'
          BY <1>6, <3>1, <3>2, <3>3, <3>4 DEF Reaches
        <4> QED
          BY <1>1, <1>6, <3>1, <4>1, <4>2 DEF Proper
      <3> QED
        BY <3>5, <3>6
    <2> QED
      BY <1>2, <1>5, <1>6, <2>3, <2>4 DEF Rewrites
  <1>8. OneOwner'
    <2>1. SUFFICES ASSUME NEW k \in 1 .. Made, NEW g \in Functions,
                          f = g \/ g \in DOMAIN hook[h].indexes, g \in DOMAIN hook'[k].indexes
                   PROVE  k = h
      <3>1. \A k \in 1 .. Made : k \in Hooks
        BY <1>1, MadeFacts
      <3>2. \A k, l \in 1 .. Made : \A g \in Functions :
                k # h /\ l # h /\ g \in DOMAIN hook'[k].indexes /\ g \in DOMAIN hook'[l].indexes => k = l
        BY <1>1, <1>6, <3>1 DEF OneOwner
      <3> QED
        BY <1>1, <1>4, <1>5, <3>2 DEF OneOwner
    <2>2. k \in Hooks
      BY <1>1, MadeFacts
    <2>3. SUFFICES ASSUME k # h PROVE FALSE
      OBVIOUS
    <2>4. g \in DOMAIN hook[k].indexes
      BY <1>6, <2>1, <2>2, <2>3
    <2>5. g # f
      BY <1>1, <2>2, <2>3, <2>4, MadeFacts DEF Hook
    <2> QED
      BY <1>1, <2>1, <2>3, <2>4, <2>5 DEF OneOwner
  <1> QED
    BY <1>7, <1>8, RewritesKeeps, <1>1 DEF HookInv

(* A hook gives its table, in part or as a whole, what it holds of the one *)
(* it keeps.                                                               *)
PutsBack(h) ==
    \E S \in SUBSET Slots : table' = [table EXCEPT ![CurOf(h)] =
        [j \in Slots |-> IF j \in S THEN table[OldOf(h)][j] ELSE table[CurOf(h)][j]]]

LEMMA HookPutsBack ==
    ASSUME HookInv, NEW h, Newest(h), PutsBack(h), UNCHANGED <<vptr, hook, made>>
    PROVE  HookInv'
  <1> PICK S \in SUBSET Slots : table' = [table EXCEPT ![CurOf(h)] =
          [j \in Slots |-> IF j \in S THEN table[OldOf(h)][j] ELSE table[CurOf(h)][j]]]
    BY DEF PutsBack
  <1>1. /\ HookTypes /\ Stacked /\ Entries /\ OneOwner /\ h \in 1 .. Made /\ h = Made
        /\ h \in Hooks /\ h # ClassTable /\ Made \in Nat
    BY MadeFacts, HookFacts DEF HookInv
  <1>2. /\ CurOf(h) \in Tables /\ CurOf(h) \in 0 .. Made /\ table[CurOf(h)] \in [Slots -> AllFunctions]
        /\ OldOf(h) \in Tables /\ OldOf(h) \in 0 .. Made /\ table[OldOf(h)] \in [Slots -> AllFunctions]
    <2>1. CurOf(h) \in Tables /\ OldOf(h) \in Tables /\ Hooks \subseteq Nat /\ ClassTable = 0
      BY <1>1, HookFacts DEF HookTypes, HookRecords, CurOf, OldOf
    <2>2. CurOf(h) \in 0 .. Made /\ OldOf(h) \in 0 .. Made
      BY <1>1, <2>1 DEF Stacked, TableBelow, InUse
    <2>3. \A t \in 0 .. Made : table[t] # NoTable
      BY <1>1, <2>1, MadeFacts DEF Stacked
    <2> QED
      BY <1>1, <2>1, <2>2, <2>3 DEF HookTypes
  <1> PICK T : T = [j \in Slots |-> IF j \in S THEN table[OldOf(h)][j] ELSE table[CurOf(h)][j]]
    OBVIOUS
  <1>3. T \in [Slots -> AllFunctions]
    BY <1>2
  <1>4. ASSUME NEW j \in Slots PROVE Proper(CurOf(h), T[j], j)
    <2>1. Proper(CurOf(h), table[CurOf(h)][j], j) /\ Proper(OldOf(h), table[OldOf(h)][j], j)
      BY <1>1, <1>2 DEF Entries
    <2> QED
      BY <1>1, <2>1, OldIsProper
  <1>5. hook' = hook /\ Made' = Made
    BY DEF Made
  <1>6. \A j \in Slots : Proper(CurOf(h), T[j], j)'
    BY <1>4, <1>5 DEF Proper, Reaches, CopyOf, CurOf, InOverride, Stands
  <1>7. Rewrites(h)
    BY <1>1, <1>3, <1>5, <1>6 DEF Rewrites, HookTypes, InOverride, CurOf, OldOf, Stands
  <1>8. OneOwner'
    BY <1>1, <1>5 DEF OneOwner
  <1> QED
    BY <1>1, <1>7, <1>8, RewritesKeeps DEF HookInv

(* Tables of hooks that exist hold functions.                              *)
LEMMA TablesOfHook ==
    ASSUME HookTypes, Stacked, NEW h \in 1 .. Made
    PROVE  /\ CurOf(h) \in Tables /\ CurOf(h) \in 0 .. Made
           /\ OldOf(h) \in Tables /\ OldOf(h) \in 0 .. Made
           /\ InUse(CurOf(h))
           /\ \A t \in 0 .. Made : t \in Tables /\ table[t] \in [Slots -> AllFunctions]
  <1>1. /\ h \in Hooks /\ h \in Nat /\ h # ClassTable /\ Hooks \subseteq Nat /\ ClassTable = 0
        /\ 0 .. Made \subseteq Tables /\ Made \in Nat
    BY MadeFacts, HookFacts
  <1>2. CurOf(h) \in Tables /\ OldOf(h) \in Tables
    BY <1>1 DEF HookTypes, HookRecords, CurOf, OldOf
  <1>3. CurOf(h) \in 0 .. Made /\ OldOf(h) \in 0 .. Made /\ InUse(CurOf(h))
    BY <1>1, <1>2 DEF Stacked, TableBelow, InUse, Tables
  <1>4. \A t \in 0 .. Made : table[t] # NoTable
    BY <1>1 DEF Stacked, Tables
  <1> QED
    BY <1>1, <1>2, <1>3, <1>4 DEF HookTypes

(* One function is taken out again,                                        *)
LEMMA HookUnhooks ==
    ASSUME HookInv, NEW h \in Hooks,
           \/ \E f \in Functions : Unhook(h, f)
           \/ \E i \in Slots : UnhookID(h, i)
    PROVE  HookInv'
  <1>1. /\ HookTypes /\ Stacked /\ Newest(h) /\ h \in 1 .. Made /\ UNCHANGED <<vptr, hook, made>>
    BY MadeFacts, HookFacts DEF HookInv, Unhook, UnhookID
  <1>2. /\ CurOf(h) \in Tables /\ table[CurOf(h)] \in [Slots -> AllFunctions]
        /\ table[OldOf(h)] \in [Slots -> AllFunctions]
    BY <1>1, TablesOfHook
  <1>3. PICK i \in Slots : SetEntry(h, i, OldEntry(h, i))
    <2>1. ASSUME NEW f \in Functions, Unhook(h, f) PROVE hook[h].indexes[f] \in Slots
      <3>1. hook[h].indexes \in IndexMaps /\ f \in DOMAIN hook[h].indexes
        BY <1>1, <2>1 DEF HookTypes, HookRecords, Unhook
      <3> QED
        BY <3>1 DEF IndexMaps
    <2> QED
      BY <2>1 DEF Unhook, UnhookID
  <1>4. table' = [table EXCEPT ![CurOf(h)] =
                     [j \in Slots |-> IF j \in {i} THEN table[OldOf(h)][j] ELSE table[CurOf(h)][j]]]
    <2>1. table' = [table EXCEPT ![CurOf(h)] = [table[CurOf(h)] EXCEPT ![i] = table[OldOf(h)][i]]]
      BY <1>3, <1>1 DEF SetEntry, OldEntry, CurOf, OldOf, HookTypes
    <2>2. [table[CurOf(h)] EXCEPT ![i] = table[OldOf(h)][i]]
             = [j \in Slots |-> IF j \in {i} THEN table[OldOf(h)][j] ELSE table[CurOf(h)][j]]
      BY <1>2
    <2> QED
      BY <2>1, <2>2
  <1>5. PutsBack(h)
    BY <1>4 DEF PutsBack
  <1> QED
    BY <1>1, <1>5, HookPutsBack

(* or all.                                                                 *)
LEMMA HookUnhooksAll ==
    ASSUME HookInv, NEW h \in Hooks, UnhookAll(h)
    PROVE  HookInv'
  <1>1. /\ HookTypes /\ Stacked /\ Entries /\ OneOwner /\ Newest(h) /\ h \in 1 .. Made /\ h = Made
        /\ UNCHANGED <<hook, made>>
    BY MadeFacts, HookFacts DEF HookInv, UnhookAll
  <1>2. /\ CurOf(h) \in Tables /\ OldOf(h) \in Tables
        /\ table[CurOf(h)] \in [Slots -> AllFunctions]
        /\ table[OldOf(h)] \in [Slots -> AllFunctions]
    BY <1>1, TablesOfHook
  <1>3. CASE InOverride(h)
    <2>1. vptr' = vptr /\ table' = [table EXCEPT ![CurOf(h)] = table[OldOf(h)]]
      BY <1>3 DEF UnhookAll, Restored, InOverride, CurOf, OldOf
    <2>2. table[OldOf(h)] =
             [j \in Slots |-> IF j \in Slots THEN table[OldOf(h)][j] ELSE table[CurOf(h)][j]]
      BY <1>2
    <2>3. table' = [table EXCEPT ![CurOf(h)] =
             [j \in Slots |-> IF j \in Slots THEN table[OldOf(h)][j] ELSE table[CurOf(h)][j]]]
      BY <2>1, <2>2
    <2>4. PutsBack(h)
      BY <2>3 DEF PutsBack
    <2> QED
      BY <1>1, <2>1, <2>4, HookPutsBack
  <1>4. CASE ~InOverride(h)
    <2> PICK o : o = hook[h].classBase
      OBVIOUS
    <2>1. o \in Objects
      BY <1>1 DEF HookTypes, HookRecords
    <2>2. table' = table /\ vptr' = [vptr EXCEPT ![o] = OldOf(h)]
      BY <1>4 DEF UnhookAll, Restored, InOverride, OldOf
    <2>3. HookTypes'
      BY <1>1, <1>2, <2>1, <2>2 DEF HookTypes, Made
    <2>4. Stacked'
      <3>1. ASSUME NEW p \in Objects PROVE HasFrom(vptr'[p], p, Made)
        <4>1. CASE p # o
          BY <1>1, <2>1, <2>2, <4>1 DEF Stacked, HookTypes
        <4>2. CASE p = o
          <5>1. vptr'[p] = OldOf(h) /\ OldOf(h) \in Tops(h) /\ hook[h].classBase = p
            BY <1>1, <1>4, <2>1, <2>2, <4>2 DEF HookTypes, Tops
          <5> QED
            BY <1>1, <5>1, MadeFacts DEF HasFrom
        <4> QED
          BY <4>1, <4>2
      <3>2. hook' = hook /\ Made' = Made /\ table' = table
        BY <1>1, <2>2 DEF Made
      <3>3. \A k : /\ InOverride(k)' = InOverride(k) /\ OldOf(k)' = OldOf(k) /\ CurOf(k)' = CurOf(k)
                   /\ TableBelow(k)' = TableBelow(k) /\ Tops(k)' = Tops(k)
                   /\ InUse(k)' = InUse(k)
        BY <3>2 DEF InOverride, OldOf, CurOf, TableBelow, Tops, InUse
      <3>4. \A t, q, n : HasFrom(t, q, n) => HasFrom(t, q, n)'
        BY <3>2, <3>3 DEF HasFrom
      <3>5. \A q \in Objects : HasFrom(vptr[q], q, Made)'
        <4>1. ASSUME NEW q \in Objects PROVE HasFrom(vptr[q], q, Made)'
          <5>1. HasFrom(vptr'[q], q, Made)
            BY <3>1
          <5> QED
            BY <3>2, <3>3, <5>1 DEF HasFrom
        <4> QED
          BY <4>1
      <3>6. ASSUME NEW k \in 1 .. Made
            PROVE  /\ k = IF InOverride(k)' THEN OldOf(k)' ELSE CurOf(k)'
                   /\ TableBelow(k)' < k /\ InUse(TableBelow(k))'
                   /\ HasFrom(TableBelow(k), hook[k].classBase, k - 1)'
        <4>1. /\ k = IF InOverride(k) THEN OldOf(k) ELSE CurOf(k)
              /\ TableBelow(k) < k /\ InUse(TableBelow(k))
              /\ HasFrom(TableBelow(k), hook[k].classBase, k - 1)
          BY <1>1 DEF Stacked
        <4> QED
          BY <3>2, <3>3, <4>1 DEF HasFrom, InUse
      <3> QED
        BY <1>1, <3>2, <3>5, <3>6 DEF Stacked
    <2>5. Entries' /\ OneOwner'
      BY <1>1, <2>2
      DEF Entries, OneOwner, Made, Proper, Stands, Reaches, CopyOf, InOverride, CurOf
    <2> QED
      BY <2>3, <2>4, <2>5 DEF HookInv
  <1> QED
    BY <1>3, <1>4

(* The hooks, and so the tables, of an object move to another.             *)
LEMMA HookMoves ==
    ASSUME HookInv, NEW o \in Objects, NEW p \in Objects, UpdateBase(o, p)
    PROVE  HookInv'
  <1>1. /\ HookTypes /\ Stacked /\ Entries /\ OneOwner /\ UNCHANGED <<table, made>> /\ Made' = Made
        /\ 1 .. Made \subseteq Hooks /\ Made \in Nat
    BY MadeFacts DEF HookInv, UpdateBase, Made
  <1>2. /\ o # p
        /\ \A k \in 1 .. Made : hook[k].classBase # p
        /\ vptr' = [vptr EXCEPT ![p] = vptr[o], ![o] = ClassTable]
        /\ hook' = [k \in Hooks |-> IF k \in 1 .. Made /\ hook[k].classBase = o
                                    THEN [hook[k] EXCEPT !.classBase = p] ELSE hook[k]]
    BY <1>1, MadeFacts DEF UpdateBase
  <1>3. hook' \in [Hooks -> HookRecords]
    <2>1. ASSUME NEW k \in Hooks PROVE [hook[k] EXCEPT !.classBase = p] \in HookRecords
      BY <1>1 DEF HookTypes, HookRecords
    <2> QED
      BY <1>1, <1>2, <2>1 DEF HookTypes
  <1>4. ASSUME NEW k \in Hooks
        PROVE  /\ InOverride(k)' = InOverride(k)
               /\ CurOf(k)' = CurOf(k) /\ OldOf(k)' = OldOf(k)
               /\ hook'[k].indexes = hook[k].indexes
    BY <1>1, <1>2 DEF HookTypes, HookRecords, InOverride, CurOf, OldOf
  <1>5. \A k \in 1 .. Made : hook'[k].classBase = IF hook[k].classBase = o THEN p ELSE hook[k].classBase
    BY <1>1, <1>2 DEF HookTypes, HookRecords
  <1>6. HookTypes'
    BY <1>1, <1>2, <1>3, HookFacts DEF HookTypes, Made, Tables
  <1>7. \A k \in 1 .. Made : TableBelow(k)' = TableBelow(k) /\ Tops(k)' = Tops(k)
    BY <1>1, <1>4 DEF TableBelow, Tops
  <1>8. \A t : InUse(t)' <=> InUse(t)
    BY <1>1, <1>4 DEF InUse
  <1>9. ASSUME NEW t, NEW q, NEW n \in 0 .. Made, HasFrom(t, q, n), q # p
        PROVE  HasFrom(t, IF q = o THEN p ELSE q, n)'
    <2>1. 1 .. n \subseteq 1 .. Made /\ \A k \in 1 .. n : k + 1 .. n \subseteq 1 .. n
      BY <1>1
    <2>2. \A k \in 1 .. n : hook'[k].classBase = (IF q = o THEN p ELSE q) <=> hook[k].classBase = q
      BY <1>2, <1>5, <1>9, <2>1
    <2> QED
      BY <1>7, <1>9, <2>1, <2>2 DEF HasFrom
  <1>10. Stacked'
    <2>1. ASSUME NEW k \in 1 .. Made PROVE HasFrom(TableBelow(k), hook[k].classBase, k - 1)'
      <3>1. HasFrom(TableBelow(k), hook[k].classBase, k - 1) /\ k - 1 \in 0 .. Made
        BY <1>1 DEF Stacked
      <3>2. hook[k].classBase # p
        BY <1>2
      <3> QED
        BY <1>5, <1>7, <1>9, <3>1, <3>2
    <2>2. ASSUME NEW q \in Objects PROVE HasFrom(vptr[q], q, Made)'
      <3>1. HasFrom(vptr[q], q, Made) /\ HasFrom(vptr[o], o, Made) /\ Made \in 0 .. Made
        BY <1>1 DEF Stacked
      <3>2. CASE q = p
        <4>1. vptr'[q] = vptr[o]
          BY <1>1, <1>2, <3>2 DEF HookTypes
        <4> QED
          BY <1>1, <1>2, <1>9, <3>1, <3>2, <4>1
      <3>3. CASE q = o
        <4>1. vptr'[q] = ClassTable /\ \A k \in 1 .. Made : hook'[k].classBase # q
          BY <1>1, <1>2, <1>5, <3>3 DEF HookTypes
        <4> QED
          BY <1>1, <4>1 DEF HasFrom
      <3>4. CASE q # p /\ q # o
        <4>1. vptr'[q] = vptr[q]
          BY <1>1, <1>2, <3>4 DEF HookTypes
        <4> QED
          BY <1>1, <1>9, <3>1, <3>4, <4>1
      <3> QED
        BY <3>2, <3>3, <3>4
    <2>3. \A k \in 1 .. Made : CurOf(k)' = CurOf(k) /\ OldOf(k)' = OldOf(k) /\ InOverride(k)' = InOverride(k)
      BY <1>1, <1>4
    <2>4. ASSUME NEW k \in 1 .. Made
          PROVE  /\ k = IF InOverride(k)' THEN OldOf(k)' ELSE CurOf(k)'
                 /\ TableBelow(k)' < k /\ InUse(TableBelow(k))'
      <3>1. /\ k = IF InOverride(k) THEN OldOf(k) ELSE CurOf(k)
            /\ TableBelow(k) < k /\ InUse(TableBelow(k))
        BY <1>1 DEF Stacked
      <3>2. InUse(TableBelow(k))'
        BY <1>7, <1>8, <3>1
      <3> QED
        BY <1>7, <2>3, <3>1, <3>2
    <2>5. (\A t \in Hooks : table'[t] # NoTable <=> t \in 1 .. Made) /\ table'[ClassTable] # NoTable
      BY <1>1 DEF Stacked
    <2> QED
      BY <1>1, <2>1, <2>2, <2>4, <2>5 DEF Stacked
  <1>11. Entries'
    <2>1. SUFFICES ASSUME NEW t \in 0 .. Made, NEW i \in Slots, Proper(t, table[t][i], i)
                   PROVE  Proper(t, table[t][i], i)'
      BY <1>1 DEF Entries
    <2>2. t = ClassTable \/ t \in Hooks
      BY <1>1, HookFacts
    <2>3. CopyOf(t)' = CopyOf(t) /\ (t # ClassTable => InOverride(t)' = InOverride(t))
      BY <1>4, <2>2 DEF CopyOf
    <2>4. \A k \in 1 .. Made : /\ Reaches(t, k) => Reaches(t, k)'
                               /\ \A f : Stands(k, f, i) => Stands(k, f, i)'
      BY <1>1, <1>4, <2>3 DEF Reaches, Stands
    <2> QED
      BY <1>1, <2>1, <2>4 DEF Proper
  <1>12. OneOwner'
    BY <1>1, <1>4 DEF OneOwner
  <1> QED
    BY <1>6, <1>10, <1>11, <1>12 DEF HookInv

(* What a hook is when it does not exist.                                  *)
LEMMA NoHookTyped == NoHook \in HookRecords
  <1>1. (CHOOSE o \in Objects : TRUE) \in Objects
    BY VFuncHookAssumption DEF VFuncHookAssumption
  <1>2. <<>> \in [{} -> Slots]
    OBVIOUS
  <1>3. <<>> \in IndexMaps
    BY <1>2 DEF IndexMaps
  <1> QED
    BY <1>1, <1>3 DEF NoHook, HookRecords, Tables

(* A new hook copies the table its object has.                             *)
LEMMA HookMakes ==
    ASSUME HookInv, NEW h \in Hooks, NEW o \in Objects, NEW mode \in BOOLEAN, MakeHook(h, o, mode)
    PROVE  HookInv'
  <1>1. /\ HookTypes /\ Stacked /\ Entries /\ OneOwner /\ Made \in Nat
        /\ 1 .. Made \subseteq Hooks /\ Hooks \subseteq Nat /\ h # ClassTable /\ ClassTable = 0
        /\ 0 .. Made \subseteq Tables /\ h \in Tables
    BY MadeFacts, HookFacts DEF HookInv, Tables
  <1>2. h = Made + 1
    <2>1. h \notin 1 .. Made /\ \A g \in Hooks : g < h => g \in 1 .. Made
      BY <1>1, MadeFacts DEF MakeHook
    <2>2. h > Made
      BY <1>1, <2>1 DEF Hooks
    <2>3. h > Made + 1 => Made + 1 \in Hooks
      BY <1>1, HookFacts DEF Hooks
    <2> QED
      BY <1>1, <2>1, <2>2, <2>3
  <1> PICK t : t = vptr[o]
    OBVIOUS
  <1>3. /\ t \in Tables /\ t \in 0 .. Made /\ InUse(t) /\ table[t] \in [Slots -> AllFunctions]
        /\ HasFrom(t, o, Made)
    <2>1. t \in Tables /\ HasFrom(t, o, Made)
      BY <1>1 DEF HookTypes, Stacked
    <2>2. \A k \in 1 .. Made : Tops(k) \subseteq {u \in 0 .. Made : InUse(u)}
      <3>1. ASSUME NEW k \in 1 .. Made PROVE Tops(k) \subseteq {u \in 0 .. Made : InUse(u)}
        <4>1. CurOf(k) \in 0 .. Made /\ OldOf(k) \in 0 .. Made /\ InUse(CurOf(k))
          BY <1>1, TablesOfHook
        <4>2. ~InOverride(k) => k = CurOf(k) /\ InUse(OldOf(k))
          BY <1>1 DEF Stacked, TableBelow
        <4> QED
          BY <4>1, <4>2 DEF Tops
      <3> QED
        BY <3>1
    <2>3. t \in 0 .. Made /\ InUse(t)
      BY <1>1, <2>1, <2>2 DEF HasFrom, InUse
    <2>4. table[t] # NoTable
      BY <1>1, <2>3 DEF Stacked
    <2> QED
      BY <1>1, <2>1, <2>3, <2>4 DEF HookTypes
  <1> PICK r : r = [classBase |-> o, overridePointers |-> mode,
                    curVTable |-> IF mode THEN t ELSE h,
                    oldVTable |-> IF mode THEN h ELSE t,
                    indexes |-> <<>>]
    OBVIOUS
  <1>4. /\ table' = [table EXCEPT ![h] = table[t]]
        /\ vptr' = IF mode THEN vptr ELSE [vptr EXCEPT ![o] = h]
        /\ hook' = [hook EXCEPT ![h] = r]
        /\ made' = Append(made, h)
    BY DEF MakeHook
  <1>5. r \in HookRecords
    <2>1. <<>> \in IndexMaps
      BY NoHookTyped DEF HookRecords, NoHook
    <2> QED
      BY <1>1, <1>3, <2>1 DEF HookRecords
  <1>6. Made' = h /\ made' \in Seq(Hooks) /\ \A n \in 1 .. h : made'[n] = n
    BY <1>1, <1>2, <1>4 DEF HookTypes, Made
  <1>7. HookTypes'
    <2>1. h \in 0 .. MaxHooks
      BY <1>1, HookFacts DEF Hooks
    <2> QED
      BY <1>1, <1>3, <1>4, <1>5, <1>6, <2>1 DEF HookTypes
  <1>8. \A k \in 1 .. Made : k \in Hooks /\ k # h /\ hook'[k] = hook[k]
    BY <1>1, <1>2, <1>4 DEF HookTypes
  <1>9. hook'[h] = r
    BY <1>1, <1>4 DEF HookTypes
  <1>10. \A k \in 1 .. Made : /\ InOverride(k)' = InOverride(k) /\ CurOf(k)' = CurOf(k)
                              /\ OldOf(k)' = OldOf(k) /\ TableBelow(k)' = TableBelow(k)
                              /\ Tops(k)' = Tops(k)
                              /\ \A f, i : Stands(k, f, i)' <=> Stands(k, f, i)
    BY <1>8 DEF InOverride, CurOf, OldOf, TableBelow, Tops, Stands
  <1>11. InOverride(h)' = mode /\ CurOf(h)' = (IF mode THEN t ELSE h) /\ OldOf(h)' = IF mode THEN h ELSE t
    BY <1>9 DEF InOverride, CurOf, OldOf
  <1>12. TableBelow(h)' = t /\ Tops(h)' = IF mode THEN {t} ELSE {h, t}
    BY <1>11 DEF TableBelow, Tops
  <1>13. ASSUME NEW u, InUse(u) PROVE InUse(u)'
    BY <1>1, <1>2, <1>6, <1>10, <1>13 DEF InUse
  <1>14. ASSUME NEW u, NEW q, NEW n \in 0 .. Made, HasFrom(u, q, n) PROVE HasFrom(u, q, n)'
    <2>1. 1 .. n \subseteq 1 .. Made /\ \A k \in 1 .. n : k + 1 .. n \subseteq 1 .. n
      BY <1>1
    <2> QED
      BY <1>8, <1>10, <1>14, <2>1 DEF HasFrom
  <1>15. Stacked'
    <2>1. ASSUME NEW k \in 1 .. h
          PROVE  /\ k = IF InOverride(k)' THEN OldOf(k)' ELSE CurOf(k)'
                 /\ TableBelow(k)' < k /\ InUse(TableBelow(k))'
                 /\ HasFrom(TableBelow(k), hook[k].classBase, k - 1)'
      <3>1. CASE k = h
        <4>1. t < h /\ InUse(t)' /\ HasFrom(t, o, h - 1)'
          <5>1. h - 1 = Made /\ h - 1 \in 0 .. Made /\ t < h
            BY <1>1, <1>2, <1>3
          <5>2. HasFrom(t, o, h - 1)
            BY <1>3, <5>1
          <5> QED
            BY <1>3, <1>13, <1>14, <5>1, <5>2
        <4>2. hook'[k].classBase = o
          BY <1>9, <3>1
        <4>3. HasFrom(TableBelow(k), hook[k].classBase, k - 1)'
          BY <1>12, <3>1, <4>1, <4>2
        <4>4. InUse(TableBelow(k))'
          BY <1>12, <3>1, <4>1
        <4> QED
          BY <1>11, <1>12, <3>1, <4>1, <4>3, <4>4
      <3>2. CASE k \in 1 .. Made
        <4>1. /\ k = IF InOverride(k) THEN OldOf(k) ELSE CurOf(k)
              /\ TableBelow(k) < k /\ InUse(TableBelow(k))
              /\ HasFrom(TableBelow(k), hook[k].classBase, k - 1)
              /\ k - 1 \in 0 .. Made
          BY <1>1, <3>2 DEF Stacked
        <4>2. InUse(TableBelow(k))'
          BY <1>10, <1>13, <3>2, <4>1
        <4>3. HasFrom(TableBelow(k), hook[k].classBase, k - 1)'
          BY <1>8, <1>10, <1>14, <3>2, <4>1
        <4> QED
          BY <1>10, <3>2, <4>1, <4>2, <4>3
      <3> QED
        BY <1>1, <1>2, <3>1, <3>2
    <2>2. ASSUME NEW q \in Objects PROVE HasFrom(vptr[q], q, h)'
      <3>1. CASE q = o
        <4>1. vptr'[q] \in Tops(h)'
          BY <1>1, <1>4, <1>12, <3>1 DEF HookTypes
        <4>2. hook'[h].classBase = q /\ h \in 1 .. h /\ h + 1 .. h = {}
          BY <1>1, <1>9, <1>2, <3>1
        <4> QED
          BY <4>1, <4>2 DEF HasFrom
      <3>2. CASE q # o
        <4>1. vptr'[q] = vptr[q] /\ HasFrom(vptr[q], q, Made) /\ Made \in 0 .. Made
          BY <1>1, <1>4, <3>2 DEF HookTypes, Stacked
        <4>3. hook'[h].classBase # q
          BY <1>9, <3>2
        <4>4. HasFrom(vptr'[q], q, Made)
          BY <4>1
        <4>5. \A k \in 1 .. h : k = h \/ k \in 1 .. Made
          BY <1>1, <1>2
        <4>6. \A k \in 1 .. Made : k \in 1 .. h
          BY <1>1, <1>2
        <4>7. \A k \in 1 .. Made : \A j \in k + 1 .. h : j = h \/ j \in k + 1 .. Made
          BY <1>1, <1>2
        <4>8. CASE vptr'[q] = ClassTable /\ \A k \in 1 .. Made : hook[k].classBase # q
          BY <1>8, <4>3, <4>5, <4>8 DEF HasFrom
        <4>9. CASE \E k \in 1 .. Made : /\ hook[k].classBase = q /\ vptr'[q] \in Tops(k)
                                        /\ \A j \in k + 1 .. Made : hook[j].classBase # q
          <5>1. PICK k \in 1 .. Made : /\ hook[k].classBase = q /\ vptr'[q] \in Tops(k)
                                       /\ \A j \in k + 1 .. Made : hook[j].classBase # q
            BY <4>9
          <5>2. \A j \in k + 1 .. Made : j \in 1 .. Made
            BY <1>1
          <5>3. /\ k \in 1 .. h /\ hook'[k].classBase = q /\ vptr'[q] \in Tops(k)'
                /\ \A j \in k + 1 .. h : hook'[j].classBase # q
            BY <1>8, <1>10, <4>3, <4>6, <4>7, <5>1, <5>2
          <5> QED
            BY <5>3 DEF HasFrom
        <4> QED
          BY <4>4, <4>8, <4>9 DEF HasFrom
      <3> QED
        BY <3>1, <3>2
    <2>3. ASSUME NEW u \in Hooks PROVE table'[u] # NoTable <=> u \in 1 .. h
      <3>1. CASE u = h
        BY <1>1, <1>2, <1>3, <1>4, <3>1, TablesHold DEF HookTypes
      <3>2. CASE u # h
        <4>1. table'[u] = table[u] /\ (u \in 1 .. h <=> u \in 1 .. Made)
          BY <1>1, <1>2, <1>4, <3>2 DEF HookTypes, Tables
        <4> QED
          BY <1>1, <4>1 DEF Stacked
      <3> QED
        BY <3>1, <3>2
    <2>4. table'[ClassTable] # NoTable
      BY <1>1, <1>4 DEF HookTypes, Stacked, Tables
    <2> QED
      BY <1>6, <2>1, <2>2, <2>3, <2>4 DEF Stacked
  <1>16. Entries'
    <2>1. ASSUME NEW u \in 0 .. h, NEW i \in Slots PROVE Proper(u, table[u][i], i)'
      <3>1. CASE u = h
        <4>1. table'[u] = table[t] /\ Proper(t, table[t][i], i)
          BY <1>1, <1>3, <1>4, <3>1 DEF HookTypes, Entries
        <4>2. CopyOf(t) = t /\ ~(t # ClassTable /\ InOverride(t))
          BY <1>1, <1>3 DEF InUse, CopyOf
        <4>3. CopyOf(h)' = (IF mode THEN t ELSE h) /\ (InOverride(h)' <=> mode) /\ h # ClassTable
          BY <1>1, <1>11 DEF CopyOf
        <4>4. ASSUME NEW k \in 1 .. Made, Reaches(t, k) PROVE Reaches(h, k)'
          <5>1. CurOf(k) \in Nat /\ t \in Nat /\ t < h /\ k < h /\ CurOf(k)' = CurOf(k)
            BY <1>1, <1>2, <1>3, <1>10, TablesOfHook
          <5>2. CurOf(k) = t \/ (CurOf(k) < t /\ k < t)
            BY <4>2, <4>4 DEF Reaches
          <5> QED
            BY <1>1, <4>3, <5>1, <5>2 DEF Reaches
        <4>5. \A k \in 1 .. Made : k \in 1 .. h
          BY <1>1, <1>2
        <4> QED
          BY <1>6, <1>10, <3>1, <4>1, <4>4, <4>5 DEF Proper
      <3>2. CASE u \in 0 .. Made
        <4>1. table'[u] = table[u] /\ Proper(u, table[u][i], i)
          BY <1>1, <1>2, <1>4, <3>2 DEF HookTypes, Entries
        <4>2. CopyOf(u)' = CopyOf(u) /\ (u # ClassTable => InOverride(u)' = InOverride(u))
          BY <1>1, <1>10, <3>2 DEF CopyOf
        <4>3. \A k \in 1 .. Made : k \in 1 .. h /\ (Reaches(u, k) => Reaches(u, k)')
          BY <1>1, <1>2, <1>10, <4>2 DEF Reaches
        <4> QED
          BY <1>6, <1>10, <4>1, <4>3 DEF Proper
      <3> QED
        BY <1>1, <1>2, <3>1, <3>2
    <2> QED
      BY <1>6, <2>1 DEF Entries
  <1>17. OneOwner'
    <2>1. hook'[h].indexes = <<>> /\ DOMAIN hook'[h].indexes = {}
      BY <1>9
    <2>2. \A k \in 1 .. h : k = h \/ k \in 1 .. Made
      BY <1>1, <1>2
    <2> QED
      BY <1>1, <1>6, <1>8, <2>1, <2>2 DEF OneOwner
  <1> QED
    BY <1>7, <1>15, <1>16, <1>17 DEF HookInv

(* The newest hook goes.  Its object has the table from below it again,    *)
(* and in override mode the class's table is as the hook found it.         *)
LEMMA HookGoes ==
    ASSUME HookInv, NEW h \in Hooks, DestroyHook(h)
    PROVE  HookInv'
  <1> PICK o : o = hook[h].classBase
    OBVIOUS
  <1> PICK left : left = h - 1
    OBVIOUS
  <1>1. /\ HookTypes /\ Stacked /\ Entries /\ OneOwner /\ h = Made /\ h \in 1 .. Made
        /\ h \in Nat /\ left \in Nat /\ left + 1 = h /\ h # ClassTable /\ ClassTable = 0
        /\ 1 .. Made \subseteq Hooks /\ 0 .. Made \subseteq Tables
        /\ \A k \in 1 .. h : k = h \/ k \in 1 .. left
        /\ \A k \in 1 .. left : k \in 1 .. Made /\ k # h
    BY MadeFacts, HookFacts DEF HookInv, DestroyHook, Newest
  <1>2. /\ CurOf(h) \in Tables /\ OldOf(h) \in Tables /\ CurOf(h) \in 0 .. Made /\ InUse(CurOf(h))
        /\ \A t \in 0 .. Made : t \in Tables /\ table[t] \in [Slots -> AllFunctions]
    BY <1>1, TablesOfHook
  <1>3. o \in Objects
    BY <1>1 DEF HookTypes, HookRecords
  <1>4. vptr[o] \in Tops(h)
    <2>1. HasFrom(vptr[o], o, Made)
      BY <1>1, <1>3 DEF Stacked
    <2>2. \A k \in 1 .. Made : k # h => h \in k + 1 .. Made
      BY <1>1
    <2> QED
      BY <1>1, <2>1, <2>2 DEF HasFrom
  <1>5. /\ h = IF InOverride(h) THEN OldOf(h) ELSE CurOf(h)
        /\ TableBelow(h) < h /\ InUse(TableBelow(h))
        /\ HasFrom(TableBelow(h), o, left)
    BY <1>1 DEF Stacked
  <1>6. /\ vptr' = [vptr EXCEPT ![o] = TableBelow(h)]
        /\ table' = [t \in Tables |-> IF t = h THEN NoTable
                                      ELSE IF InOverride(h) /\ t = CurOf(h) THEN table[h]
                                      ELSE table[t]]
        /\ hook' = [hook EXCEPT ![h] = NoHook]
        /\ made' = Front(made)
    <2>1. hook' = [hook EXCEPT ![h] = NoHook] /\ made' = Front(made)
      BY DEF DestroyHook
    <2>2. CASE InOverride(h)
      <3>1. vptr[o] = CurOf(h) /\ TableBelow(h) = CurOf(h) /\ OldOf(h) = h
        BY <1>4, <1>5, <2>2 DEF Tops, TableBelow
      <3>2. vptr' = vptr /\ table' = [[table EXCEPT ![CurOf(h)] = table[h]] EXCEPT ![h] = NoTable]
        BY <2>2, <3>1 DEF DestroyHook, Restored, InOverride, CurOf, OldOf
      <3>3. vptr' = [vptr EXCEPT ![o] = TableBelow(h)]
        BY <1>1, <1>3, <3>1, <3>2 DEF HookTypes
      <3>4. table' = [t \in Tables |-> IF t = h THEN NoTable
                                       ELSE IF InOverride(h) /\ t = CurOf(h) THEN table[h]
                                       ELSE table[t]]
        BY <1>1, <1>2, <2>2, <3>2 DEF HookTypes
      <3> QED
        BY <2>1, <3>3, <3>4
    <2>3. CASE ~InOverride(h)
      <3>1. vptr[o] \in {h, OldOf(h)} /\ TableBelow(h) = OldOf(h) /\ CurOf(h) = h
        BY <1>4, <1>5, <2>3 DEF Tops, TableBelow
      <3>2. /\ vptr' = IF vptr[o] = h THEN [vptr EXCEPT ![o] = OldOf(h)] ELSE vptr
            /\ table' = [table EXCEPT ![h] = NoTable]
        BY <2>3, <3>1 DEF DestroyHook, Restored, InOverride, CurOf, OldOf
      <3>3. vptr' = [vptr EXCEPT ![o] = TableBelow(h)]
        BY <1>1, <1>3, <3>1, <3>2 DEF HookTypes
      <3>4. table' = [t \in Tables |-> IF t = h THEN NoTable
                                       ELSE IF InOverride(h) /\ t = CurOf(h) THEN table[h]
                                       ELSE table[t]]
        BY <1>1, <2>3, <3>2 DEF HookTypes
      <3> QED
        BY <2>1, <3>3, <3>4
    <2> QED
      BY <2>2, <2>3
  <1>7. Made' = left /\ made' \in Seq(Hooks) /\ \A n \in 1 .. left : made'[n] = n
    <2>1. made \in Seq(Hooks) /\ Len(made) = h /\ \A n \in 1 .. h : made[n] = n
      BY <1>1 DEF HookTypes, Made
    <2>2. made' = SubSeq(made, 1, left)
      BY <1>1, <1>6, <2>1 DEF Front
    <2>3. Len(made') = left /\ \A n \in 1 .. left : made'[n] = made[n]
      BY <1>1, <2>1, <2>2
    <2>4. made' \in Seq(Hooks)
      BY <1>1, <2>1, <2>2
    <2> QED
      BY <1>1, <2>1, <2>3, <2>4 DEF Made
  <1>8. TableBelow(h) \in Tables /\ TableBelow(h) \in 0 .. left
    <2>1. TableBelow(h) \in Tables
      BY <1>2 DEF TableBelow
    <2>2. TableBelow(h) \in 0 .. Made
      BY <1>1, <1>5 DEF InUse
    <2> QED
      BY <1>1, <1>5, <2>1, <2>2
  <1>9. HookTypes'
    <2>1. left \in 0 .. MaxHooks
      BY <1>1, MadeFacts, HookFacts
    <2>2. table' \in [Tables -> {NoTable} \union [Slots -> AllFunctions]]
      BY <1>1, <1>6 DEF HookTypes
    <2>3. hook' \in [Hooks -> HookRecords]
      BY <1>1, <1>6, NoHookTyped DEF HookTypes
    <2>4. vptr' \in [Objects -> Tables]
      BY <1>1, <1>6, <1>8 DEF HookTypes
    <2> QED
      BY <1>7, <2>1, <2>2, <2>3, <2>4 DEF HookTypes
  <1>10. \A k \in 1 .. left : k \in Hooks /\ hook'[k] = hook[k]
    BY <1>1, <1>6 DEF HookTypes
  <1>11. \A k \in 1 .. left : /\ InOverride(k)' = InOverride(k) /\ CurOf(k)' = CurOf(k)
                              /\ OldOf(k)' = OldOf(k) /\ TableBelow(k)' = TableBelow(k)
                              /\ Tops(k)' = Tops(k)
                              /\ \A f, i : Stands(k, f, i)' <=> Stands(k, f, i)
    BY <1>10 DEF InOverride, CurOf, OldOf, TableBelow, Tops, Stands
  <1>12. ASSUME NEW u \in Tables, u < h, InUse(u) PROVE InUse(u)'
    <2>1. u = ClassTable \/ u \in 1 .. left
      BY <1>1, <1>12 DEF InUse
    <2> QED
      BY <1>7, <1>11, <1>12, <2>1 DEF InUse
  <1>13. ASSUME NEW u, NEW q, NEW n \in 0 .. left, HasFrom(u, q, n) PROVE HasFrom(u, q, n)'
    <2>1. 1 .. n \subseteq 1 .. left /\ \A k \in 1 .. n : k + 1 .. n \subseteq 1 .. n
      BY <1>1
    <2> QED
      BY <1>10, <1>11, <1>13, <2>1 DEF HasFrom
  <1>14. Stacked'
    <2>1. ASSUME NEW k \in 1 .. left
          PROVE  /\ k = IF InOverride(k)' THEN OldOf(k)' ELSE CurOf(k)'
                 /\ TableBelow(k)' < k /\ InUse(TableBelow(k))'
                 /\ HasFrom(TableBelow(k), hook[k].classBase, k - 1)'
      <3>1. /\ k = IF InOverride(k) THEN OldOf(k) ELSE CurOf(k)
            /\ TableBelow(k) < k /\ InUse(TableBelow(k))
            /\ HasFrom(TableBelow(k), hook[k].classBase, k - 1)
            /\ k - 1 \in 0 .. left /\ k \in Nat /\ k < h /\ k \in 1 .. Made
        BY <1>1 DEF Stacked
      <3>2. TableBelow(k) \in Tables /\ TableBelow(k) \in Nat
        BY <1>1, <3>1, TablesOfHook DEF TableBelow
      <3>3. InUse(TableBelow(k))'
        BY <1>1, <1>11, <1>12, <3>1, <3>2
      <3>4. HasFrom(TableBelow(k), hook[k].classBase, k - 1)'
        BY <1>10, <1>11, <1>13, <3>1
      <3> QED
        BY <1>11, <3>1, <3>3, <3>4
    <2>2. ASSUME NEW q \in Objects PROVE HasFrom(vptr[q], q, left)'
      <3>1. CASE q = o
        <4>1. vptr'[q] = TableBelow(h)
          BY <1>1, <1>3, <1>6, <3>1 DEF HookTypes
        <4>2. left \in 0 .. left
          BY <1>1
        <4> QED
          BY <1>5, <1>10, <1>11, <1>13, <3>1, <4>1, <4>2 DEF HasFrom
      <3>2. CASE q # o
        <4>1. vptr'[q] = vptr[q] /\ HasFrom(vptr[q], q, Made) /\ hook[h].classBase # q
          BY <1>1, <1>6, <3>2 DEF HookTypes, Stacked
        <4>2. \A k \in 1 .. left : \A j \in k + 1 .. left : j \in k + 1 .. Made /\ j \in 1 .. left
          BY <1>1
        <4>3. HasFrom(vptr'[q], q, left)
          BY <1>1, <4>1, <4>2 DEF HasFrom
        <4>4. CASE vptr'[q] = ClassTable /\ \A k \in 1 .. left : hook[k].classBase # q
          BY <1>10, <4>4 DEF HasFrom
        <4>5. CASE \E k \in 1 .. left : /\ hook[k].classBase = q /\ vptr'[q] \in Tops(k)
                                        /\ \A j \in k + 1 .. left : hook[j].classBase # q
          <5>1. PICK k \in 1 .. left : /\ hook[k].classBase = q /\ vptr'[q] \in Tops(k)
                                       /\ \A j \in k + 1 .. left : hook[j].classBase # q
            BY <4>5
          <5>2. /\ hook'[k].classBase = q /\ vptr'[q] \in Tops(k)'
                /\ \A j \in k + 1 .. left : hook'[j].classBase # q
            BY <1>10, <1>11, <4>2, <5>1
          <5> QED
            BY <5>2 DEF HasFrom
        <4> QED
          BY <4>3, <4>4, <4>5 DEF HasFrom
      <3> QED
        BY <3>1, <3>2
    <2>3. ASSUME NEW u \in Tables
          PROVE  table'[u] # NoTable <=> u = ClassTable \/ u \in 1 .. left
      <3>1. table[h] # NoTable /\ table[ClassTable] # NoTable
        BY <1>1, <1>2, TablesHold
      <3>2. u = h \/ u = ClassTable \/ (u \in 1 .. left <=> u \in 1 .. Made)
        BY <1>1
      <3>3. u # ClassTable => (table[u] # NoTable <=> u \in 1 .. Made)
        BY <1>1 DEF Stacked, Tables
      <3>4. InOverride(h) /\ u = CurOf(h) => u = ClassTable \/ u \in 1 .. left
        BY <1>1, <1>5, <1>8 DEF TableBelow
      <3>5. u = h => table'[u] = NoTable /\ u # ClassTable /\ u \notin 1 .. left
        BY <1>1, <1>6
      <3>6. u # h => table'[u] = IF InOverride(h) /\ u = CurOf(h) THEN table[h] ELSE table[u]
        BY <1>6
      <3> QED
        BY <3>1, <3>2, <3>3, <3>4, <3>5, <3>6
    <2>4. (\A u \in Hooks : table'[u] # NoTable <=> u \in 1 .. left) /\ table'[ClassTable] # NoTable
      BY <2>3, HookFacts DEF Tables
    <2> QED
      BY <1>7, <2>1, <2>2, <2>4 DEF Stacked
  <1>15. Entries'
    <2>1. ASSUME NEW t \in 0 .. left, NEW i \in Slots PROVE Proper(t, table[t][i], i)'
      <3>1. t \in Tables /\ t \in 0 .. Made /\ t < h /\ t \in Nat /\ (t # ClassTable => t \in 1 .. left)
        BY <1>1
      <3>2. CopyOf(t)' = CopyOf(t) /\ (t # ClassTable => InOverride(t)' = InOverride(t))
        BY <1>11, <3>1 DEF CopyOf
      <3>3. \A k \in 1 .. left : Reaches(t, k) => Reaches(t, k)'
        BY <1>11, <3>2 DEF Reaches
      <3>4. ASSUME NEW f, Proper(t, f, i), ~Reaches(t, h) \/ ~Stands(h, f, i)
            PROVE  f = Original(i) \/ \E k \in 1 .. left : Stands(k, f, i)' /\ Reaches(t, k)'
        BY <1>1, <1>11, <3>3, <3>4 DEF Proper
      <3>5. CASE InOverride(h) /\ t = CurOf(h)
        <4>1. table'[t] = table[h] /\ Proper(h, table[h][i], i) /\ OldOf(h) = h
          BY <1>1, <1>5, <1>6, <3>1, <3>5 DEF Entries
        <4>2. ~Reaches(h, h)
          BY <1>1, <3>5 DEF Reaches
        <4>3. ASSUME NEW k \in 1 .. left, Reaches(h, k) PROVE Reaches(t, k)
          <5>1. CopyOf(h) = t /\ CopyOf(t) = t /\ ~(t # ClassTable /\ InOverride(t))
            BY <1>1, <1>2, <3>5 DEF CopyOf, InUse
          <5> QED
            BY <4>3, <5>1 DEF Reaches
        <4> QED
          BY <1>1, <1>7, <1>11, <3>3, <4>1, <4>2, <4>3 DEF Proper
      <3>6. CASE ~(InOverride(h) /\ t = CurOf(h))
        <4>1. table'[t] = table[t] /\ Proper(t, table[t][i], i)
          BY <1>1, <1>6, <3>1, <3>6 DEF Entries
        <4>2. ~Reaches(t, h)
          <5>1. CASE t # ClassTable /\ InOverride(t)
            BY <1>1, <3>1, <5>1 DEF Reaches
          <5>2. CASE ~(t # ClassTable /\ InOverride(t))
            <6>1. CopyOf(t) = t /\ CurOf(h) # t
              BY <1>1, <1>5, <3>1, <3>6, <5>2 DEF CopyOf
            <6> QED
              BY <1>1, <3>1, <6>1 DEF Reaches
          <5> QED
            BY <5>1, <5>2
        <4> QED
          BY <1>7, <3>4, <4>1, <4>2 DEF Proper
      <3> QED
        BY <3>5, <3>6
    <2> QED
      BY <1>7, <2>1 DEF Entries
  <1>16. OneOwner'
    BY <1>1, <1>7, <1>10 DEF OneOwner
  <1> QED
    BY <1>9, <1>14, <1>15, <1>16 DEF HookInv

LEMMA HookAlways == HookSpec => []HookInv
  <1>1. HookInv /\ [HookNext]_hookVars => HookInv'
    <2> SUFFICES ASSUME HookInv, [HookNext]_hookVars PROVE HookInv'
      OBVIOUS
    <2>1. CASE UNCHANGED hookVars
      <3>1. vptr' = vptr /\ table' = table /\ hook' = hook /\ made' = made /\ Made' = Made
        BY <2>1 DEF hookVars, Made
      <3>2. HookTypes' /\ OneOwner'
        BY <3>1 DEF HookInv, HookTypes, OneOwner
      <3>3. Stacked'
        <4>1. Stacked
          BY DEF HookInv
        <4>2. /\ \A t : InUse(t)' <=> InUse(t)
              /\ \A h : TableBelow(h)' = TableBelow(h)
          BY <3>1 DEF InUse, TableBelow, CurOf, OldOf, InOverride
        <4>3. \A t, o, n : HasFrom(t, o, n)' <=> HasFrom(t, o, n)
          BY <3>1 DEF HasFrom, Tops, CurOf, OldOf, InOverride
        <4> QED
          BY <3>1, <4>1, <4>2, <4>3 DEF Stacked, TableBelow, CurOf, OldOf, InOverride
      <3>4. Entries'
        BY <3>1 DEF HookInv, Entries, Proper, Reaches, CopyOf, Stands, CurOf, InOverride
      <3> QED
        BY <3>2, <3>3, <3>4 DEF HookInv
    <2>2. CASE \E h \in Hooks, o \in Objects, mode \in BOOLEAN : MakeHook(h, o, mode)
      BY <2>2, HookMakes
    <2>3. CASE \E h \in Hooks, i \in Slots, f \in Functions : Hook(h, i, f)
      BY <2>3, HookHooks
    <2>4. CASE (\E h \in Hooks, f \in Functions : Unhook(h, f)) \/ \E h \in Hooks, i \in Slots : UnhookID(h, i)
      BY <2>4, HookUnhooks
    <2>5. CASE \E h \in Hooks : UnhookAll(h) \/ DestroyHook(h)
      BY <2>5, HookUnhooksAll, HookGoes
    <2>6. CASE \E o, p \in Objects : UpdateBase(o, p)
      BY <2>6, HookMoves
    <2> QED
      BY <2>1, <2>2, <2>3, <2>4, <2>5, <2>6 DEF HookNext
  <1> QED
    BY <1>1, HookBegins, PTL DEF HookSpec

-----------------------------------------------------------------------------
(* What calls end in                                                       *)

(* The functions of a hook's table that calls may come to from its own.    *)
Under(k) ==
    {f \in Functions : \E j \in 1 .. Made :
        /\ f \in DOMAIN hook[j].indexes
        /\ CurOf(j) < CurOf(k) \/ (CurOf(j) = CurOf(k) /\ j <= k)}

(* What a function calls, and itself when it belongs to no hook.           *)
Called(g) ==
    IF \E h \in Hooks : OwnedBy(h, g)
    THEN GetOriginal(CHOOSE h \in Hooks : OwnedBy(h, g), g)
    ELSE g

(* call[n] follows n calls.                                                *)
FollowsCalls(call, n) ==
    \A k \in 0 .. n : call[k] = [g \in AllFunctions |->
                                    IF k = 0 \/ ~ \E h \in Hooks : OwnedBy(h, g)
                                    THEN g
                                    ELSE call[k - 1][Called(g)]]

(* A hook that has function f at index i owns it alone, and calls on from  *)
(* there to a function of the class or of a hook under it.                 *)
LEMMA CalledBelow ==
    ASSUME HookInv, NEW k \in 1 .. Made, NEW f, NEW i, Stands(k, f, i)
    PROVE  /\ f \in Functions /\ i \in Slots /\ (\E h \in Hooks : OwnedBy(h, f))
           /\ Called(f) \in AllFunctions /\ IsFiniteSet(Under(k)) /\ f \in Under(k)
           /\ \/ Called(f) = Original(i)
              \/ \E j \in 1 .. Made : /\ Stands(j, Called(f), i)
                                      /\ Under(j) \subseteq Under(k) \ {f}
  <1>1. /\ HookTypes /\ Stacked /\ Entries /\ OneOwner /\ k \in Hooks /\ k \in Nat
        /\ \A h \in Hooks : Exists(h) <=> h \in 1 .. Made
        /\ \A h \in 1 .. Made : h \in Hooks /\ h \in Nat /\ CurOf(h) \in Nat /\ OldOf(h) \in 0 .. Made
    BY MadeFacts, TablesOfHook, HookFacts DEF HookInv
  <1>2. f \in Functions /\ i \in Slots
    <2>1. hook[k].indexes \in IndexMaps
      BY <1>1 DEF HookTypes, HookRecords
    <2>2. PICK F \in SUBSET Functions : hook[k].indexes \in [F -> Slots]
      BY <2>1 DEF IndexMaps
    <2> QED
      BY <2>2 DEF Stands
  <1>3. OwnedBy(k, f) /\ \A h \in Hooks : OwnedBy(h, f) => h = k
    BY <1>1, <1>2 DEF OwnedBy, Stands, OneOwner
  <1>4. Called(f) = table[OldOf(k)][i]
    <2>1. (CHOOSE h \in Hooks : OwnedBy(h, f)) = k
      BY <1>1, <1>3
    <2> QED
      BY <1>1, <1>3, <2>1 DEF Called, GetOriginal, OldEntry, OldOf, Stands
  <1>5. Called(f) \in AllFunctions /\ Proper(OldOf(k), Called(f), i)
    <2>1. table[OldOf(k)] \in [Slots -> AllFunctions]
      BY <1>1, TablesOfHook
    <2> QED
      BY <1>1, <1>2, <1>4, <2>1 DEF Entries
  <1>6. IsFiniteSet(Under(k)) /\ f \in Under(k)
    <2>1. Under(k) \subseteq Functions
      BY DEF Under
    <2>2. IsFiniteSet(Under(k))
      BY <2>1, VFuncHookAssumption, FS_Subset DEF VFuncHookAssumption
    <2> QED
      BY <1>1, <1>2, <2>2 DEF Under, Stands
  <1>7. ASSUME NEW j \in 1 .. Made, Stands(j, Called(f), i), Reaches(OldOf(k), j)
        PROVE  Under(j) \subseteq Under(k) \ {f}
    <2>1. CurOf(j) < CurOf(k) \/ (CurOf(j) = CurOf(k) /\ j < k)
      BY <1>1, <1>7, OldDescends
    <2>2. SUFFICES ASSUME NEW g \in Under(j) PROVE g \in Under(k) /\ g # f
      OBVIOUS
    <2>3. PICK m \in 1 .. Made : /\ g \in DOMAIN hook[m].indexes
                                 /\ CurOf(m) < CurOf(j) \/ (CurOf(m) = CurOf(j) /\ m <= j)
      BY <2>2 DEF Under
    <2>4. CurOf(m) < CurOf(k) \/ (CurOf(m) = CurOf(k) /\ m < k)
      BY <1>1, <2>1, <2>3
    <2>5. m # k
      BY <1>1, <2>4
    <2>6. g # f
      BY <1>1, <1>2, <2>3, <2>5 DEF OneOwner, Stands
    <2> QED
      BY <1>1, <2>2, <2>3, <2>4, <2>6 DEF Under
  <1> QED
    BY <1>1, <1>2, <1>3, <1>5, <1>6, <1>7 DEF Proper

(* Enough calls end in the class's function.                               *)
LEMMA CallsDescend ==
    ASSUME HookInv, NEW call, NEW last \in Nat, FollowsCalls(call, last)
    PROVE  /\ \A n \in 0 .. last, i \in Slots : call[n][Original(i)] = Original(i)
           /\ \A n \in 0 .. last : \A k \in 1 .. Made : \A f, i :
                 Stands(k, f, i) /\ Cardinality(Under(k)) <= n => call[n][f] = Original(i)
  <1>1. ASSUME NEW n \in 0 .. last, NEW i \in Slots PROVE call[n][Original(i)] = Original(i)
    <2>1. Original(i) \in AllFunctions /\ Original(i) \notin Functions
      BY HookFacts
    <2>2. ~ \E h \in Hooks : OwnedBy(h, Original(i))
      <3>1. \A h \in Hooks : hook[h].indexes \in IndexMaps
        BY DEF HookInv, HookTypes, HookRecords
      <3>2. \A h \in Hooks : DOMAIN hook[h].indexes \subseteq Functions
        BY <3>1 DEF IndexMaps
      <3> QED
        BY <2>1, <3>2 DEF OwnedBy
    <2>3. call[n] = [g \in AllFunctions |->
                       IF n = 0 \/ ~ \E h \in Hooks : OwnedBy(h, g)
                       THEN g
                       ELSE call[n - 1][Called(g)]]
      BY DEF FollowsCalls
    <2> QED
      BY <2>1, <2>2, <2>3
  <1> DEFINE T == {n \in Nat : n <= last => \A k \in 1 .. Made : \A f, i :
                      Stands(k, f, i) /\ Cardinality(Under(k)) <= n => call[n][f] = Original(i)}
  <1>2. 0 \in T
    <2> SUFFICES ASSUME NEW k \in 1 .. Made, NEW f, NEW i, Stands(k, f, i) PROVE ~(Cardinality(Under(k)) <= 0)
      OBVIOUS
    <2>1. IsFiniteSet(Under(k)) /\ Under(k) # {}
      BY CalledBelow
    <2> QED
      BY <2>1, FS_EmptySet, FS_CardinalityType
  <1>3. ASSUME NEW n \in Nat, n \in T PROVE n + 1 \in T
    <2> SUFFICES ASSUME n + 1 <= last, NEW k \in 1 .. Made, NEW f, NEW i, Stands(k, f, i),
                        Cardinality(Under(k)) <= n + 1
                 PROVE  call[n + 1][f] = Original(i)
      OBVIOUS
    <2>1. n \in 0 .. last /\ n + 1 \in 0 .. last /\ n + 1 # 0 /\ (n + 1) - 1 = n
      OBVIOUS
    <2>2. /\ f \in Functions /\ i \in Slots /\ (\E h \in Hooks : OwnedBy(h, f))
          /\ IsFiniteSet(Under(k)) /\ f \in Under(k) /\ f \in AllFunctions
      BY CalledBelow, HookFacts
    <2>3. call[n + 1][f] = call[n][Called(f)]
      <3>1. call[n + 1] = [g \in AllFunctions |->
                             IF n + 1 = 0 \/ ~ \E h \in Hooks : OwnedBy(h, g)
                             THEN g
                             ELSE call[(n + 1) - 1][Called(g)]]
        BY <2>1 DEF FollowsCalls
      <3> QED
        BY <2>1, <2>2, <3>1
    <2>4. CASE Called(f) = Original(i)
      BY <1>1, <2>1, <2>2, <2>3, <2>4
    <2>5. CASE \E j \in 1 .. Made : Stands(j, Called(f), i) /\ Under(j) \subseteq Under(k) \ {f}
      <3>1. PICK j \in 1 .. Made : Stands(j, Called(f), i) /\ Under(j) \subseteq Under(k) \ {f}
        BY <2>5
      <3>2. Cardinality(Under(k) \ {f}) = Cardinality(Under(k)) - 1 /\ IsFiniteSet(Under(k) \ {f})
        BY <2>2, FS_RemoveElement
      <3>3. Cardinality(Under(j)) <= Cardinality(Under(k) \ {f})
        BY <3>1, <3>2, FS_Subset
      <3>4. Cardinality(Under(j)) <= n
        <4>1. Cardinality(Under(k)) \in Nat /\ Cardinality(Under(j)) \in Nat
          BY <2>2, <3>1, CalledBelow, FS_CardinalityType
        <4> QED
          BY <3>2, <3>3, <4>1
      <3> QED
        BY <1>3, <2>1, <2>3, <3>1, <3>4
    <2> QED
      BY <2>4, <2>5, CalledBelow
  <1>4. \A n \in Nat : n \in T
    <2> HIDE DEF T
    <2> QED
      BY <1>2, <1>3, Inductive
  <1> QED
    BY <1>1, <1>4

(* The recursion of CallEndsIn is defined.                                 *)
LEMMA CallsAreFollowed ==
    ASSUME HookInv
    PROVE  \E call : /\ FollowsCalls(call, Cardinality(Functions))
                     /\ \A f : CallEndsIn(f) = call[Cardinality(Functions)][f]
  <1> DEFINE last == Cardinality(Functions)
             owned(g) == \E h \in Hooks : OwnedBy(h, g)
             next(L) == [g \in AllFunctions |-> IF ~owned(g) THEN g ELSE L[Called(g)]]
             call[n \in 0 .. last] ==
                [g \in AllFunctions |->
                    IF n = 0 \/ ~ \E h \in Hooks : OwnedBy(h, g)
                    THEN g
                    ELSE call[n - 1][GetOriginal(CHOOSE h \in Hooks : OwnedBy(h, g), g)]]
             S == [AllFunctions -> AllFunctions]
             step == [L \in S |-> next(L)]
             self == [g \in AllFunctions |-> g]
  <1>1. last \in Nat
    BY VFuncHookAssumption, FS_CardinalityType DEF VFuncHookAssumption
  <1>2. \A g \in AllFunctions : owned(g) => Called(g) \in AllFunctions
    <2> SUFFICES ASSUME NEW g, owned(g) PROVE Called(g) \in AllFunctions
      OBVIOUS
    <2>1. PICK h \in Hooks : OwnedBy(h, g)
      OBVIOUS
    <2>2. h \in 1 .. Made /\ Stands(h, g, hook[h].indexes[g])
      BY <2>1, MadeFacts DEF OwnedBy, Stands, HookInv
    <2> QED
      BY <2>2, CalledBelow
  <1>3. step \in [S -> S] /\ self \in S
    BY <1>2
  <1>4. \A f : CallEndsIn(f) = call[last][f]
    BY DEF CallEndsIn
  <1>5. call = [n \in 0 .. last |->
                   [g \in AllFunctions |->
                       IF n = 0 \/ ~ \E h \in Hooks : OwnedBy(h, g)
                       THEN g
                       ELSE call[n - 1][GetOriginal(CHOOSE h \in Hooks : OwnedBy(h, g), g)]]]
    <2>1. \E F \in [0 .. last -> S] : Follows(F, self, step, last)
      <3> HIDE DEF S, self, step, last
      <3> QED
        BY <1>1, <1>3, StepByStep
    <2>2. PICK F \in [0 .. last -> S] : Follows(F, self, step, last)
      BY <2>1
    <2>3. ASSUME NEW n \in 0 .. last
          PROVE  F[n] = [g \in AllFunctions |->
                            IF n = 0 \/ ~ \E h \in Hooks : OwnedBy(h, g)
                            THEN g
                            ELSE F[n - 1][GetOriginal(CHOOSE h \in Hooks : OwnedBy(h, g), g)]]
      <3>1. F[n] = IF n = 0 THEN self ELSE step[F[n - 1]]
        BY <2>2 DEF Follows
      <3>2. CASE n = 0
        BY <3>1, <3>2
      <3>3. CASE n # 0
        <4>1. n - 1 \in 0 .. last
          BY <1>1, <3>3
        <4>2. F[n - 1] \in S
          BY <4>1
        <4>3. F[n] = next(F[n - 1])
          BY <3>1, <3>3, <4>2
        <4>4. \A g : owned(g) => Called(g) = GetOriginal(CHOOSE h \in Hooks : OwnedBy(h, g), g)
          BY DEF Called
        <4> QED
          BY <3>3, <4>3, <4>4
      <3> QED
        BY <3>2, <3>3
    <2>4. F = [n \in 0 .. last |->
                   [g \in AllFunctions |->
                       IF n = 0 \/ ~ \E h \in Hooks : OwnedBy(h, g)
                       THEN g
                       ELSE F[n - 1][GetOriginal(CHOOSE h \in Hooks : OwnedBy(h, g), g)]]]
      <3> HIDE DEF last
      <3> QED
        BY <2>3
    <2> QED
      BY <2>4
  <1>6. FollowsCalls(call, last)
    <2> HIDE DEF call, last
    <2>1. \A g : owned(g) => Called(g) = GetOriginal(CHOOSE h \in Hooks : OwnedBy(h, g), g)
      BY DEF Called
    <2>2. SUFFICES ASSUME NEW k \in 0 .. last
                   PROVE  call[k] = [g \in AllFunctions |->
                                        IF k = 0 \/ ~ \E h \in Hooks : OwnedBy(h, g)
                                        THEN g
                                        ELSE call[k - 1][Called(g)]]
      BY DEF FollowsCalls
    <2>3. call[k] = [g \in AllFunctions |->
                       IF k = 0 \/ ~ \E h \in Hooks : OwnedBy(h, g)
                       THEN g
                       ELSE call[k - 1][GetOriginal(CHOOSE h \in Hooks : OwnedBy(h, g), g)]]
      BY <1>5
    <2> QED
      BY <2>1, <2>3
  <1> HIDE DEF call
  <1> QED
    BY <1>4, <1>6

LEMMA InvReachesTheClass == HookInv => CallsReachTheClass
  <1> SUFFICES ASSUME HookInv PROVE CallsReachTheClass
    OBVIOUS
  <1> DEFINE last == Cardinality(Functions)
  <1>1. /\ HookTypes /\ Stacked /\ Entries /\ Made \in Nat /\ ClassTable \in 0 .. Made
        /\ last \in Nat /\ last \in 0 .. last
    BY MadeFacts, HookFacts, VFuncHookAssumption, FS_CardinalityType DEF HookInv, VFuncHookAssumption
  <1>2. PICK call : /\ FollowsCalls(call, last)
                    /\ \A f : CallEndsIn(f) = call[last][f]
    BY CallsAreFollowed
  <1> HIDE DEF last
  <1>3. ASSUME NEW o \in Objects
        PROVE  /\ vptr[o] \in 0 .. Made /\ table[vptr[o]] # NoTable
               /\ \A i \in Slots : CallEndsIn(table[vptr[o]][i]) = Original(i)
    <2>1. HasFrom(vptr[o], o, Made)
      BY <1>1 DEF Stacked
    <2>2. vptr[o] \in 0 .. Made
      <3>1. CASE vptr[o] = ClassTable
        BY <1>1, <3>1
      <3>2. CASE \E k \in 1 .. Made : vptr[o] \in Tops(k)
        <4>1. PICK k \in 1 .. Made : vptr[o] \in Tops(k)
          BY <3>2
        <4>2. CurOf(k) \in 0 .. Made /\ OldOf(k) \in 0 .. Made /\ k \in 0 .. Made
          BY <1>1, TablesOfHook
        <4> QED
          BY <4>1, <4>2 DEF Tops
      <3> QED
        BY <2>1, <3>1, <3>2 DEF HasFrom
    <2>3. table[vptr[o]] # NoTable
      BY <1>1, <2>2, HookFacts, MadeFacts DEF Stacked, Tables
    <2>4. ASSUME NEW i \in Slots PROVE CallEndsIn(table[vptr[o]][i]) = Original(i)
      <3> DEFINE f == table[vptr[o]][i]
      <3>1. Proper(vptr[o], f, i)
        BY <1>1, <2>2 DEF Entries
      <3> HIDE DEF f
      <3>2. CASE f = Original(i)
        BY <1>1, <1>2, <3>2, CallsDescend DEF f
      <3>3. CASE \E k \in 1 .. Made : Stands(k, f, i)
        <4>1. PICK k \in 1 .. Made : Stands(k, f, i)
          BY <3>3
        <4>2. Under(k) \subseteq Functions
          BY DEF Under
        <4>3. Cardinality(Under(k)) <= last
          BY <4>2, VFuncHookAssumption, FS_Subset DEF VFuncHookAssumption, last
        <4> QED
          BY <1>1, <1>2, <4>1, <4>3, CallsDescend DEF f
      <3> QED
        BY <3>1, <3>2, <3>3 DEF Proper
    <2> QED
      BY <2>2, <2>3, <2>4
  <1>4. ASSUME made = <<>>
        PROVE  (\A o \in Objects : vptr[o] = ClassTable) /\ table[ClassTable] = ClassFunctions
    <2>1. Made = 0 /\ 1 .. Made = {}
      BY <1>4 DEF Made
    <2>2. \A o \in Objects : vptr[o] = ClassTable
      BY <2>1, <1>1 DEF Stacked, HasFrom
    <2>3. \A i \in Slots : table[ClassTable][i] = Original(i)
      BY <1>1, <2>1 DEF Entries, Proper
    <2>4. table[ClassTable] \in [Slots -> AllFunctions]
      BY <1>1, HookFacts DEF HookTypes, Stacked, Tables
    <2> QED
      BY <2>2, <2>3, <2>4 DEF ClassFunctions
  <1> QED
    BY <1>3, <1>4 DEF CallsReachTheClass

(* A call through an object's table ends in the function of its class at   *)
(* that index, whatever was hooked, unhooked, restored and moved before.   *)
THEOREM HooksReachTheClass == HookSpec => []CallsReachTheClass
  BY HookAlways, InvReachesTheClass, PTL

-----------------------------------------------------------------------------
(* Players                                                                 *)

(* What the constants are.                                                 *)
LEMMA PlayersFacts ==
    /\ Fields # {} /\ 1 \in Fields /\ Len(SizeOf) \in Nat \ {0} /\ Fields = 1 .. Len(SizeOf)
    /\ DOMAIN SizeOf = Fields /\ DOMAIN ExtraFor = Fields
    /\ \A f \in Fields : /\ f \in Nat \ {0} /\ SizeOf[f] \in Nat \ {0}
                         /\ AlignOf[f] \in Nat \ {0} /\ ExtraFor[f] \in Nat
                         /\ ExtraFor[f] >= AlignOf[f]
                         /\ f # 1 => f - 1 \in Fields
    /\ MallocAlign \in Nat \ {0} /\ MallocAlign % AlignOf[1] = 0
    /\ Memory \in Nat /\ MaxPlayers \in Nat /\ MaxCount \in Nat /\ MaxCount <= MaxPlayers
  <1>1. /\ SizeOf \in Seq(Nat \ {0}) /\ AlignOf \in Seq(Nat \ {0}) /\ ExtraFor \in Seq(Nat)
        /\ Fields # {} /\ Len(AlignOf) = Len(SizeOf) /\ Len(ExtraFor) = Len(SizeOf)
        /\ \A f \in Fields : ExtraFor[f] >= AlignOf[f]
        /\ MallocAlign \in Nat \ {0} /\ MallocAlign % AlignOf[1] = 0
        /\ Memory \in Nat /\ MaxPlayers \in Nat /\ MaxCount \in 0 .. MaxPlayers
    BY PlayersAssumption DEF PlayersAssumption
  <1>2. /\ Fields = 1 .. Len(SizeOf) /\ DOMAIN SizeOf = Fields /\ DOMAIN ExtraFor = Fields
        /\ DOMAIN AlignOf = Fields /\ Len(SizeOf) \in Nat
    BY <1>1 DEF Fields
  <1>3. Len(SizeOf) # 0
    BY <1>1, <1>2
  <1> QED
    BY <1>1, <1>2, <1>3

(* The next multiple of a number is less than that number above.           *)
LEMMA AlignUpAligns ==
    ASSUME NEW address \in Nat, NEW align \in Nat \ {0}
    PROVE  /\ AlignUp(address, align) \in Nat
           /\ AlignUp(address, align) % align = 0
           /\ address <= AlignUp(address, align) /\ AlignUp(address, align) < address + align
  <1> DEFINE j == address + align - 1
             q == j \div align
             r == j % align
  <1>1. j \in Nat /\ q \in Nat /\ r \in 0 .. align - 1 /\ j = align * q + r
    <2>1. j \in Nat /\ j \in Int
      OBVIOUS
    <2> HIDE DEF j
    <2>2. /\ j \div align \in Int /\ j % align \in 0 .. align - 1
          /\ j = align * (j \div align) + (j % align)
          /\ j \in Nat => j \div align \in Nat
      BY ONLY <2>1, align \in Nat \ {0}, DivMod
    <2> QED
      BY <2>1, <2>2
  <1>2. AlignUp(address, align) = q * align
    BY DEF AlignUp
  <1> HIDE DEF q, r
  <1>3. q * align \in Nat /\ q * align = j - r
    BY <1>1
  <1>4. (q * align) % align = 0
    <2>1. q \in Int /\ 0 \in 0 .. align - 1 /\ align * q + 0 = q * align
      BY <1>1
    <2>2. (align * q + 0) % align = 0
      BY <2>1, DivModIs, Zenon
    <2> QED
      BY <2>1, <2>2
  <1> QED
    BY <1>1, <1>2, <1>3, <1>4

(* The sums of the first n sizes and needs.                                *)
SumTo(seq, n) == SumFunction([j \in 1 .. n |-> seq[j]])

LEMMA SumsTo ==
    ASSUME NEW seq \in Seq(Nat)
    PROVE  /\ SumTo(seq, 0) = 0 /\ SumTo(seq, Len(seq)) = SumFunction(seq)
           /\ \A n \in 1 .. Len(seq) : /\ SumTo(seq, n) \in Nat /\ SumTo(seq, n - 1) \in Nat
                                       /\ SumTo(seq, n) = seq[n] + SumTo(seq, n - 1)
  <1>1. SumTo(seq, 0) = 0
    BY SumNone DEF SumTo
  <1>2. seq = [j \in 1 .. Len(seq) |-> seq[j]]
    OBVIOUS
  <1>3. ASSUME NEW n \in 1 .. Len(seq)
        PROVE  /\ SumTo(seq, n) \in Nat /\ SumTo(seq, n - 1) \in Nat
               /\ SumTo(seq, n) = seq[n] + SumTo(seq, n - 1)
    <2> DEFINE f == [j \in 1 .. n |-> seq[j]]
               e == [j \in 1 .. n - 1 |-> seq[j]]
    <2>1. IsFiniteSet(1 .. n - 1)
      BY FS_Interval
    <2>2. Prolongs(f, e, 1 .. n - 1, n)
      BY DEF Prolongs
    <2> HIDE DEF f, e
    <2>3. SumFunction(e) \in Nat /\ SumFunction(f) = f[n] + SumFunction(e)
      BY <2>1, <2>2, SumMore
    <2>4. f[n] = seq[n] /\ seq[n] \in Nat
      BY DEF f
    <2> QED
      BY <2>3, <2>4 DEF SumTo, f, e
  <1> QED
    BY <1>1, <1>2, <1>3 DEF SumTo

(* The addresses of a block's arrays satisfy their recursion.              *)
LEMMA ArraysStart ==
    ASSUME NEW base \in Nat, NEW cnt \in Nat
    PROVE  \A f \in Fields :
              /\ ArrayAt(base, cnt, f) \in Nat
              /\ ArrayAt(base, cnt, f) =
                    IF f = 1 THEN base
                    ELSE AlignUp(ArrayAt(base, cnt, f - 1) + SizeOf[f - 1] * cnt, AlignOf[f])
  <1> DEFINE next(g, a) == IF g = 1 THEN base ELSE AlignUp(a + SizeOf[g - 1] * cnt, AlignOf[g])
             start[g \in Fields] ==
                IF g = 1 THEN base ELSE AlignUp(start[g - 1] + SizeOf[g - 1] * cnt, AlignOf[g])
             step == [g \in 1 .. Len(SizeOf) |-> [a \in Nat |-> next(g, a)]]
  <1>1. \A f : ArrayAt(base, cnt, f) = start[f]
    BY DEF ArrayAt
  <1>2. \A g \in Fields : \A a \in Nat : next(g, a) \in Nat
    <2> SUFFICES ASSUME NEW g \in Fields, NEW a \in Nat, g # 1
                 PROVE  AlignUp(a + SizeOf[g - 1] * cnt, AlignOf[g]) \in Nat
      OBVIOUS
    <2>1. g - 1 \in Fields /\ SizeOf[g - 1] \in Nat /\ AlignOf[g] \in Nat \ {0}
      BY PlayersFacts
    <2>2. a + SizeOf[g - 1] * cnt \in Nat
      BY <2>1
    <2> QED
      BY <2>1, <2>2, AlignUpAligns
  <1>3. step \in [1 .. Len(SizeOf) -> [Nat -> Nat]]
    BY <1>2 DEF Fields
  <1>4. start = [g \in Fields |->
                    IF g = 1 THEN base ELSE AlignUp(start[g - 1] + SizeOf[g - 1] * cnt, AlignOf[g])]
        /\ \A g \in Fields : start[g] \in Nat
    <2>1. PICK F \in [0 .. Len(SizeOf) -> Nat] :
              F[0] = 0 /\ \A k \in 1 .. Len(SizeOf) : F[k] = step[k][F[k - 1]]
      <3> PICK n : n = Len(SizeOf)
        OBVIOUS
      <3> PICK S : S = Nat
        OBVIOUS
      <3> HIDE DEF step, start, next
      <3>1. 0 \in S /\ n \in Nat /\ step \in [1 .. n -> [S -> S]]
        BY <1>3, PlayersFacts
      <3>2. \E F \in [0 .. n -> S] : F[0] = 0 /\ \A k \in 1 .. n : F[k] = step[k][F[k - 1]]
        BY ONLY <3>1, StepsByIndex
      <3> QED
        BY <3>2
    <2> DEFINE G == [g \in Fields |-> F[g]]
    <2>2. ASSUME NEW g \in Fields
          PROVE  G[g] = IF g = 1 THEN base ELSE AlignUp(G[g - 1] + SizeOf[g - 1] * cnt, AlignOf[g])
      <3>1. g \in 1 .. Len(SizeOf) /\ g - 1 \in 0 .. Len(SizeOf) /\ F[g - 1] \in Nat
        <4>1. Len(SizeOf) \in Nat /\ g \in 1 .. Len(SizeOf)
          BY PlayersFacts
        <4>2. g - 1 \in 0 .. Len(SizeOf)
          BY <4>1
        <4> QED
          BY <4>1, <4>2
      <3>2. F[g] = next(g, F[g - 1])
        BY <2>1, <3>1
      <3>3. g # 1 => G[g - 1] = F[g - 1]
        BY PlayersFacts
      <3> QED
        BY <3>2, <3>3
    <2>3. G = [g \in Fields |->
                 IF g = 1 THEN base ELSE AlignUp(G[g - 1] + SizeOf[g - 1] * cnt, AlignOf[g])]
      BY <2>2
    <2>4. start = [g \in Fields |->
                    IF g = 1 THEN base ELSE AlignUp(start[g - 1] + SizeOf[g - 1] * cnt, AlignOf[g])]
      BY <2>3
    <2> HIDE DEF start, step, next
    <2>5. \A g \in Fields : start[g] =
              IF g = 1 THEN base ELSE AlignUp(start[g - 1] + SizeOf[g - 1] * cnt, AlignOf[g])
      BY <2>4
    <2> DEFINE T == {n \in Nat : n + 1 \in Fields => start[n + 1] \in Nat}
    <2>6. 0 \in T
      BY <2>5
    <2>7. ASSUME NEW n \in Nat, n \in T PROVE n + 1 \in T
      <3> SUFFICES ASSUME (n + 1) + 1 \in Fields PROVE start[(n + 1) + 1] \in Nat
        OBVIOUS
      <3>1. ((n + 1) + 1) - 1 = n + 1 /\ n + 1 \in Fields /\ (n + 1) + 1 # 1
        BY PlayersFacts
      <3>2. start[n + 1] \in Nat
        BY <2>7, <3>1
      <3>3. start[(n + 1) + 1] = next((n + 1) + 1, start[n + 1])
        BY <2>5, <3>1 DEF next
      <3> QED
        BY <1>2, <3>2, <3>3
    <2>8. \A n \in Nat : n \in T
      <3> HIDE DEF T
      <3> QED
        BY <2>6, <2>7, Inductive
    <2>9. \A g \in Fields : g - 1 \in Nat /\ (g - 1) + 1 = g
      BY PlayersFacts
    <2> QED
      BY <2>4, <2>8, <2>9
  <1> HIDE DEF start
  <1>5. \A g \in Fields : start[g] =
              IF g = 1 THEN base ELSE AlignUp(start[g - 1] + SizeOf[g - 1] * cnt, AlignOf[g])
    BY <1>4
  <1> QED
    BY <1>1, <1>4, <1>5

(* An array starts aligned, behind the one before it, and at most what the *)
(* arrays before it take and it and they may skip above the base.          *)
LEMMA ArraysLaid ==
    ASSUME NEW base \in Nat, NEW cnt \in Nat \ {0}, base % MallocAlign = 0
    PROVE  /\ \A f \in Fields :
                 /\ ArrayAt(base, cnt, f) % AlignOf[f] = 0
                 /\ base <= ArrayAt(base, cnt, f)
                 /\ ArrayAt(base, cnt, f) + SizeOf[f] * cnt <= base + BlockSizeFor(cnt)
           /\ \A f, g \in Fields :
                 f < g => ArrayAt(base, cnt, f) + SizeOf[f] * cnt <= ArrayAt(base, cnt, g)
           /\ ArrayAt(base, cnt, 1) = base /\ BlockSizeFor(cnt) \in Nat \ {0}
  <1> DEFINE place(f) == ArrayAt(base, cnt, f)
             end(f) == place(f) + SizeOf[f] * cnt
             S(n) == SumTo(SizeOf, n)
             X(n) == SumTo(ExtraFor, n)
             last == Len(SizeOf)
  <1>1. \A f \in Fields : /\ place(f) \in Nat
                          /\ place(f) = IF f = 1 THEN base
                                     ELSE AlignUp(place(f - 1) + SizeOf[f - 1] * cnt, AlignOf[f])
    BY ArraysStart
  <1>2. /\ S(0) = 0 /\ S(last) = SumFunction(SizeOf)
        /\ \A n \in Fields : S(n) \in Nat /\ S(n - 1) \in Nat /\ S(n) = SizeOf[n] + S(n - 1)
    <2>1. SizeOf \in Seq(Nat)
      BY PlayersAssumption DEF PlayersAssumption
    <2> QED
      BY <2>1, SumsTo DEF Fields
  <1>3. /\ X(0) = 0 /\ X(last) = SumFunction(ExtraFor)
        /\ \A n \in Fields : X(n) \in Nat /\ X(n - 1) \in Nat /\ X(n) = ExtraFor[n] + X(n - 1)
    <2>1. ExtraFor \in Seq(Nat) /\ Len(ExtraFor) = last
      BY PlayersAssumption DEF PlayersAssumption
    <2> QED
      BY <2>1, SumsTo DEF Fields
  <1> HIDE DEF place, S, X
  <1>4. \A f \in Fields : SizeOf[f] * cnt \in Nat \ {0} /\ end(f) \in Nat /\ end(f) > place(f)
    <2>1. \A f \in Fields : SizeOf[f] * cnt \in Nat /\ SizeOf[f] * cnt >= 1 * cnt
      BY PlayersFacts
    <2> QED
      BY <1>1, <2>1
  <1>5. \A f \in Fields : f # 1 => /\ place(f) % AlignOf[f] = 0 /\ end(f - 1) <= place(f)
                                   /\ place(f) < end(f - 1) + AlignOf[f]
    <2> SUFFICES ASSUME NEW f \in Fields, f # 1
                 PROVE  /\ place(f) % AlignOf[f] = 0 /\ end(f - 1) <= place(f)
                        /\ place(f) < end(f - 1) + AlignOf[f]
      OBVIOUS
    <2>1. place(f) = AlignUp(end(f - 1), AlignOf[f]) /\ f - 1 \in Fields /\ AlignOf[f] \in Nat \ {0}
      BY <1>1, PlayersFacts
    <2>2. end(f - 1) \in Nat
      BY <1>4, <2>1
    <2> HIDE DEF end
    <2>3. /\ AlignUp(end(f - 1), AlignOf[f]) % AlignOf[f] = 0
          /\ end(f - 1) <= AlignUp(end(f - 1), AlignOf[f])
          /\ AlignUp(end(f - 1), AlignOf[f]) < end(f - 1) + AlignOf[f]
      BY <2>1, <2>2, AlignUpAligns, Zenon
    <2> QED
      BY <2>1, <2>3, Zenon
  <1>6. place(1) = base /\ base % AlignOf[1] = 0
    <2>1. place(1) = base
      BY <1>1, PlayersFacts
    <2> DEFINE a == AlignOf[1]
               p == MallocAlign \div a
               q == base \div MallocAlign
    <2>2. /\ MallocAlign \in Nat \ {0} /\ a \in Nat \ {0} /\ MallocAlign % a = 0
          /\ MallocAlign \in Int /\ base \in Int
      BY PlayersFacts
    <2> HIDE DEF a
    <2>3. /\ MallocAlign \div a \in Int /\ MallocAlign = a * (MallocAlign \div a) + (MallocAlign % a)
          /\ base \div MallocAlign \in Int
          /\ base = MallocAlign * (base \div MallocAlign) + (base % MallocAlign)
      BY <2>2, DivMod, Zenon
    <2> HIDE DEF p, q
    <2>4. p \in Int /\ q \in Int /\ MallocAlign = a * p + 0 /\ base = MallocAlign * q + 0
      BY <2>2, <2>3, Zenon DEF p, q
    <2>5. base = a * (p * q) + 0 /\ p * q \in Int
      BY ONLY <2>2, <2>4
    <2>6. base % a = 0
      <3>1. 0 \in 0 .. a - 1
        BY <2>2
      <3>2. (a * (p * q) + 0) % a = 0
        BY <2>2, <2>5, <3>1, DivModIs, Zenon
      <3> QED
        BY <2>5, <3>2, Zenon
    <2> QED
      BY <2>1, <2>6 DEF a
  <1> DEFINE T == {n \in Nat : n + 1 \in Fields => place(n + 1) <= base + S(n) * cnt + X(n + 1)}
  <1>7. 0 \in T
    <2>1. X(1) \in Nat /\ S(0) * cnt = 0
      BY <1>2, <1>3, PlayersFacts
    <2> QED
      BY <1>6, <2>1
  <1>8. ASSUME NEW n \in Nat, n \in T PROVE n + 1 \in T
    <2> SUFFICES ASSUME (n + 1) + 1 \in Fields
                 PROVE  place((n + 1) + 1) <= base + S(n + 1) * cnt + X((n + 1) + 1)
      OBVIOUS
    <2> DEFINE m == n + 1
    <2>1. m \in Fields /\ m + 1 \in Fields /\ m + 1 # 1 /\ (m + 1) - 1 = m /\ m - 1 = n
      BY PlayersFacts
    <2>2. place(m) <= base + S(n) * cnt + X(m) /\ place(m + 1) < end(m) + AlignOf[m + 1]
      BY <1>5, <1>8, <2>1
    <2>3. /\ S(m) = SizeOf[m] + S(n) /\ S(m) \in Nat /\ S(n) \in Nat
          /\ X(m + 1) = ExtraFor[m + 1] + X(m) /\ X(m) \in Nat /\ X(m + 1) \in Nat
      BY <1>2, <1>3, <2>1
    <2>4. /\ ExtraFor[m + 1] \in Nat /\ AlignOf[m + 1] \in Nat /\ SizeOf[m] \in Nat
          /\ ExtraFor[m + 1] >= AlignOf[m + 1] /\ place(m) \in Nat /\ place(m + 1) \in Nat
      BY <1>1, <2>1, PlayersFacts
    <2> HIDE DEF m
    <2>5. S(m) * cnt = SizeOf[m] * cnt + S(n) * cnt
      BY <2>3, <2>4
    <2>6. S(m) * cnt \in Nat /\ S(n) * cnt \in Nat /\ SizeOf[m] * cnt \in Nat
      BY <2>3, <2>4
    <2>7. place(m + 1) <= base + S(m) * cnt + X(m + 1)
      BY <2>2, <2>3, <2>4, <2>5, <2>6
    <2> QED
      BY <2>7 DEF m
  <1>9. \A n \in Nat : n \in T
    <2> HIDE DEF T
    <2> QED
      BY <1>7, <1>8, Inductive
  <1>10. \A f \in Fields : end(f) <= base + S(f) * cnt + X(f)
    <2> SUFFICES ASSUME NEW f \in Fields PROVE end(f) <= base + S(f) * cnt + X(f)
      OBVIOUS
    <2>1. f - 1 \in Nat /\ (f - 1) + 1 = f
      BY PlayersFacts
    <2>2. place(f) <= base + S(f - 1) * cnt + X(f)
      BY <1>9, <2>1
    <2>3. /\ S(f) = SizeOf[f] + S(f - 1) /\ S(f) \in Nat /\ S(f - 1) \in Nat /\ X(f) \in Nat
          /\ SizeOf[f] \in Nat /\ place(f) \in Nat
      BY <1>1, <1>2, <1>3, PlayersFacts
    <2>4. S(f) * cnt = SizeOf[f] * cnt + S(f - 1) * cnt
      BY <2>3
    <2>5. S(f) * cnt \in Nat /\ S(f - 1) * cnt \in Nat /\ SizeOf[f] * cnt \in Nat
      BY <2>3
    <2> QED
      BY <2>2, <2>3, <2>4, <2>5
  <1> DEFINE U == {n \in Nat : \A f, g \in Fields : f < g /\ g <= f + n => end(f) <= place(g)}
  <1>11. 0 \in U
    BY PlayersFacts
  <1>12. ASSUME NEW n \in Nat, n \in U PROVE n + 1 \in U
    <2> SUFFICES ASSUME NEW f \in Fields, NEW g \in Fields, f < g, g <= f + (n + 1)
                 PROVE  end(f) <= place(g)
      OBVIOUS
    <2>1. f \in Nat /\ g \in Nat /\ g # 1 /\ g - 1 \in Fields
      BY PlayersFacts
    <2>2. end(g - 1) <= place(g) /\ place(g - 1) < end(g - 1)
      BY <1>4, <1>5, <2>1
    <2>3. CASE f = g - 1
      BY <2>2, <2>3
    <2>4. CASE f < g - 1
      <3>1. end(f) <= place(g - 1)
        BY <1>12, <2>1, <2>4
      <3>2. end(f) \in Nat /\ place(g - 1) \in Nat /\ end(g - 1) \in Nat /\ place(g) \in Nat
        BY <1>1, <1>4, <2>1
      <3> HIDE DEF end
      <3> QED
        BY <2>2, <3>1, <3>2
    <2> QED
      BY <2>1, <2>3, <2>4
  <1>13. \A f, g \in Fields : f < g => end(f) <= place(g)
    <2>1. \A n \in Nat : n \in U
      <3> HIDE DEF U
      <3> QED
        BY <1>11, <1>12, Inductive
    <2> SUFFICES ASSUME NEW f \in Fields, NEW g \in Fields, f < g PROVE end(f) <= place(g)
      OBVIOUS
    <2>2. g - f \in Nat /\ g <= f + (g - f)
      BY PlayersFacts
    <2>3. g - f \in U
      BY <2>1, <2>2
    <2> QED
      BY <2>2, <2>3
  <1>14. BlockSizeFor(cnt) = S(last) * cnt + X(last) /\ last \in Fields
    BY <1>2, <1>3, PlayersFacts DEF BlockSizeFor
  <1>15. \A f \in Fields : f < last => end(f) <= place(last)
    BY <1>13, <1>14
  <1>16. \A f \in Fields : f <= last /\ f \in Nat
    BY PlayersFacts
  <1>17. \A f \in Fields : end(f) <= base + BlockSizeFor(cnt)
    <2> SUFFICES ASSUME NEW f \in Fields PROVE end(f) <= base + BlockSizeFor(cnt)
      OBVIOUS
    <2>1. S(last) * cnt \in Nat /\ X(last) \in Nat /\ end(last) <= base + S(last) * cnt + X(last)
      <3>1. S(last) \in Nat /\ X(last) \in Nat
        BY <1>2, <1>3, <1>14, Zenon
      <3>2. end(last) <= base + S(last) * cnt + X(last)
        BY <1>10, <1>14, Zenon
      <3> PICK s \in Nat : s = S(last)
        BY <3>1, Zenon
      <3>3. s * cnt \in Nat
        OBVIOUS
      <3> QED
        BY <3>1, <3>2, <3>3, Zenon
    <2>2. end(last) <= base + BlockSizeFor(cnt) /\ BlockSizeFor(cnt) \in Nat
      BY <1>14, <2>1
    <2>3. place(last) < end(last) /\ place(last) \in Nat /\ end(last) \in Nat /\ end(f) \in Nat
      BY <1>1, <1>4, <1>14
    <2>4. f = last \/ end(f) <= place(last)
      BY <1>15, <1>16, <1>14
    <2> HIDE DEF end
    <2> QED
      BY <2>2, <2>3, <2>4
  <1>18. \A f \in Fields : base <= place(f)
    <2> SUFFICES ASSUME NEW f \in Fields PROVE base <= place(f)
      OBVIOUS
    <2>1. f = 1 \/ end(1) <= place(f)
      BY <1>13, <1>16, PlayersFacts
    <2>2. 1 \in Fields /\ end(1) \in Nat /\ place(1) < end(1) /\ place(f) \in Nat
      BY <1>1, <1>4, PlayersFacts
    <2> HIDE DEF end
    <2> QED
      BY <1>6, <2>1, <2>2
  <1>19. BlockSizeFor(cnt) \in Nat \ {0}
    <2>1. end(last) <= base + BlockSizeFor(cnt) /\ base <= place(last) /\ place(last) < end(last)
      BY <1>4, <1>14, <1>17, <1>18
    <2>2. S(last) * cnt \in Nat /\ X(last) \in Nat /\ place(last) \in Nat /\ end(last) \in Nat
      BY <1>1, <1>2, <1>3, <1>4, <1>14
    <2> HIDE DEF end
    <2> QED
      BY <1>14, <2>1, <2>2
  <1> QED
    BY <1>5, <1>6, <1>13, <1>17, <1>18, <1>19 DEF place

IDs == 0 .. MaxPlayers - 1

BlockOf(w) == [at |-> array[w][1], size |-> BlockSizeFor(count[w])]

(* A world that was given count players has its arrays in a block.         *)
Laid(w) ==
    /\ array[w][1] \in Nat \ {0} /\ array[w][1] % MallocAlign = 0
    /\ array[w][1] + BlockSizeFor(count[w]) <= Memory
    /\ array[w] = [f \in Fields |-> ArrayAt(array[w][1], count[w], f)]
    /\ BlockOf(w) \in mallocs

(* The tables are each other's inverse, and lead to players there are.     *)
Paired(w) ==
    /\ sortIDs[w] \in [IDs -> None .. MaxPlayers - 1]
    /\ unsortIDs[w] \in [IDs -> None .. MaxPlayers - 1]
    /\ \A uid, sid \in IDs : unsortIDs[w][sid] = uid <=> sortIDs[w][uid] = sid
    /\ \A sid \in IDs : unsortIDs[w][sid] # None => sid < count[w]

BlocksApart ==
    /\ \A m \in mallocs : m.at \in Nat \ {0} /\ m.size \in Nat \ {0}
    /\ \A m, n \in mallocs : m # n => BytesOf(m.at, m.size) \cap BytesOf(n.at, n.size) = {}

PlayersInv ==
    /\ count \in [Worlds -> 0 .. MaxCount]
    /\ array \in [Worlds -> [Fields -> Nat]]
    /\ sortIDs \in [Worlds -> [IDs -> None .. MaxPlayers - 1]]
    /\ unsortIDs \in [Worlds -> [IDs -> None .. MaxPlayers - 1]]
    /\ \A w \in Worlds : Paired(w) /\ (count[w] # 0 => Laid(w)) /\ (count[w] = 0 => array[w] = NoArrays)
    /\ \A w, v \in Worlds : w # v /\ count[w] # 0 /\ count[v] # 0 => array[w][1] # array[v][1]
    /\ BlocksApart

LEMMA NoIDsPaired ==
    /\ NoIDs \in [IDs -> None .. MaxPlayers - 1] /\ DOMAIN NoIDs = IDs
    /\ \A n \in IDs : NoIDs[n] = None /\ n # None /\ n \in Nat
    /\ NoArrays \in [Fields -> Nat]
  BY PlayersFacts DEF NoIDs, IDs, None, NoArrays

LEMMA PlayersBegin == PlayersInit => PlayersInv
  <1> SUFFICES ASSUME PlayersInit PROVE PlayersInv
    OBVIOUS
  <1>1. \A w \in Worlds : /\ count[w] = 0 /\ array[w] = NoArrays
                          /\ sortIDs[w] = NoIDs /\ unsortIDs[w] = NoIDs
    BY DEF PlayersInit
  <1>2. \A w \in Worlds : Paired(w)
    BY <1>1, NoIDsPaired DEF Paired
  <1>3. BlocksApart
    BY DEF PlayersInit, BlocksApart
  <1>4. count \in [Worlds -> 0 .. MaxCount]
    BY PlayersFacts DEF PlayersInit
  <1> QED
    BY <1>1, <1>2, <1>3, <1>4, NoIDsPaired DEF PlayersInv, PlayersInit

(* What free leaves: the blocks of the other worlds.                       *)
LEMMA FreeLeaves ==
    ASSUME PlayersInv, NEW w \in Worlds
    PROVE  /\ AfterFreeAll(w) \subseteq mallocs
           /\ \A v \in Worlds \ {w} : count[v] # 0 => BlockOf(v) \in AfterFreeAll(w)
  BY DEF AfterFreeAll, PlayersInv, Laid, BlockOf

(* What happens to a world leaves the others alone.                        *)
LEMMA OthersStay ==
    ASSUME PlayersInv, NEW w \in Worlds, NEW v \in Worlds \ {w},
           /\ array'[v] = array[v] /\ count'[v] = count[v]
           /\ sortIDs'[v] = sortIDs[v] /\ unsortIDs'[v] = unsortIDs[v]
           /\ AfterFreeAll(w) \subseteq mallocs'
    PROVE  Paired(v)' /\ (count'[v] # 0 => Laid(v)') /\ (count'[v] = 0 => array'[v] = NoArrays)
  <1>1. Paired(v) /\ (count[v] # 0 => Laid(v)) /\ (count[v] = 0 => array[v] = NoArrays)
    BY DEF PlayersInv
  <1>2. Paired(v)'
    BY <1>1 DEF Paired
  <1>3. count[v] # 0 => Laid(v)'
    BY <1>1, FreeLeaves DEF Laid, BlockOf
  <1> QED
    BY <1>1, <1>2, <1>3

LEMMA PlayersFreed ==
    ASSUME PlayersInv, NEW w \in Worlds, FreeAll(w)
    PROVE  PlayersInv'
  <1>1. /\ array' = [array EXCEPT ![w] = NoArrays] /\ count' = [count EXCEPT ![w] = 0]
        /\ sortIDs' = [sortIDs EXCEPT ![w] = NoIDs] /\ unsortIDs' = [unsortIDs EXCEPT ![w] = NoIDs]
        /\ mallocs' = AfterFreeAll(w)
    BY DEF FreeAll
  <1>2. /\ array'[w] = NoArrays /\ count'[w] = 0 /\ sortIDs'[w] = NoIDs /\ unsortIDs'[w] = NoIDs
        /\ \A v \in Worlds \ {w} : /\ array'[v] = array[v] /\ count'[v] = count[v]
                                   /\ sortIDs'[v] = sortIDs[v] /\ unsortIDs'[v] = unsortIDs[v]
    BY <1>1 DEF PlayersInv
  <1>3. /\ count' \in [Worlds -> 0 .. MaxCount]
        /\ array' \in [Worlds -> [Fields -> Nat]]
        /\ sortIDs' \in [Worlds -> [IDs -> None .. MaxPlayers - 1]]
        /\ unsortIDs' \in [Worlds -> [IDs -> None .. MaxPlayers - 1]]
    BY <1>1, NoIDsPaired, PlayersFacts DEF PlayersInv
  <1>4. Paired(w)'
    BY <1>2, NoIDsPaired DEF Paired
  <1>5. \A v \in Worlds : /\ Paired(v)' /\ (count'[v] # 0 => Laid(v)')
                          /\ (count'[v] = 0 => array'[v] = NoArrays)
    <2> SUFFICES ASSUME NEW v \in Worlds
                 PROVE  /\ Paired(v)' /\ (count'[v] # 0 => Laid(v)')
                        /\ (count'[v] = 0 => array'[v] = NoArrays)
      OBVIOUS
    <2>1. CASE v = w
      BY <1>2, <1>4, <2>1
    <2>2. CASE v # w
      BY <1>1, <1>2, <2>2, OthersStay
    <2> QED
      BY <2>1, <2>2
  <1>6. BlocksApart'
    BY <1>1, FreeLeaves DEF PlayersInv, BlocksApart
  <1>7. \A u, v \in Worlds : u # v /\ count'[u] # 0 /\ count'[v] # 0 => array'[u][1] # array'[v][1]
    <2> SUFFICES ASSUME NEW u \in Worlds, NEW v \in Worlds, u # v, count'[u] # 0, count'[v] # 0
                 PROVE  array'[u][1] # array'[v][1]
      OBVIOUS
    <2>1. u # w /\ v # w
      BY <1>2
    <2> QED
      BY <1>2, <2>1 DEF PlayersInv
  <1> QED
    BY <1>3, <1>5, <1>6, <1>7 DEF PlayersInv

LEMMA PlayersAllocated ==
    ASSUME PlayersInv, NEW w \in Worlds, NEW cnt \in 1 .. MaxCount, NEW base \in 1 .. Memory,
           AllocatePlayers(w, cnt, base)
    PROVE  PlayersInv'
  <1> DEFINE size == BlockSizeFor(cnt)
             block == [at |-> base, size |-> size]
             arrays == [f \in Fields |-> ArrayAt(base, cnt, f)]
  <1>0. /\ cnt \in Nat \ {0} /\ cnt # 0 /\ cnt \in 0 .. MaxCount
        /\ base \in Nat \ {0} /\ base \in Nat /\ 1 \in Fields
    BY PlayersFacts
  <1>1. /\ array' = [array EXCEPT ![w] = arrays] /\ count' = [count EXCEPT ![w] = cnt]
        /\ sortIDs' = [sortIDs EXCEPT ![w] = NoIDs] /\ unsortIDs' = [unsortIDs EXCEPT ![w] = NoIDs]
        /\ mallocs' = AfterFreeAll(w) \cup {block}
        /\ base % MallocAlign = 0 /\ base + size <= Memory
        /\ \A m \in AfterFreeAll(w) : BytesOf(m.at, m.size) \cap BytesOf(base, size) = {}
    BY DEF AllocatePlayers
  <1>2. /\ array'[w] = arrays /\ count'[w] = cnt /\ sortIDs'[w] = NoIDs /\ unsortIDs'[w] = NoIDs
        /\ \A v \in Worlds \ {w} : /\ array'[v] = array[v] /\ count'[v] = count[v]
                                   /\ sortIDs'[v] = sortIDs[v] /\ unsortIDs'[v] = unsortIDs[v]
    BY <1>1 DEF PlayersInv
  <1>3. size \in Nat \ {0} /\ arrays[1] = base /\ arrays \in [Fields -> Nat]
    <2>1. base % MallocAlign = 0
      BY <1>1
    <2>2. size \in Nat \ {0} /\ ArrayAt(base, cnt, 1) = base
      BY <1>0, <2>1, ArraysLaid
    <2>3. \A f \in Fields : ArrayAt(base, cnt, f) \in Nat
      BY <1>0, ArraysStart
    <2> QED
      BY <1>0, <2>2, <2>3
  <1> HIDE DEF size
  <1>4. /\ count' \in [Worlds -> 0 .. MaxCount]
        /\ array' \in [Worlds -> [Fields -> Nat]]
        /\ sortIDs' \in [Worlds -> [IDs -> None .. MaxPlayers - 1]]
        /\ unsortIDs' \in [Worlds -> [IDs -> None .. MaxPlayers - 1]]
    BY <1>0, <1>1, <1>3, NoIDsPaired DEF PlayersInv
  <1>5. Paired(w)'
    BY <1>2, NoIDsPaired DEF Paired
  <1>6. Laid(w)'
    <2>1. BlockOf(w)' = block /\ array'[w][1] = base
      BY <1>2, <1>3 DEF BlockOf, size
    <2>2. array'[w] = [f \in Fields |-> ArrayAt(array'[w][1], count'[w], f)]
      BY <1>2, <2>1
    <2>3. array'[w][1] + BlockSizeFor(count'[w]) <= Memory
      BY <1>1, <1>2, <2>1 DEF size
    <2> QED
      BY <1>0, <1>1, <2>1, <2>2, <2>3 DEF Laid
  <1>7. \A v \in Worlds : /\ Paired(v)' /\ (count'[v] # 0 => Laid(v)')
                          /\ (count'[v] = 0 => array'[v] = NoArrays)
    <2> SUFFICES ASSUME NEW v \in Worlds
                 PROVE  /\ Paired(v)' /\ (count'[v] # 0 => Laid(v)')
                        /\ (count'[v] = 0 => array'[v] = NoArrays)
      OBVIOUS
    <2>1. CASE v = w
      BY <1>0, <1>2, <1>5, <1>6, <2>1
    <2>2. CASE v # w
      BY <1>1, <1>2, <2>2, OthersStay
    <2> QED
      BY <2>1, <2>2
  <1>8. BlocksApart'
    <2>1. \A m \in mallocs : m.at \in Nat \ {0} /\ m.size \in Nat \ {0}
      BY DEF PlayersInv, BlocksApart
    <2>2. \A m, n \in mallocs : m # n => BytesOf(m.at, m.size) \cap BytesOf(n.at, n.size) = {}
      BY DEF PlayersInv, BlocksApart
    <2>3. \A m \in mallocs' : m = block \/ m \in AfterFreeAll(w)
      BY <1>1
    <2>4. block.at = base /\ block.size = size
      OBVIOUS
    <2> HIDE DEF block
    <2>5. \A m \in mallocs' : m.at \in Nat \ {0} /\ m.size \in Nat \ {0}
      BY <1>0, <1>3, <2>1, <2>3, <2>4, FreeLeaves
    <2>6. \A m, n \in mallocs' : m # n => BytesOf(m.at, m.size) \cap BytesOf(n.at, n.size) = {}
      BY <1>1, <2>2, <2>3, <2>4, FreeLeaves
    <2> QED
      BY <2>5, <2>6 DEF BlocksApart
  <1>9. ASSUME NEW v \in Worlds, v # w, count'[v] # 0 PROVE array'[v][1] # array'[w][1]
    <2>1. BlockOf(v) \in AfterFreeAll(w) /\ BlockOf(v) \in mallocs
      BY <1>2, <1>9, FreeLeaves
    <2>2. BlockOf(v).at = array'[v][1]
      BY <1>2, <1>9 DEF BlockOf
    <2>3. BlockOf(v).at \in Nat /\ BlockOf(v).size \in Nat \ {0}
      BY <2>1 DEF PlayersInv, BlocksApart
    <2>4. BytesOf(BlockOf(v).at, BlockOf(v).size) \cap BytesOf(base, size) = {}
      BY <1>1, <2>1
    <2>5. BlockOf(v).at \in BytesOf(BlockOf(v).at, BlockOf(v).size) /\ base \in BytesOf(base, size)
      BY <1>0, <1>3, <2>3 DEF BytesOf
    <2> QED
      BY <1>2, <1>3, <2>2, <2>4, <2>5
  <1>10. \A u, v \in Worlds : u # v /\ count'[u] # 0 /\ count'[v] # 0 => array'[u][1] # array'[v][1]
    <2> SUFFICES ASSUME NEW u \in Worlds, NEW v \in Worlds, u # v, count'[u] # 0, count'[v] # 0
                 PROVE  array'[u][1] # array'[v][1]
      OBVIOUS
    <2>1. CASE u = w \/ v = w
      BY <1>9, <2>1
    <2>2. CASE u # w /\ v # w
      BY <1>2, <2>2 DEF PlayersInv
    <2> QED
      BY <2>1, <2>2
  <1> QED
    BY <1>4, <1>7, <1>8, <1>10 DEF PlayersInv

LEMMA PlayersOrdered ==
    ASSUME PlayersInv, NEW w \in Worlds, NEW n \in 1 .. MaxCount,
           NEW order \in [1 .. n -> 0 .. MaxPlayers - 1], Order(w, order)
    PROVE  PlayersInv'
  <1>0. n \in Nat /\ Len(order) = n /\ n <= MaxPlayers /\ MaxPlayers \in Nat
    BY PlayersFacts
  <1> DEFINE To == [uid \in DOMAIN NoIDs |->
                      IF \E k \in 1 .. Len(order) : order[k] = uid
                      THEN (CHOOSE k \in 1 .. Len(order) : order[k] = uid) - 1 ELSE None]
             From == [sid \in DOMAIN NoIDs |-> IF sid < Len(order) THEN order[sid + 1] ELSE None]
  <1>1. /\ count[w] = n /\ \A j, k \in 1 .. n : order[j] = order[k] => j = k
        /\ sortIDs' = [sortIDs EXCEPT ![w] = To] /\ unsortIDs' = [unsortIDs EXCEPT ![w] = From]
        /\ array' = array /\ count' = count /\ mallocs' = mallocs
    BY <1>0 DEF Order
  <1>2. \A uid \in IDs : /\ (\E k \in 1 .. n : order[k] = uid) =>
                               \E k \in 1 .. n : order[k] = uid /\ To[uid] = k - 1
                         /\ ~(\E k \in 1 .. n : order[k] = uid) => To[uid] = None
    BY <1>0, NoIDsPaired
  <1>3. \A sid \in IDs : From[sid] = IF sid < n THEN order[sid + 1] ELSE None
    BY <1>0, NoIDsPaired
  <1>4. DOMAIN To = IDs /\ DOMAIN From = IDs
    BY NoIDsPaired
  <1>5. To = [uid \in IDs |-> To[uid]] /\ From = [sid \in IDs |-> From[sid]]
    BY NoIDsPaired
  <1> HIDE DEF To, From
  <1>6. To \in [IDs -> None .. MaxPlayers - 1]
    <2>1. \A uid \in IDs : To[uid] \in None .. MaxPlayers - 1
      BY <1>0, <1>2 DEF None
    <2> QED
      BY <1>5, <2>1
  <1>7. From \in [IDs -> None .. MaxPlayers - 1]
    <2>1. ASSUME NEW sid \in IDs PROVE From[sid] \in None .. MaxPlayers - 1
      <3>1. sid \in Nat
        BY NoIDsPaired
      <3>2. CASE sid < n
        <4>1. sid + 1 \in 1 .. n /\ order[sid + 1] \in 0 .. MaxPlayers - 1
          BY <3>1, <3>2
        <4> QED
          BY <1>0, <1>3, <3>2, <4>1 DEF None
      <3>3. CASE ~(sid < n)
        BY <1>0, <1>3, <3>3 DEF None
      <3> QED
        BY <3>2, <3>3
    <2> QED
      BY <1>5, <2>1
  <1>8. \A v \in Worlds : v # w => sortIDs'[v] = sortIDs[v] /\ unsortIDs'[v] = unsortIDs[v]
    BY <1>1 DEF PlayersInv
  <1>9. sortIDs'[w] = To /\ unsortIDs'[w] = From
    BY <1>1 DEF PlayersInv
  <1>10. Paired(w)'
    <2>1. ASSUME NEW uid \in IDs, NEW sid \in IDs PROVE From[sid] = uid <=> To[uid] = sid
      <3>1. sid \in Nat /\ uid # None /\ sid # None
        BY NoIDsPaired
      <3>2. ASSUME From[sid] = uid PROVE To[uid] = sid
        <4>1. sid < n /\ order[sid + 1] = uid /\ sid + 1 \in 1 .. n
          BY <1>0, <1>3, <3>1, <3>2
        <4>2. PICK k \in 1 .. n : order[k] = uid /\ To[uid] = k - 1
          BY <1>2, <4>1
        <4>3. k = sid + 1
          BY <1>1, <4>1, <4>2
        <4> QED
          BY <3>1, <4>2, <4>3
      <3>3. ASSUME To[uid] = sid PROVE From[sid] = uid
        <4>1. PICK k \in 1 .. n : order[k] = uid /\ To[uid] = k - 1
          BY <1>2, <3>1, <3>3
        <4>2. sid < n /\ sid + 1 = k
          BY <1>0, <3>1, <3>3, <4>1
        <4> QED
          BY <1>3, <4>1, <4>2
      <3> QED
        BY <3>2, <3>3
    <2>2. \A sid \in IDs : From[sid] # None => sid < n
      BY <1>3
    <2> QED
      BY <1>1, <1>6, <1>7, <1>9, <2>1, <2>2 DEF Paired
  <1>11. \A v \in Worlds : Paired(v)'
    <2> SUFFICES ASSUME NEW v \in Worlds, v # w PROVE Paired(v)'
      BY <1>10
    <2> QED
      BY <1>1, <1>8 DEF Paired, PlayersInv
  <1>12. \A v \in Worlds : (count'[v] # 0 => Laid(v)') /\ (count'[v] = 0 => array'[v] = NoArrays)
    <2> SUFFICES ASSUME NEW v \in Worlds
                 PROVE  (count'[v] # 0 => Laid(v)') /\ (count'[v] = 0 => array'[v] = NoArrays)
      OBVIOUS
    <2>1. (count[v] # 0 => Laid(v)) /\ (count[v] = 0 => array[v] = NoArrays)
      BY DEF PlayersInv
    <2>2. Laid(v)' <=> Laid(v)
      BY <1>1 DEF Laid, BlockOf
    <2> QED
      BY <1>1, <2>1, <2>2
  <1>13. /\ sortIDs' \in [Worlds -> [IDs -> None .. MaxPlayers - 1]]
         /\ unsortIDs' \in [Worlds -> [IDs -> None .. MaxPlayers - 1]]
    BY <1>1, <1>6, <1>7 DEF PlayersInv
  <1> QED
    BY <1>1, <1>11, <1>12, <1>13 DEF PlayersInv, BlocksApart

LEMMA PlayersAlways == PlayersInv /\ [PlayersNext]_playersVars => PlayersInv'
  <1> SUFFICES ASSUME PlayersInv, [PlayersNext]_playersVars PROVE PlayersInv'
    OBVIOUS
  <1>1. CASE UNCHANGED playersVars
    <2>1. /\ array' = array /\ count' = count /\ sortIDs' = sortIDs /\ unsortIDs' = unsortIDs
          /\ mallocs' = mallocs
      BY <1>1 DEF playersVars
    <2>2. \A w : (Paired(w)' <=> Paired(w)) /\ (Laid(w)' <=> Laid(w))
      BY <2>1 DEF Paired, Laid, BlockOf
    <2>3. BlocksApart' <=> BlocksApart
      BY <2>1 DEF BlocksApart
    <2> QED
      BY <2>1, <2>2, <2>3 DEF PlayersInv
  <1>2. CASE \E w \in Worlds : FreeAll(w)
    BY <1>2, PlayersFreed
  <1>3. CASE \E w \in Worlds, cnt \in 1 .. MaxCount, base \in 1 .. Memory : AllocatePlayers(w, cnt, base)
    BY <1>3, PlayersAllocated
  <1>4. CASE \E w \in Worlds, n \in 1 .. MaxCount :
                \E order \in [1 .. n -> 0 .. MaxPlayers - 1] : Order(w, order)
    BY <1>4, PlayersOrdered
  <1> QED
    BY <1>1, <1>2, <1>3, <1>4 DEF PlayersNext

LEMMA InvResorts == PlayersInv => ResortFindsSame
  <1> SUFFICES ASSUME PlayersInv, NEW w \in Worlds, NEW v \in Worlds, NEW id \in 0 .. MaxPlayers - 1
               PROVE  IF unsortIDs[w][id] # None /\ \E n \in 0 .. MaxPlayers - 1 : unsortIDs[v][n] = unsortIDs[w][id]
                      THEN unsortIDs[v][Resort(w, v, id)] = unsortIDs[w][id]
                      ELSE Resort(w, v, id) = MaxPlayers
    BY DEF ResortFindsSame
  <1> PICK uid : uid = unsortIDs[w][id]
    OBVIOUS
  <1>1. /\ Paired(w) /\ Paired(v) /\ id \in IDs /\ IDs = 0 .. MaxPlayers - 1
        /\ count[v] \in 0 .. MaxCount /\ MaxCount <= MaxPlayers /\ MaxPlayers \in Nat /\ MaxCount \in Nat
    BY PlayersFacts DEF PlayersInv, IDs
  <1>2. uid = None \/ uid \in IDs
    BY <1>1 DEF Paired, IDs, None
  <1>3. CASE uid = None
    BY <1>3 DEF Resort, None
  <1>4. CASE uid \in IDs
    <2>1. Resort(w, v, id) = IF sortIDs[v][uid] \in IDs /\ sortIDs[v][uid] < count[v]
                             THEN sortIDs[v][uid] ELSE MaxPlayers
      BY <1>1, <1>4 DEF Resort
    <2>2. CASE \E n \in IDs : unsortIDs[v][n] = uid
      <3>1. PICK n \in IDs : unsortIDs[v][n] = uid
        BY <2>2
      <3>2. sortIDs[v][uid] = n /\ n < count[v]
        BY <1>1, <1>4, <3>1, NoIDsPaired DEF Paired
      <3>3. Resort(w, v, id) = n
        BY <2>1, <3>1, <3>2
      <3> QED
        BY <1>1, <1>4, <3>1, <3>3, NoIDsPaired
    <2>3. CASE ~ \E n \in IDs : unsortIDs[v][n] = uid
      <3>1. sortIDs[v][uid] \notin IDs
        <4> PICK sid : sid = sortIDs[v][uid]
          OBVIOUS
        <4>1. sid \in IDs => unsortIDs[v][sid] = uid
          BY <1>1, <1>4 DEF Paired
        <4> QED
          BY <2>3, <4>1
      <3>2. Resort(w, v, id) = MaxPlayers
        BY <2>1, <3>1
      <3> QED
        BY <1>1, <2>3, <3>2
    <2> QED
      BY <2>2, <2>3
  <1> QED
    BY <1>2, <1>3, <1>4

LEMMA InvLaysApart == PlayersInv => LayoutApart
  <1> SUFFICES ASSUME PlayersInv, NEW w \in Worlds, count[w] # 0, NEW f \in Fields
               PROVE  /\ array[w][f] % AlignOf[f] = 0
                      /\ \E m \in mallocs : ArrayBytes(w, f) \subseteq BytesOf(m.at, m.size)
                      /\ \A v \in Worlds, g \in Fields : <<v, g>> # <<w, f>> =>
                             ArrayBytes(w, f) \cap ArrayBytes(v, g) = {}
    BY DEF LayoutApart
  <1>1. ASSUME NEW v \in Worlds, count[v] # 0
        PROVE  /\ BlockOf(v) \in mallocs
               /\ \A g \in Fields : /\ array[v][g] % AlignOf[g] = 0 /\ array[v][g] \in Nat
                                    /\ SizeOf[g] * count[v] \in Nat
                                    /\ ArrayBytes(v, g) \subseteq BytesOf(BlockOf(v).at, BlockOf(v).size)
               /\ \A g, h \in Fields : g < h => array[v][g] + SizeOf[g] * count[v] <= array[v][h]
    <2> PICK base : base = array[v][1]
      OBVIOUS
    <2> PICK cnt : cnt = count[v]
      OBVIOUS
    <2>1. /\ base \in Nat /\ base % MallocAlign = 0 /\ cnt \in Nat \ {0}
          /\ BlockOf(v) \in mallocs /\ BlockOf(v).at = base /\ BlockOf(v).size = BlockSizeFor(cnt)
          /\ \A g \in Fields : array[v][g] = ArrayAt(base, cnt, g)
      <3>1. Laid(v) /\ count[v] \in 0 .. MaxCount
        BY <1>1 DEF PlayersInv
      <3> QED
        <4>1. /\ BlockOf(v).at = base /\ BlockOf(v).size = BlockSizeFor(cnt) /\ cnt \in Nat \ {0}
          BY <1>1, <3>1, PlayersFacts DEF BlockOf
        <4>2. /\ base \in Nat /\ base % MallocAlign = 0 /\ BlockOf(v) \in mallocs
              /\ array[v] = [g \in Fields |-> ArrayAt(base, cnt, g)]
          BY <3>1 DEF Laid
        <4> QED
          BY <4>1, <4>2
    <2>2. /\ \A g \in Fields :
                 /\ ArrayAt(base, cnt, g) % AlignOf[g] = 0
                 /\ base <= ArrayAt(base, cnt, g)
                 /\ ArrayAt(base, cnt, g) + SizeOf[g] * cnt <= base + BlockSizeFor(cnt)
          /\ \A g, h \in Fields :
                 g < h => ArrayAt(base, cnt, g) + SizeOf[g] * cnt <= ArrayAt(base, cnt, h)
          /\ BlockSizeFor(cnt) \in Nat
      BY <2>1, ArraysLaid
    <2>3. \A g \in Fields : ArrayAt(base, cnt, g) \in Nat /\ SizeOf[g] \in Nat
      BY <2>1, ArraysStart, PlayersFacts
    <2>4. \A g \in Fields : SizeOf[g] * cnt \in Nat
      BY <2>1, <2>3
    <2>5. ASSUME NEW g \in Fields
          PROVE  ArrayBytes(v, g) \subseteq BytesOf(BlockOf(v).at, BlockOf(v).size)
      BY <2>1, <2>2, <2>3, <2>4 DEF ArrayBytes, BytesOf
    <2> QED
      BY <2>1, <2>2, <2>3, <2>4, <2>5
  <1>2. BlockOf(w).at = array[w][1]
    BY DEF BlockOf
  <1>3. ASSUME NEW v \in Worlds, NEW g \in Fields, <<v, g>> # <<w, f>>
        PROVE  ArrayBytes(w, f) \cap ArrayBytes(v, g) = {}
    <2>1. CASE count[v] = 0
      <3>1. SizeOf[g] * count[v] = 0
        BY <2>1, PlayersFacts
      <3>2. array[v][g] \in Nat
        BY DEF PlayersInv
      <3>3. ArrayBytes(v, g) = {}
        BY <3>1, <3>2 DEF ArrayBytes, BytesOf
      <3> QED
        BY <3>3
    <2>2. CASE v = w
      <3>1. f # g /\ f \in Nat /\ g \in Nat
        BY <1>3, <2>2, PlayersFacts
      <3>2. f < g \/ g < f
        BY <3>1
      <3>3. /\ array[w][f] \in Nat /\ SizeOf[f] * count[w] \in Nat
            /\ array[w][g] \in Nat /\ SizeOf[g] * count[w] \in Nat
            /\ \/ array[w][f] + SizeOf[f] * count[w] <= array[w][g]
               \/ array[w][g] + SizeOf[g] * count[w] <= array[w][f]
        BY <1>1, <3>2
      <3> QED
        BY <2>2, <3>3 DEF ArrayBytes, BytesOf
    <2>3. CASE v # w /\ count[v] # 0
      <3>1. BlockOf(v) # BlockOf(w)
        <4>1. BlockOf(v).at # BlockOf(w).at
          BY <2>3 DEF PlayersInv, BlockOf
        <4> QED
          BY <4>1
      <3>2. BytesOf(BlockOf(v).at, BlockOf(v).size) \cap BytesOf(BlockOf(w).at, BlockOf(w).size) = {}
        BY <1>1, <2>3, <3>1 DEF PlayersInv, BlocksApart
      <3> QED
        BY <1>1, <2>3, <3>2
    <2> QED
      BY <2>1, <2>2, <2>3
  <1> QED
    BY <1>1, <1>3

LEMMA InvPlayersTyped == PlayersInv => PlayersTypeOK
  <1> SUFFICES ASSUME PlayersInv PROVE PlayersTypeOK
    OBVIOUS
  <1>1. ASSUME NEW w \in Worlds, NEW f \in Fields PROVE array[w][f] \in 0 .. Memory
    <2>1. CASE count[w] = 0
      BY <2>1, PlayersFacts DEF PlayersInv, NoArrays
    <2>2. CASE count[w] # 0
      <3> PICK base : base = array[w][1]
        OBVIOUS
      <3> PICK cnt : cnt = count[w]
        OBVIOUS
      <3>1. Laid(w) /\ cnt \in Nat \ {0}
        BY <2>2, PlayersFacts DEF PlayersInv
      <3>2. /\ base \in Nat /\ base % MallocAlign = 0 /\ base + BlockSizeFor(cnt) <= Memory
            /\ array[w][f] = ArrayAt(base, cnt, f)
        BY <3>1 DEF Laid
      <3>3. /\ ArrayAt(base, cnt, f) + SizeOf[f] * cnt <= base + BlockSizeFor(cnt)
            /\ BlockSizeFor(cnt) \in Nat
        BY <3>1, <3>2, ArraysLaid
      <3>4. ArrayAt(base, cnt, f) \in Nat /\ SizeOf[f] \in Nat /\ Memory \in Nat
        BY <3>1, <3>2, ArraysStart, PlayersFacts
      <3>5. SizeOf[f] * cnt \in Nat
        BY <3>1, <3>4
      <3> QED
        BY <3>1, <3>2, <3>3, <3>4, <3>5
    <2> QED
      BY <2>1, <2>2
  <1>2. array \in [Worlds -> [Fields -> 0 .. Memory]]
    BY <1>1 DEF PlayersInv
  <1> QED
    BY <1>2, NoIDsPaired DEF PlayersTypeOK, PlayersInv

(* players.h: after any allocating, freeing, sorting and resorting, for    *)
(* every number and layout of the arrays, they are aligned and share no    *)
(* byte, and a player sorted in one world is found in every other.         *)
THEOREM PlayersAreSound == PlayersSpec => []PlayersSound
  <1>1. PlayersSpec => []PlayersInv
    BY PlayersBegin, PlayersAlways, PTL DEF PlayersSpec
  <1>2. PlayersInv => PlayersSound
    BY InvLaysApart, InvResorts, Zenon DEF PlayersSound
  <1> QED
    BY <1>1, <1>2, PTL

-----------------------------------------------------------------------------
(* MD5                                                                     *)

BlockIndex == 0 .. BlockSize - 1
Counted(place, counts) == <<"count", place, counts>>
Words == {Mark, Zero, Old} \union {Byte(n) : n \in Nat}
            \union {Counted(n, c) : n \in Nat, c \in Nat \X Nat}
BlockValues == [BlockIndex -> Words]

LEMMA Md5Facts ==
    /\ BlockSize \in Nat \ {0} /\ BlockSize \in Nat /\ BlockSize \in Int
    /\ CountSize \in Nat /\ 0 < CountSize /\ CountSize < BlockSize
    /\ CountLimit \in Nat \ {0} /\ CountLimit \in Int
    /\ MaxLength \in Nat /\ MaxPiece \in Nat
    /\ \E k \in Int : CountLimit = 8 * (BlockSize * k)
  <1>1. /\ CountSize \in Nat /\ BlockSize \in Nat /\ 0 < CountSize /\ CountSize < BlockSize
        /\ CountLimit \in Nat \ {0} /\ CountLimit % (8 * BlockSize) = 0
        /\ MaxLength \in Nat /\ MaxPiece \in Nat
    BY MD5Assumption DEF MD5Assumption
  <1> PICK n : n = 8 * BlockSize
    OBVIOUS
  <1> PICK l : l = CountLimit
    OBVIOUS
  <1>2. n \in Nat \ {0} /\ l \in Int /\ l % n = 0
    BY <1>1
  <1>3. l \div n \in Int /\ l = n * (l \div n) + (l % n)
    BY <1>2, DivMod, Zenon
  <1>4. PICK k \in Int : l = n * k + (l % n)
    BY <1>3, Zenon
  <1>5. l = n * k
    BY <1>2, <1>4
  <1>6. CountLimit = 8 * (BlockSize * k)
    BY <1>1, <1>5
  <1> QED
    BY <1>1, <1>6

(* The words of the count for a length.                                    *)
CountsOf(n) == <<Wrapped(8 * n), Wrapped((8 * n) \div CountLimit)>>

(* A rest may be taken before a sum and after it.                          *)
LEMMA RestOfSum ==
    ASSUME NEW l \in Nat \ {0}, NEW a \in Nat, NEW d \in Nat
    PROVE  ((a % l) + d) % l = (a + d) % l
  <1>1. PICK p \in Int, r \in 0 .. l - 1 : a = l * p + r /\ a % l = r
    <2>1. a \div l \in Int /\ a % l \in 0 .. l - 1 /\ a = l * (a \div l) + (a % l)
      BY DivMod, a \in Int, Zenon
    <2> QED
      BY <2>1, Zenon
  <1>2. r + d \in Int
    OBVIOUS
  <1>3. PICK q \in Int, s \in 0 .. l - 1 : r + d = l * q + s /\ (r + d) % l = s
    <2>1. (r + d) \div l \in Int /\ (r + d) % l \in 0 .. l - 1
          /\ r + d = l * ((r + d) \div l) + ((r + d) % l)
      BY <1>2, DivMod, Zenon
    <2> QED
      BY <2>1, Zenon
  <1>4. a + d = l * (p + q) + s /\ p + q \in Int
    BY <1>1, <1>3
  <1>5. (l * (p + q) + s) % l = s
    BY <1>4, DivModIs, Zenon
  <1> QED
    BY <1>1, <1>3, <1>4, <1>5, Zenon

(* The block is filled up to the length, whatever of the count was lost.   *)
LEMMA UsedIs ==
    ASSUME NEW n \in Nat
    PROVE  (Wrapped(8 * n) \div 8) % BlockSize = n % BlockSize
  <1>1. PICK k \in Int : CountLimit = 8 * (BlockSize * k)
    BY Md5Facts
  <1> PICK l \in Nat \ {0} : l = CountLimit
    BY Md5Facts
  <1> PICK b \in Nat \ {0} : b = BlockSize
    BY Md5Facts
  <1>2. PICK p \in Int, r \in 0 .. l - 1 : 8 * n = l * p + r /\ (8 * n) % l = r
    <2>1. 8 * n \in Int
      OBVIOUS
    <2>2. (8 * n) \div l \in Int /\ (8 * n) % l \in 0 .. l - 1
          /\ 8 * n = l * ((8 * n) \div l) + ((8 * n) % l)
      BY <2>1, DivMod, Zenon
    <2> QED
      BY <2>2, Zenon
  <1>3. PICK c \in Int : c = b * (k * p)
    OBVIOUS
  <1>4. l * p = 8 * c
    BY <1>1, <1>2, <1>3
  <1>5. r = 8 * (n - c) + 0 /\ n - c \in Int /\ 0 \in 0 .. 8 - 1 /\ 8 \in Nat \ {0}
    BY <1>2, <1>4
  <1>6. r \div 8 = n - c
    BY <1>5, DivModIs, Zenon
  <1>7. PICK q \in Int, s \in 0 .. b - 1 : n = b * q + s /\ n % b = s
    <2>1. n \div b \in Int /\ n % b \in 0 .. b - 1 /\ n = b * (n \div b) + (n % b)
      BY n \in Int, DivMod, Zenon
    <2> QED
      BY <2>1, Zenon
  <1>8. n - c = b * (q - k * p) + s /\ q - k * p \in Int
    BY <1>3, <1>7
  <1>9. (b * (q - k * p) + s) % b = s
    BY <1>8, DivModIs, Zenon
  <1> QED
    BY <1>2, <1>6, <1>7, <1>8, <1>9, Zenon DEF Wrapped

(* The two words count on, with the carry from the first.                  *)
LEMMA CountsGrow ==
    ASSUME NEW n \in Nat, NEW len \in Nat, bits = CountsOf(n),
           NEW sum, sum = Wrapped(bits[1] + Wrapped(8 * len))
    PROVE  CountsOf(n + len) =
              <<sum, Wrapped(bits[2] + Carry(sum) + (8 * len) \div CountLimit)>>
  <1> PICK l \in Nat \ {0} : l = CountLimit
    BY Md5Facts
  <1>1. PICK a \in Nat, x \in 0 .. l - 1 : 8 * n = l * a + x /\ (8 * n) % l = x /\ (8 * n) \div l = a
    <2>1. 8 * n \in Int /\ 8 * n \in Nat
      OBVIOUS
    <2>2. (8 * n) \div l \in Nat /\ (8 * n) % l \in 0 .. l - 1
          /\ 8 * n = l * ((8 * n) \div l) + ((8 * n) % l)
      BY <2>1, DivMod, Zenon
    <2> QED
      BY <2>2, Zenon
  <1>2. PICK b \in Nat, y \in 0 .. l - 1 : 8 * len = l * b + y /\ (8 * len) % l = y /\ (8 * len) \div l = b
    <2>1. 8 * len \in Int /\ 8 * len \in Nat
      OBVIOUS
    <2>2. (8 * len) \div l \in Nat /\ (8 * len) % l \in 0 .. l - 1
          /\ 8 * len = l * ((8 * len) \div l) + ((8 * len) % l)
      BY <2>1, DivMod, Zenon
    <2> QED
      BY <2>2, Zenon
  <1>3. bits[1] = x /\ bits[2] = a % l
    BY <1>1, Zenon DEF CountsOf, Wrapped
  <1>4. sum = (x + y) % l
    BY <1>2, <1>3, Zenon DEF Wrapped
  <1>5. PICK c \in 0 .. 1 : c = IF x + y < l THEN 0 ELSE 1
    OBVIOUS
  <1>6. x + y = l * c + (x + y - l * c) /\ x + y - l * c \in 0 .. l - 1 /\ c \in Int
    BY <1>5
  <1>7. sum = x + y - l * c
    <2>1. (l * c + (x + y - l * c)) % l = x + y - l * c
      BY <1>6, DivModIs, Zenon
    <2> QED
      BY <1>4, <1>6, <2>1, Zenon
  <1>8. Carry(sum) = c
    BY <1>3, <1>5, <1>7 DEF Carry
  <1>9. 8 * (n + len) = l * (a + b + c) + sum /\ a + b + c \in Int /\ sum \in 0 .. l - 1
    <2>1. l * (a + b + c) = l * a + l * b + l * c
      BY ONLY a \in Nat, b \in Nat, c \in 0 .. 1, l \in Nat \ {0}
    <2>2. l * a \in Int /\ l * b \in Int /\ l * c \in Int /\ x \in Int /\ y \in Int
      BY ONLY a \in Nat, b \in Nat, c \in 0 .. 1, l \in Nat \ {0}, x \in 0 .. l - 1, y \in 0 .. l - 1
    <2>6. sum = x + y - l * c
      BY <1>7, Zenon
    <2>3. 8 * (n + len) = 8 * n + 8 * len
      OBVIOUS
    <2>4. 8 * n = l * a + x /\ 8 * len = l * b + y
      BY <1>1, <1>2, Zenon
    <2>5. a + b + c \in Int /\ sum \in 0 .. l - 1
      BY <1>5, <1>6, <1>7
    <2> QED
      BY ONLY <2>1, <2>2, <2>3, <2>4, <2>5, <2>6
  <1>10. (8 * (n + len)) % l = sum /\ (8 * (n + len)) \div l = a + b + c
    <2>1. (l * (a + b + c) + sum) % l = sum /\ (l * (a + b + c) + sum) \div l = a + b + c
      BY <1>9, DivModIs, Zenon
    <2> QED
      BY <1>9, <2>1, Zenon
  <1>11. (a + b + c) % l = ((a % l) + c + b) % l
    <2>1. c + b \in Nat
      BY <1>5
    <2>2. ((a % l) + (c + b)) % l = (a + (c + b)) % l
      BY <2>1, RestOfSum, Zenon
    <2>3. a + (c + b) = a + b + c
      BY <1>5
    <2>4. (a % l) + (c + b) = (a % l) + c + b
      <3>1. PICK e \in Int : e = a % l
        <4>1. a \in Int
          OBVIOUS
        <4>2. a % l \in 0 .. l - 1
          BY <4>1, DivMod, Zenon
        <4> QED
          BY <4>2
      <3>2. e + (c + b) = e + c + b
        BY <1>5
      <3> QED
        BY <3>1, <3>2, Zenon
    <2> QED
      BY <2>2, <2>3, <2>4, Zenon
  <1> QED
    BY <1>2, <1>3, <1>8, <1>10, <1>11, Zenon DEF CountsOf, Wrapped

(* Before Final: the blocks and what is filled of in are the message.      *)
Going ==
    ~done =>
        /\ bits = CountsOf(length)
        /\ \A k \in 1 .. Len(blocks) : \A n \in BlockIndex :
              blocks[k][n] = Byte(BlockSize * (k - 1) + n)
        /\ \E t \in BlockIndex :
              /\ length = BlockSize * Len(blocks) + t
              /\ \A n \in 0 .. t - 1 : in[n] = Byte(BlockSize * Len(blocks) + n)

TextOf(bl, m) ==
    [n \in 1 .. m * BlockSize |-> bl[((n - 1) \div BlockSize) + 1][(n - 1) % BlockSize]]

Got == TextOf(blocks, Len(blocks))

Md5Typed ==
    /\ bits \in (0 .. CountLimit - 1) \X (0 .. CountLimit - 1)
    /\ in \in BlockValues /\ blocks \in Seq(BlockValues)
    /\ length \in 0 .. MaxLength /\ done \in BOOLEAN

Md5Inv == Md5Typed /\ Going /\ (done => Got = Padded)

(* Blocks that hold f one after the other are f.                           *)
Spells(bl, m, f) ==
    \A k \in 1 .. m : \A j \in BlockIndex : bl[k][j] = f[BlockSize * (k - 1) + j]

FirstOf(f, m) == [n \in 1 .. m * BlockSize |-> f[n - 1]]

LEMMA Spelled ==
    ASSUME NEW m \in Nat, NEW bl, NEW f, Spells(bl, m, f)
    PROVE  TextOf(bl, m) = FirstOf(f, m)
  <1> SUFFICES ASSUME NEW n \in 1 .. m * BlockSize
               PROVE  bl[((n - 1) \div BlockSize) + 1][(n - 1) % BlockSize] = f[n - 1]
    BY Zenon DEF TextOf, FirstOf
  <1> PICK b \in Nat \ {0} : b = BlockSize
    BY Md5Facts
  <1>1. n \in Int /\ n - 1 \in Int /\ 0 <= n - 1 /\ n - 1 < m * b
    <2>1. m * b \in Int
      OBVIOUS
    <2> QED
      BY <2>1
  <1>2. PICK q \in Int, r \in 0 .. b - 1 : n - 1 = b * q + r /\ (n - 1) % b = r /\ (n - 1) \div b = q
    <2>1. (n - 1) \div b \in Int /\ (n - 1) % b \in 0 .. b - 1
          /\ n - 1 = b * ((n - 1) \div b) + ((n - 1) % b)
      BY <1>1, DivMod, Zenon
    <2> QED
      BY <2>1, Zenon
  <1>3. q >= 0
    <2> SUFFICES ASSUME q <= -1 PROVE FALSE
      OBVIOUS
    <2>1. b * q <= b * (-1) /\ b * (-1) = -b /\ b * q \in Int
      OBVIOUS
    <2> QED
      BY <1>1, <1>2, <2>1
  <1>4. q < m
    <2> SUFFICES ASSUME q >= m PROVE FALSE
      OBVIOUS
    <2>1. b * q >= b * m /\ b * m = m * b /\ b * q \in Int /\ b * m \in Int
      OBVIOUS
    <2> QED
      BY <1>1, <1>2, <2>1
  <1>5. q + 1 \in 1 .. m /\ r \in BlockIndex /\ (q + 1) - 1 = q
    BY <1>3, <1>4 DEF BlockIndex
  <1>6. bl[q + 1][r] = f[b * q + r]
    BY <1>5 DEF Spells
  <1> QED
    BY <1>2, <1>6, Zenon

IsCopy(c, to, place, from, size) ==
    /\ c \in BlockValues
    /\ \A n \in BlockIndex :
          c[n] = IF n \in place .. place + size - 1 THEN Byte(from + n - place) ELSE to[n]

LEMMA CopiedIs ==
    ASSUME NEW to \in BlockValues, NEW place \in Nat, NEW from \in Nat, NEW size \in Int
    PROVE  IsCopy(Copied(to, place, from, size), to, place, from, size)
  <1>1. Copied(to, place, from, size)
            = [n \in BlockIndex |-> IF n \in place .. place + size - 1 THEN Byte(from + n - place) ELSE to[n]]
    BY DEF Copied, BlockIndex
  <1>2. ASSUME NEW n \in BlockIndex
        PROVE  (IF n \in place .. place + size - 1 THEN Byte(from + n - place) ELSE to[n]) \in Words
    <2>1. n \in Int
      BY Md5Facts DEF BlockIndex
    <2>2. n \in place .. place + size - 1 => Byte(from + n - place) \in Words
      <3>1. n \in place .. place + size - 1 => from + n - place \in Nat
        BY <2>1
      <3> QED
        BY <3>1 DEF Words
    <2>3. to[n] \in Words
      BY DEF BlockValues
    <2> QED
      BY <2>2, <2>3
  <1> QED
    BY <1>1, <1>2 DEF BlockValues, IsCopy

LEMMA Md5Begin == Md5Init => Md5Inv
  <1> SUFFICES ASSUME Md5Init PROVE Md5Inv
    OBVIOUS
  <1>1. PICK l \in Nat \ {0} : l = CountLimit
    BY Md5Facts
  <1>2. PICK b \in Nat \ {0} : b = BlockSize
    BY Md5Facts
  <1>3. in \in BlockValues
    BY DEF Md5Init, BlockValues, BlockIndex, Words
  <1>4. blocks \in Seq(BlockValues) /\ Len(blocks) = 0 /\ length = 0 /\ ~done /\ done \in BOOLEAN
    <2>1. blocks \in Seq(BlockValues) /\ Len(blocks) = 0 /\ length = 0
      BY DEF Md5Init
    <2>2. ~done /\ done \in BOOLEAN
      BY Zenon DEF Md5Init
    <2> QED
      BY <2>1, <2>2
  <1>5. bits = <<0, 0>> /\ length \in 0 .. MaxLength
    BY Md5Facts DEF Md5Init
  <1>6. CountsOf(length) = <<0, 0>>
    <2>1. l * 0 + 0 = 0 /\ 0 \in Int /\ 0 \in 0 .. l - 1 /\ 8 * 0 = 0
      OBVIOUS
    <2>2. 0 % l = 0 /\ 0 \div l = 0
      BY <2>1, DivModIs, Zenon
    <2> QED
      BY <1>1, <1>4, <2>1, <2>2, Zenon DEF CountsOf, Wrapped
  <1>7. /\ \A k \in 1 .. Len(blocks) : \A n \in BlockIndex :
              blocks[k][n] = Byte(BlockSize * (k - 1) + n)
        /\ \E t \in BlockIndex :
              /\ length = BlockSize * Len(blocks) + t
              /\ \A n \in 0 .. t - 1 : in[n] = Byte(BlockSize * Len(blocks) + n)
    <2>1. 1 .. Len(blocks) = {} /\ 0 .. 0 - 1 = {} /\ b * 0 + 0 = 0
      BY <1>4
    <2>2. 0 \in BlockIndex
      BY <1>2 DEF BlockIndex
    <2>3. length = BlockSize * Len(blocks) + 0
      BY <1>2, <1>4, <2>1, Zenon
    <2> QED
      BY <2>1, <2>2, <2>3, Zenon
  <1>8. bits \in (0 .. CountLimit - 1) \X (0 .. CountLimit - 1)
    BY <1>1, <1>5
  <1> QED
    BY <1>3, <1>4, <1>5, <1>6, <1>7, <1>8, Zenon DEF Md5Inv, Md5Typed, Going

(* Two sequences one after the other.                                      *)
LEMMA Joined ==
    ASSUME NEW S, NEW u \in Seq(S), NEW v \in Seq(S)
    PROVE  /\ u \o v \in Seq(S) /\ Len(u \o v) = Len(u) + Len(v)
           /\ \A k \in 1 .. Len(u) : (u \o v)[k] = u[k]
           /\ \A k \in 1 .. Len(u) + Len(v) : k > Len(u) => (u \o v)[k] = v[k - Len(u)]
  OBVIOUS

LEMMA UpdateKeeps ==
    ASSUME Md5Inv, NEW len \in 0 .. MaxPiece, Update(len)
    PROVE  Md5Inv'
  <1>1. ~done /\ len \in Nat /\ length \in Nat /\ length' = length + len /\ length' \in 0 .. MaxLength
        /\ in \in BlockValues /\ blocks \in Seq(BlockValues)
    <2>1. ~done /\ length' = length + len /\ length + len <= MaxLength
      BY DEF Update
    <2>2. length \in 0 .. MaxLength /\ in \in BlockValues /\ blocks \in Seq(BlockValues)
      BY DEF Md5Inv, Md5Typed
    <2> QED
      BY <2>1, <2>2, Md5Facts
  <1>2. ~done' /\ done' \in BOOLEAN
    <2>1. done \in BOOLEAN
      BY DEF Md5Inv, Md5Typed
    <2>2. done' = done
      BY Zenon DEF Update
    <2> QED
      BY <1>1, <2>1, <2>2, Zenon
  <1> BlockSize \in Nat \ {0}
    BY Md5Facts
  <1> PICK q \in Nat : q = Len(blocks)
    BY <1>1
  <1>3. PICK t0 \in 0 .. BlockSize - 1 :
              /\ length = BlockSize * q + t0
              /\ \A n \in 0 .. t0 - 1 : in[n] = Byte(BlockSize * q + n)
    BY <1>1 DEF Md5Inv, Going, BlockIndex
  <1>4. /\ bits = CountsOf(length)
        /\ \A k \in 1 .. q : \A n \in BlockIndex : blocks[k][n] = Byte(BlockSize * (k - 1) + n)
    BY <1>1 DEF Md5Inv, Going
  <1> DEFINE t == (bits[1] \div 8) % BlockSize
  <1>5. t = t0
    <2>1. bits[1] = Wrapped(8 * length)
      BY <1>4 DEF CountsOf
    <2>2. (Wrapped(8 * length) \div 8) % BlockSize = length % BlockSize
      BY <1>1, UsedIs, Zenon
    <2>3. (BlockSize * q + t0) % BlockSize = t0
      <3>1. q \in Int
        OBVIOUS
      <3> QED
        BY <3>1, DivModIs, Zenon
    <2> QED
      BY <1>3, <2>1, <2>2, <2>3, Zenon
  <1> DEFINE first == IF t = 0 THEN 0 ELSE BlockSize - t
             whole == (len - first) \div BlockSize
             completed == IF t = 0 THEN <<>> ELSE <<Copied(in, t, length, first)>>
             direct == [k \in 1 .. whole |-> Copied(in, 0, length + first + (k - 1) * BlockSize, BlockSize)]
             all == completed \o direct
  <1>6. /\ bits' = CountsOf(length + len)
        /\ IF t # 0 /\ len < first
           THEN in' = Copied(in, t, length, len) /\ UNCHANGED blocks
           ELSE /\ blocks' = blocks \o all
                /\ in' = Copied(IF all = <<>> THEN in ELSE all[Len(all)], 0,
                                length + first + whole * BlockSize, (len - first) - whole * BlockSize)
    <2> DEFINE sum == Wrapped(bits[1] + Wrapped(8 * len))
    <2>1. bits' = <<sum, Wrapped(bits[2] + Carry(sum) + (8 * len) \div CountLimit)>>
      BY Zenon DEF Update
    <2>2. bits' = CountsOf(length + len)
      <3>1. length \in Nat /\ len \in Nat /\ bits = CountsOf(length)
        BY <1>1, <1>4, Zenon
      <3>2. CountsOf(length + len)
                = <<sum, Wrapped(bits[2] + Carry(sum) + (8 * len) \div CountLimit)>>
        BY <3>1, CountsGrow, Zenon
      <3> QED
        BY <2>1, <3>2, Zenon
    <2>3. IF t # 0 /\ len < first
           THEN in' = Copied(in, t, length, len) /\ UNCHANGED blocks
           ELSE /\ blocks' = blocks \o all
                /\ in' = Copied(IF all = <<>> THEN in ELSE all[Len(all)], 0,
                                length + first + whole * BlockSize, (len - first) - whole * BlockSize)
      BY Zenon DEF Update
    <2> QED
      BY <2>2, <2>3, Zenon
  <1> HIDE DEF t
  <1>11. /\ t \in 0 .. BlockSize - 1 /\ length = BlockSize * q + t
         /\ \A n \in 0 .. t - 1 : in[n] = Byte(BlockSize * q + n)
    BY <1>3, <1>5, Zenon
  <1> t \in 0 .. BlockSize - 1
    BY <1>11, Zenon
  <1>7. bits' \in (0 .. CountLimit - 1) \X (0 .. CountLimit - 1)
    <2> PICK l \in Nat \ {0} : l = CountLimit
      BY Md5Facts
    <2>1. 8 * length' \in Int
      BY <1>1
    <2>2. (8 * length') % l \in 0 .. l - 1 /\ (8 * length') \div l \in Int
      BY <2>1, DivMod, Zenon
    <2>3. ((8 * length') \div l) % l \in 0 .. l - 1
      BY <2>2, DivMod, Zenon
    <2>4. bits' = <<(8 * length') % l, ((8 * length') \div l) % l>>
      BY <1>1, <1>6, Zenon DEF CountsOf, Wrapped
    <2>5. PICK x, y : x = (8 * length') % l /\ y = ((8 * length') \div l) % l
      OBVIOUS
    <2>6. x \in 0 .. l - 1 /\ y \in 0 .. l - 1 /\ bits' = <<x, y>>
      BY <2>2, <2>3, <2>4, <2>5, Zenon
    <2> QED
      BY ONLY <2>6, l = CountLimit
  <1>8. BlockSize * q \in Nat
    OBVIOUS
  (* The bytes go to the block that is filled, and do not fill it.         *)
  <1>9. CASE t # 0 /\ len < first
    <2>1. in' = Copied(in, t, length, len) /\ blocks' = blocks
      BY <1>6, <1>9, Zenon
    <2>2. /\ in' \in BlockValues
          /\ \A n \in BlockIndex : in'[n] = IF n \in t .. t + len - 1 THEN Byte(length + n - t) ELSE in[n]
      <3>1. t \in Nat /\ len \in Int
        BY <1>1
      <3>2. IsCopy(in', in, t, length, len)
        BY <1>1, <2>1, <3>1, CopiedIs, Zenon
      <3> QED
        BY <3>2, Zenon DEF IsCopy
    <2>3. t + len \in 0 .. BlockSize - 1
      BY <1>1, <1>9
    <2>4. length' = BlockSize * q + (t + len)
      BY <1>1, <1>11, <1>8
    <2>5. ASSUME NEW n \in 0 .. (t + len) - 1 PROVE in'[n] = Byte(BlockSize * q + n)
      <3>1. n \in BlockIndex /\ n \in Int
        BY <2>3, <2>5 DEF BlockIndex
      <3>2. CASE n \in t .. t + len - 1
        <4>1. length + n - t = BlockSize * q + n
          BY <1>11, <1>8, <3>1
        <4> QED
          BY <2>2, <3>1, <3>2, <4>1, Zenon
      <3>3. CASE n \notin t .. t + len - 1
        <4>1. n \in 0 .. t - 1
          BY <1>1, <2>5, <3>3
        <4> QED
          BY <1>11, <2>2, <3>1, <3>3, <4>1, Zenon
      <3> QED
        BY <3>2, <3>3
    <2>6. Going'
      <3>1. Len(blocks') = q /\ t + len \in BlockIndex
        BY <2>1, <2>3 DEF BlockIndex
      <3> QED
        BY <1>1, <1>4, <1>6, <2>1, <2>4, <2>5, <3>1, Zenon DEF Going
    <2> QED
      BY <1>1, <1>2, <1>7, <2>1, <2>2, <2>6, Zenon DEF Md5Inv, Md5Typed
  (* They fill it, or start one.                                           *)
  <1>10. CASE ~(t # 0 /\ len < first)
    <2> DEFINE e == IF t = 0 THEN 0 ELSE 1
    <2>1. /\ e \in 0 .. 1 /\ first \in Nat /\ len - first \in Nat
          /\ length + first = BlockSize * (q + e)
      BY <1>1, <1>11, <1>10
    <2>2. PICK w \in Nat, r \in 0 .. BlockSize - 1 : len - first = BlockSize * w + r /\ whole = w
      <3>1. len - first \in Int
        BY <2>1
      <3>2. (len - first) \div BlockSize \in Nat /\ (len - first) % BlockSize \in 0 .. BlockSize - 1
            /\ len - first = BlockSize * ((len - first) \div BlockSize) + ((len - first) % BlockSize)
        BY <2>1, <3>1, DivMod, Zenon
      <3> QED
        BY <3>2, Zenon
    <2>3. /\ Len(completed) = e /\ completed \in Seq(BlockValues)
          /\ e = 1 => \A n \in BlockIndex : completed[1][n] = Byte(BlockSize * q + n)
      <3>1. CASE t = 0
        BY <3>1
      <3>2. CASE t # 0
        <4>1. /\ Copied(in, t, length, first) \in BlockValues
              /\ \A n \in BlockIndex : Copied(in, t, length, first)[n]
                    = IF n \in t .. t + first - 1 THEN Byte(length + n - t) ELSE in[n]
          <5>1. t \in Nat /\ first \in Int
            BY <2>1
          <5> HIDE DEF first
          <5>2. IsCopy(Copied(in, t, length, first), in, t, length, first)
            BY <1>1, <5>1, CopiedIs, Zenon
          <5> QED
            BY <5>2, Zenon DEF IsCopy
        <4>2. ASSUME NEW n \in BlockIndex PROVE Copied(in, t, length, first)[n] = Byte(BlockSize * q + n)
          <5>1. n \in 0 .. BlockSize - 1 /\ t + first - 1 = BlockSize - 1
            BY <3>2 DEF BlockIndex
          <5>2. n \in t .. t + first - 1 => length + n - t = BlockSize * q + n
            BY <1>11, <1>8, <5>1
          <5>3. n \notin t .. t + first - 1 => n \in 0 .. t - 1
            BY <5>1
          <5> HIDE DEF first
          <5> QED
            BY <1>11, <4>1, <5>2, <5>3, Zenon
        <4>3. PICK x : x = Copied(in, t, length, first)
          OBVIOUS
        <4>4. completed = <<x>> /\ e = 1
          BY <3>2, <4>3, Zenon
        <4>5. x \in BlockValues /\ \A n \in BlockIndex : x[n] = Byte(BlockSize * q + n)
          BY <4>1, <4>2, <4>3, Zenon
        <4> HIDE DEF completed, e
        <4> QED
          BY <4>4, <4>5
      <3> QED
        BY <3>1, <3>2
    <2>4. /\ Len(direct) = w /\ direct \in Seq(BlockValues)
          /\ \A k \in 1 .. w : \A n \in BlockIndex : direct[k][n] = Byte(BlockSize * (q + e + k - 1) + n)
      <3>1. ASSUME NEW k \in 1 .. w
            PROVE  /\ Copied(in, 0, length + first + (k - 1) * BlockSize, BlockSize) \in BlockValues
                   /\ \A n \in BlockIndex : Copied(in, 0, length + first + (k - 1) * BlockSize, BlockSize)[n]
                                               = Byte(BlockSize * (q + e + k - 1) + n)
        <4>1. /\ length + first + (k - 1) * BlockSize = BlockSize * (q + e + k - 1)
              /\ BlockSize * (q + e + k - 1) \in Nat
          <5>1. BlockSize * (q + e) + (k - 1) * BlockSize = BlockSize * (q + e + k - 1) /\ q + e + k - 1 \in Nat
            <6> PICK d \in 0 .. 1 : d = e
              BY <2>1, Zenon
            <6>1. BlockSize * (q + d) + (k - 1) * BlockSize = BlockSize * (q + d + k - 1) /\ q + d + k - 1 \in Nat
              BY ONLY d \in 0 .. 1, q \in Nat, k \in 1 .. w, w \in Nat, BlockSize \in Nat \ {0}
            <6> QED
              BY <6>1, d = e, Zenon
          <5> HIDE DEF e, first
          <5>2. BlockSize * (q + e + k - 1) \in Nat
            BY <5>1
          <5> QED
            BY <2>1, <5>1, <5>2, Zenon
        <4> HIDE DEF e, first
        <4>2. PICK p \in Nat : p = length + first + (k - 1) * BlockSize /\ p = BlockSize * (q + e + k - 1)
          BY <4>1, Zenon
        <4>3. /\ Copied(in, 0, p, BlockSize) \in BlockValues
              /\ \A n \in BlockIndex : Copied(in, 0, p, BlockSize)[n]
                    = IF n \in 0 .. 0 + BlockSize - 1 THEN Byte(p + n - 0) ELSE in[n]
          <5>1. 0 \in Nat /\ BlockSize \in Int
            OBVIOUS
          <5>2. IsCopy(Copied(in, 0, p, BlockSize), in, 0, p, BlockSize)
            BY <1>1, <5>1, CopiedIs, Zenon
          <5> QED
            BY <5>2, Zenon DEF IsCopy
        <4>4. \A n \in BlockIndex : n \in 0 .. 0 + BlockSize - 1 /\ p + n - 0 = p + n
          BY DEF BlockIndex
        <4> QED
          BY <4>2, <4>3, <4>4, Zenon
      <3>2. direct = [k \in 1 .. w |-> Copied(in, 0, length + first + (k - 1) * BlockSize, BlockSize)]
        BY <2>2, Zenon
      <3>3. direct \in [1 .. w -> BlockValues]
        <4> HIDE DEF first, e, direct
        <4> QED
          BY <3>1, <3>2, Zenon
      <3>4. Len(direct) = w /\ direct \in Seq(BlockValues)
        <4> HIDE DEF direct
        <4>1. direct \in Seq(BlockValues)
          BY <3>3
        <4> QED
          BY <3>3, <4>1
      <3>5. \A k \in 1 .. w : direct[k] = Copied(in, 0, length + first + (k - 1) * BlockSize, BlockSize)
        BY <3>2, Zenon
      <3> HIDE DEF direct, first, e
      <3> QED
        BY <3>1, <3>4, <3>5, Zenon
    <2>5. /\ all \in Seq(BlockValues) /\ Len(all) = e + w
          /\ \A k \in 1 .. e + w : \A n \in BlockIndex : all[k][n] = Byte(BlockSize * (q + k - 1) + n)
      <3> HIDE DEF completed, direct, whole, first, e
      <3>1. all \in Seq(BlockValues) /\ Len(all) = e + w
        BY <2>3, <2>4, Joined, Zenon
      <3>2. ASSUME NEW k \in 1 .. e + w, NEW n \in BlockIndex PROVE all[k][n] = Byte(BlockSize * (q + k - 1) + n)
        <4>1. CASE k <= e
          <5>1. k = 1 /\ e = 1
            BY <2>1, <4>1
          <5>2. all[1] = completed[1]
            <6>1. 1 \in 1 .. Len(completed)
              BY <2>3, <5>1
            <6>2. completed \in Seq(BlockValues) /\ direct \in Seq(BlockValues)
              BY <2>3, <2>4, Zenon
            <6> QED
              <7>1. (completed \o direct)[1] = completed[1]
                BY <6>1, <6>2
              <7> QED
                BY <7>1, Zenon
          <5>3. q + 1 - 1 = q
            OBVIOUS
          <5> QED
            BY <2>3, <5>1, <5>2, <5>3, Zenon
        <4>2. CASE k > e
          <5>1. k - e \in 1 .. w
            BY <2>1, <4>2
          <5>3. all[k] = direct[k - e]
            BY <2>3, <2>4, <4>2, Joined, Zenon
          <5>2. q + e + (k - e) - 1 = q + k - 1
            BY <2>1
          <5> QED
            BY <2>4, <5>1, <5>2, <5>3, Zenon
        <4>3. k <= e \/ k > e
          BY <2>1
        <4> QED
          BY <4>1, <4>2, <4>3, Zenon
      <3> QED
        BY <3>1, <3>2, Zenon
    <2>6. blocks' = blocks \o all /\ in' = Copied(IF all = <<>> THEN in ELSE all[Len(all)], 0,
                                length + first + whole * BlockSize, (len - first) - whole * BlockSize)
      BY <1>6, <1>10, Zenon
    <2> HIDE DEF all
    <2>7. /\ blocks' \in Seq(BlockValues) /\ Len(blocks') = q + e + w
          /\ \A k \in 1 .. q + e + w : \A n \in BlockIndex : blocks'[k][n] = Byte(BlockSize * (k - 1) + n)
      <3> HIDE DEF completed, direct, whole, first, e
      <3>0. Len(blocks') = q + (e + w) /\ q + (e + w) = q + e + w
        <4>1. Len(blocks') = q + (e + w)
          BY <1>1, <2>5, <2>6, Joined, Zenon
        <4> QED
          BY <2>1, <4>1
      <3>1. blocks' \in Seq(BlockValues) /\ Len(blocks') = q + e + w
        BY <1>1, <2>5, <2>6, <3>0, Joined, Zenon
      <3>2. ASSUME NEW k \in 1 .. q + e + w, NEW n \in BlockIndex PROVE blocks'[k][n] = Byte(BlockSize * (k - 1) + n)
        <4>1. CASE k <= q
          <5>1. k \in 1 .. q /\ blocks'[k] = blocks[k]
            <6>1. k \in 1 .. q
              BY <2>1, <4>1
            <6> QED
              BY <1>1, <2>5, <2>6, <6>1, Joined, Zenon
          <5> QED
            BY <1>4, <5>1, Zenon
        <4>2. CASE k > q
          <5>1. k - q \in 1 .. e + w /\ blocks'[k] = all[k - q]
            <6>1. k - q \in 1 .. e + w /\ k \in 1 .. q + (e + w)
              BY <2>1, <4>2
            <6> QED
              <7>1. k \in 1 .. Len(blocks) + Len(all) /\ k > Len(blocks)
                BY <2>5, <4>2, <6>1, Zenon
              <7>2. (blocks \o all)[k] = all[k - Len(blocks)]
                BY <1>1, <2>5, <7>1, Joined, Zenon
              <7> QED
                BY <2>6, <6>1, <7>2, Zenon
          <5>2. q + (k - q) - 1 = k - 1
            OBVIOUS
          <5> QED
            BY <2>5, <5>1, <5>2, Zenon
        <4> QED
          BY <2>1, <4>1, <4>2
      <3> QED
        BY <3>1, <3>2
    <2>8. PICK m \in Nat : m = BlockSize * (q + e + w)
      <3>1. BlockSize * (q + e + w) \in Nat
        BY <2>1
      <3> HIDE DEF e
      <3> QED
        BY <3>1, Zenon
    <2>9. length + first + whole * BlockSize = m /\ (len - first) - whole * BlockSize = r /\ length' = m + r
      <3>1. length + first = BlockSize * (q + e) /\ len - first = BlockSize * w + r /\ whole = w /\ first \in Nat
            /\ e \in 0 .. 1
        BY <2>1, <2>2, Zenon
      <3> HIDE DEF first, whole, e
      <3>2. w * BlockSize = BlockSize * w /\ BlockSize * w \in Int /\ BlockSize * (q + e) \in Int /\ BlockSize * (q + e + w) = BlockSize * (q + e) + BlockSize * w
        BY <3>1
      <3> QED
        BY <1>1, <2>8, <3>1, <3>2
    <2>10. PICK x \in BlockValues : in' = Copied(x, 0, m, r)
      <3>1. (IF all = <<>> THEN in ELSE all[Len(all)]) \in BlockValues
        <4>1. all # <<>> => all[Len(all)] \in BlockValues
          BY <2>5
        <4> QED
          BY <1>1, <4>1
      <3> QED
        BY <2>6, <2>9, <3>1, Zenon
    <2>11. in' \in BlockValues /\ \A n \in 0 .. r - 1 : in'[n] = Byte(m + n)
      <3>1. /\ Copied(x, 0, m, r) \in BlockValues
            /\ \A n \in BlockIndex : Copied(x, 0, m, r)[n]
                    = IF n \in 0 .. 0 + r - 1 THEN Byte(m + n - 0) ELSE x[n]
        <4>1. 0 \in Nat /\ r \in Int
          OBVIOUS
        <4>2. IsCopy(Copied(x, 0, m, r), x, 0, m, r)
          BY <4>1, CopiedIs, Zenon
        <4> QED
          BY <4>2, Zenon DEF IsCopy
      <3>2. \A n \in 0 .. r - 1 : n \in BlockIndex /\ n \in 0 .. 0 + r - 1 /\ m + n - 0 = m + n
        BY DEF BlockIndex
      <3> QED
        BY <2>10, <3>1, <3>2, Zenon
    <2>12. Going'
      <3>1. r \in BlockIndex
        BY DEF BlockIndex
      <3> PICK n \in Nat : n = q + e + w
        <4>1. q + e + w \in Nat
          BY <2>1
        <4> QED
          BY <4>1, Zenon
      <3>2. Len(blocks') = n /\ m = BlockSize * n /\ length' = m + r /\ bits' = CountsOf(length')
        BY <1>1, <1>6, <2>7, <2>8, <2>9, Zenon
      <3>3. \A k \in 1 .. n : \A j \in BlockIndex : blocks'[k][j] = Byte(BlockSize * (k - 1) + j)
        BY <2>7, Zenon
      <3> HIDE DEF e
      <3> QED
        BY <2>11, <3>1, <3>2, <3>3, Zenon DEF Going
    <2> QED
      BY <1>1, <1>2, <1>7, <2>7, <2>11, <2>12, Zenon DEF Md5Inv, Md5Typed
  <1> QED
    BY <1>9, <1>10

(* What Padded has at each place.                                          *)
PaddedAt(zeros, n) ==
    IF n < length THEN Byte(n)
    ELSE IF n = length THEN Mark
    ELSE IF n <= length + zeros THEN Zero
    ELSE Counted(n - (length + 1 + zeros), CountsOf(length))

LEMMA JoinedAs ==
    ASSUME NEW S, NEW u \in Seq(S), NEW v \in Seq(S), NEW m \in Nat, NEW k \in Nat,
           Len(u) = m, Len(v) = k
    PROVE  /\ u \o v \in Seq(S) /\ Len(u \o v) = m + k
           /\ \A n \in 1 .. m : (u \o v)[n] = u[n]
           /\ \A n \in 1 .. m + k : n > m => (u \o v)[n] = v[n - m]
  OBVIOUS

LEMMA PaddedIs ==
    ASSUME length \in Nat, NEW zeros \in Nat, zeros = (BlockSize - CountSize - 1 - length) % BlockSize
    PROVE  Padded = [n \in 1 .. length + 1 + zeros + CountSize |-> PaddedAt(zeros, n - 1)]
  <1> PICK S : \A n \in Nat : Byte(n) \in S /\ Mark \in S /\ Zero \in S /\ Counted(n, CountsOf(length)) \in S
    <2> DEFINE T == {Byte(n) : n \in Nat} \union {Mark, Zero} \union {Counted(n, CountsOf(length)) : n \in Nat}
    <2>1. \A n \in Nat : Byte(n) \in T /\ Mark \in T /\ Zero \in T /\ Counted(n, CountsOf(length)) \in T
      OBVIOUS
    <2> QED
      BY <2>1
  <1> PICK c \in Nat : c = CountSize
    BY Md5Facts
  <1> PICK l \in Nat : l = length
    OBVIOUS
  <1> DEFINE text == [n \in 1 .. l |-> Byte(n - 1)]
             none == [n \in 1 .. zeros |-> Zero]
             counts == [n \in 1 .. c |-> Counted(n - 1, CountsOf(length))]
             start == text \o <<Mark>>
             most == start \o none
  <1>1. Padded = most \o counts
    BY Zenon DEF Padded, Counted, CountsOf
  <1>2. text \in Seq(S) /\ Len(text) = l /\ \A n \in 1 .. l : text[n] = Byte(n - 1)
    <2>1. \A n \in 1 .. l : n - 1 \in Nat
      OBVIOUS
    <2>2. text \in [1 .. l -> S]
      BY <2>1
    <2> HIDE DEF text
    <2>3. text \in Seq(S) /\ Len(text) = l
      <3>1. text \in Seq(S)
        BY <2>2
      <3> QED
        BY <2>2, <3>1
    <2> QED
      BY <2>3 DEF text
  <1>3. none \in Seq(S) /\ Len(none) = zeros /\ \A n \in 1 .. zeros : none[n] = Zero
    <2>1. none \in [1 .. zeros -> S]
      BY 0 \in Nat
    <2> HIDE DEF none
    <2>2. none \in Seq(S) /\ Len(none) = zeros
      <3>1. none \in Seq(S)
        BY <2>1
      <3> QED
        BY <2>1, <3>1
    <2> QED
      BY <2>2 DEF none
  <1>4. counts \in Seq(S) /\ Len(counts) = c /\ \A n \in 1 .. c : counts[n] = Counted(n - 1, CountsOf(length))
    <2>1. \A n \in 1 .. c : n - 1 \in Nat
      OBVIOUS
    <2>2. counts \in [1 .. c -> S]
      BY <2>1
    <2> HIDE DEF counts
    <2>3. counts \in Seq(S) /\ Len(counts) = c
      <3>1. counts \in Seq(S)
        BY <2>2
      <3> QED
        BY <2>2, <3>1
    <2> QED
      BY <2>3 DEF counts
  <1>5. <<Mark>> \in Seq(S) /\ Len(<<Mark>>) = 1 /\ <<Mark>>[1] = Mark
    BY 0 \in Nat
  <1> HIDE DEF text, none, counts
  <1>6. /\ start \in Seq(S) /\ Len(start) = l + 1
        /\ \A n \in 1 .. l + 1 : start[n] = IF n <= l THEN Byte(n - 1) ELSE Mark
    <2>1. /\ start \in Seq(S) /\ Len(start) = l + 1
          /\ \A n \in 1 .. l : start[n] = text[n]
          /\ \A n \in 1 .. l + 1 : n > l => start[n] = <<Mark>>[n - l]
      <3>1. 1 \in Nat
        OBVIOUS
      <3> QED
        BY <1>2, <1>5, <3>1
    <2> HIDE DEF start
    <2>2. ASSUME NEW n \in 1 .. l + 1 PROVE start[n] = IF n <= l THEN Byte(n - 1) ELSE Mark
      <3>1. CASE n <= l
        BY <1>2, <2>1, <3>1
      <3>2. CASE n = l + 1
        <4>1. n > l /\ n - l = 1 /\ ~(n <= l)
          BY <3>2
        <4>2. start[n] = <<Mark>>[1]
          BY <2>1, <4>1, Zenon
        <4> QED
          BY <1>5, <4>1, <4>2, Zenon
      <3>3. n <= l \/ n = l + 1
        OBVIOUS
      <3> QED
        BY <3>1, <3>2, <3>3, Zenon
    <2> QED
      BY <2>1, <2>2
  <1> HIDE DEF start
  <1>7. /\ most \in Seq(S) /\ Len(most) = l + 1 + zeros
        /\ \A n \in 1 .. l + 1 + zeros : most[n] = IF n <= l THEN Byte(n - 1) ELSE IF n = l + 1 THEN Mark ELSE Zero
    <2>1. /\ most \in Seq(S) /\ Len(most) = l + 1 + zeros
          /\ \A n \in 1 .. l + 1 : most[n] = start[n]
          /\ \A n \in 1 .. l + 1 + zeros : n > l + 1 => most[n] = none[n - (l + 1)]
      <3>1. l + 1 \in Nat
        OBVIOUS
      <3>2. start \in Seq(S) /\ none \in Seq(S) /\ Len(start) = l + 1 /\ Len(none) = zeros
        BY <1>3, <1>6
      <3>3. most = start \o none
        OBVIOUS
      <3> HIDE DEF most
      <3> PICK m \in Nat : m = l + 1
        OBVIOUS
      <3>4. most \in Seq(S) /\ Len(most) = m + zeros
        BY ONLY <3>2, <3>3, zeros \in Nat, m \in Nat, m = l + 1
      <3>5. \A n \in 1 .. m : most[n] = start[n]
        BY ONLY <3>2, <3>3, zeros \in Nat, m \in Nat, m = l + 1
      <3>6. \A n \in 1 .. m + zeros : n > m => most[n] = none[n - m]
        BY ONLY <3>2, <3>3, zeros \in Nat, m \in Nat, m = l + 1
      <3> QED
        BY <3>4, <3>5, <3>6
    <2> HIDE DEF most
    <2>2. ASSUME NEW n \in 1 .. l + 1 + zeros
          PROVE  most[n] = IF n <= l THEN Byte(n - 1) ELSE IF n = l + 1 THEN Mark ELSE Zero
      <3>1. CASE n <= l + 1
        <4>1. n \in 1 .. l + 1
          BY <3>1
        <4>2. most[n] = start[n]
          BY <2>1, <4>1, Zenon
        <4> QED
          BY <1>6, <3>1, <4>1, <4>2
      <3>2. CASE n > l + 1
        <4>1. n - (l + 1) \in 1 .. zeros /\ ~(n <= l) /\ n # l + 1
          BY <3>2
        <4>2. most[n] = none[n - (l + 1)]
          BY <2>1, <3>2, Zenon
        <4> QED
          BY <1>3, <4>1, <4>2, Zenon
      <3>3. n <= l + 1 \/ n > l + 1
        OBVIOUS
      <3> QED
        BY <3>1, <3>2, <3>3, Zenon
    <2> QED
      BY <2>1, <2>2
  <1> HIDE DEF most
  <1>8. /\ Padded \in Seq(S) /\ Len(Padded) = l + 1 + zeros + c
    <2>1. l + 1 + zeros \in Nat
      OBVIOUS
    <2> QED
      <3> PICK u : u = most
        OBVIOUS
      <3> PICK v : v = counts
        OBVIOUS
      <3> PICK k \in Nat : k = l + 1 + zeros
        BY <2>1
      <3>1. u \in Seq(S) /\ v \in Seq(S) /\ Len(u) = k /\ Len(v) = c
        BY <1>4, <1>7, Zenon
      <3>2. u \o v \in Seq(S) /\ Len(u \o v) = k + c
        BY ONLY <3>1, k \in Nat, c \in Nat
      <3> QED
        BY <1>1, <3>2, Zenon
  <1>9. ASSUME NEW n \in 1 .. l + 1 + zeros + c PROVE Padded[n] = PaddedAt(zeros, n - 1)
    <2>1. CASE n <= l + 1 + zeros
      <3>1. n \in 1 .. Len(most)
        BY <1>7, <2>1
      <3>2. Padded[n] = most[n]
        BY <1>1, <1>4, <1>7, <3>1, Joined, Zenon
      <3>3. most[n] = IF n <= l THEN Byte(n - 1) ELSE IF n = l + 1 THEN Mark ELSE Zero
        BY <1>7, <2>1
      <3>4. /\ (n <= l <=> n - 1 < length) /\ (n = l + 1 <=> n - 1 = length) /\ n - 1 <= length + zeros
        BY <2>1
      <3> QED
        BY <3>2, <3>3, <3>4, Zenon DEF PaddedAt
    <2>2. CASE n > l + 1 + zeros
      <3>1. n \in 1 .. Len(most) + Len(counts) /\ n > Len(most) /\ n - Len(most) \in 1 .. c
        BY <1>4, <1>7, <2>2
      <3>2. Padded[n] = counts[n - Len(most)]
        BY <1>1, <1>4, <1>7, <3>1, Joined, Zenon
      <3>3. counts[n - Len(most)] = Counted((n - Len(most)) - 1, CountsOf(length))
        BY <1>4, <3>1, Zenon
      <3>4. (n - Len(most)) - 1 = (n - 1) - (length + 1 + zeros)
        BY <1>7
      <3>5. ~(n - 1 < length) /\ n - 1 # length /\ ~(n - 1 <= length + zeros)
        BY <2>2
      <3> QED
        BY <3>2, <3>3, <3>4, <3>5, Zenon DEF PaddedAt
    <2> QED
      BY <2>1, <2>2
  <1>10. \A n \in 1 .. l + 1 + zeros + c : Padded[n] = PaddedAt(zeros, n - 1)
    BY <1>9
  <1>11. Padded = [n \in 1 .. Len(Padded) |-> Padded[n]]
    <2> PICK p : p = Padded
      OBVIOUS
    <2>1. p \in Seq(S)
      BY <1>8, Zenon
    <2>2. p = [n \in 1 .. Len(p) |-> p[n]]
      BY ONLY <2>1
    <2> QED
      BY <2>2, p = Padded, Zenon
  <1> QED
    BY <1>8, <1>10, <1>11, Zenon

IsFill(c, to, first, last, byte) ==
    /\ c \in BlockValues
    /\ \A n \in BlockIndex : c[n] = IF n \in first .. last THEN byte ELSE to[n]

LEMMA FilledIs ==
    ASSUME NEW to \in BlockValues, NEW first \in Int, NEW last \in Int, NEW byte \in Words
    PROVE  IsFill(Filled(to, first, last, byte), to, first, last, byte)
  <1>1. Filled(to, first, last, byte) = [n \in BlockIndex |-> IF n \in first .. last THEN byte ELSE to[n]]
    BY DEF Filled, BlockIndex
  <1>2. \A n \in BlockIndex : to[n] \in Words
    BY DEF BlockValues
  <1> QED
    BY <1>1, <1>2 DEF BlockValues, IsFill

LEMMA WithCountsIs ==
    ASSUME NEW to \in BlockValues, bits \in Nat \X Nat
    PROVE  /\ WithCounts(to) \in BlockValues
           /\ \A n \in BlockIndex :
                 WithCounts(to)[n] = IF n >= BlockSize - CountSize
                                     THEN Counted(n - (BlockSize - CountSize), bits) ELSE to[n]
  <1>1. WithCounts(to) = [n \in BlockIndex |->
            IF n >= BlockSize - CountSize THEN Counted(n - (BlockSize - CountSize), bits) ELSE to[n]]
    BY DEF WithCounts, BlockIndex, Counted
  <1>2. \A n \in BlockIndex : to[n] \in Words
    BY DEF BlockValues
  <1>3. \A n \in BlockIndex : n >= BlockSize - CountSize => Counted(n - (BlockSize - CountSize), bits) \in Words
    <2> SUFFICES ASSUME NEW n \in BlockIndex, n >= BlockSize - CountSize
                 PROVE  Counted(n - (BlockSize - CountSize), bits) \in Words
      OBVIOUS
    <2>1. n - (BlockSize - CountSize) \in Nat
      BY Md5Facts DEF BlockIndex
    <2> QED
      BY <2>1 DEF Words
  <1> QED
    BY <1>1, <1>2, <1>3 DEF BlockValues

(* How many zeros there are.                                               *)
LEMMA ZerosAre ==
    ASSUME NEW q \in Nat, NEW t \in 0 .. BlockSize - 1
    PROVE  (BlockSize - CountSize - 1 - (BlockSize * q + t)) % BlockSize
              = IF BlockSize - 1 - t < CountSize
                THEN BlockSize + (BlockSize - 1 - t) - CountSize
                ELSE (BlockSize - 1 - t) - CountSize
  <1> PICK b \in Nat \ {0} : b = BlockSize
    BY Md5Facts
  <1> PICK c \in Nat : c = CountSize /\ 0 < c /\ c < b
    BY Md5Facts
  <1> b * q \in Nat
    OBVIOUS
  <1>1. CASE b - 1 - t < c
    <2>1. b * (-q - 1) = -(b * q) - b
      OBVIOUS
    <2>2. b - c - 1 - (b * q + t) = b * (-q - 1) + (b + (b - 1 - t) - c)
      BY <2>1
    <2>3. -q - 1 \in Int /\ b + (b - 1 - t) - c \in 0 .. b - 1
      BY <1>1
    <2>4. (b * (-q - 1) + (b + (b - 1 - t) - c)) % b = b + (b - 1 - t) - c
      BY <2>3, DivModIs, Zenon
    <2> QED
      BY <1>1, <2>2, <2>4, Zenon
  <1>2. CASE ~(b - 1 - t < c)
    <2>1. b * (-q) = -(b * q)
      OBVIOUS
    <2>2. b - c - 1 - (b * q + t) = b * (-q) + ((b - 1 - t) - c)
      BY <2>1
    <2>3. -q \in Int /\ (b - 1 - t) - c \in 0 .. b - 1
      BY <1>2
    <2>4. (b * (-q) + ((b - 1 - t) - c)) % b = (b - 1 - t) - c
      BY <2>3, DivModIs, Zenon
    <2> QED
      BY <1>2, <2>2, <2>4, Zenon
  <1> QED
    BY <1>1, <1>2, Zenon

LEMMA FinalKeeps == Md5Inv /\ Final => Md5Inv'
  <1> SUFFICES ASSUME Md5Inv, Final PROVE Md5Inv'
    OBVIOUS
  <1> PICK b \in Nat \ {0} : b = BlockSize
    BY Md5Facts
  <1> PICK c \in Nat : c = CountSize /\ 0 < c /\ c < b
    BY Md5Facts
  <1>1. ~done /\ done' /\ done' \in BOOLEAN /\ length' = length
    BY Zenon DEF Final
  <1>2. /\ length \in Nat /\ length' \in 0 .. MaxLength /\ in \in BlockValues /\ blocks \in Seq(BlockValues)
        /\ bits \in Nat \X Nat
    <2>1. length \in 0 .. MaxLength /\ in \in BlockValues /\ blocks \in Seq(BlockValues)
          /\ bits \in (0 .. CountLimit - 1) \X (0 .. CountLimit - 1)
      BY DEF Md5Inv, Md5Typed
    <2> QED
      BY <1>1, <2>1
  <1> PICK q \in Nat : q = Len(blocks)
    BY <1>2
  <1> DEFINE used == (bits[1] \div 8) % BlockSize
  <1>3. PICK t0 \in 0 .. b - 1 :
              /\ length = b * q + t0
              /\ \A n \in 0 .. t0 - 1 : in[n] = Byte(b * q + n)
    BY <1>1 DEF Md5Inv, Going, BlockIndex
  <1>4. /\ bits = CountsOf(length)
        /\ \A k \in 1 .. q : \A n \in BlockIndex : blocks[k][n] = Byte(b * (k - 1) + n)
    BY <1>1 DEF Md5Inv, Going
  <1>5. used = t0
    <2>1. bits[1] = Wrapped(8 * length)
      BY <1>4 DEF CountsOf
    <2>2. (Wrapped(8 * length) \div 8) % BlockSize = length % BlockSize
      BY <1>2, UsedIs, Zenon
    <2>3. (b * q + t0) % b = t0
      <3>1. q \in Int
        OBVIOUS
      <3> QED
        BY <3>1, DivModIs, Zenon
    <2> QED
      BY <1>3, <2>1, <2>2, <2>3, Zenon
  <1> DEFINE marked == [in EXCEPT ![used] = Mark]
             size == BlockSize - 1 - used
             padded == Filled(marked, used + 1, used + size, Zero)
             counted == WithCounts(Filled(padded, 0, BlockSize - CountSize - 1, Zero))
             one == WithCounts(Filled(marked, used + 1, used + size - CountSize, Zero))
             last == IF size < CountSize THEN <<padded, counted>> ELSE <<one>>
  <1>6. blocks' = blocks \o last /\ bits' = <<0, 0>> /\ in' = [n \in 0 .. BlockSize - 1 |-> Zero]
    BY Zenon DEF Final
  <1> HIDE DEF used
  <1>7. used \in 0 .. b - 1 /\ length = b * q + used
        /\ \A n \in 0 .. used - 1 : in[n] = Byte(b * q + n)
    BY <1>3, <1>5, Zenon
  <1> used \in 0 .. b - 1
    BY <1>7, Zenon
  <1> PICK bq \in Nat : bq = b * q
    OBVIOUS
  <1> DEFINE zeros == IF size < CountSize THEN BlockSize + size - CountSize ELSE size - CountSize
  <1>8. zeros = (BlockSize - CountSize - 1 - length) % BlockSize /\ zeros \in Nat
    <2>1. (BlockSize - CountSize - 1 - (BlockSize * q + used)) % BlockSize = zeros
      <3>1. used \in 0 .. BlockSize - 1
        OBVIOUS
      <3> QED
        BY <3>1, ZerosAre, Zenon
    <2>2. zeros \in Nat
      OBVIOUS
    <2> QED
      BY <1>7, <2>1, <2>2, Zenon
  <1>9. Mark \in Words /\ Zero \in Words
    BY DEF Words
  <1>10. marked \in BlockValues /\ \A n \in BlockIndex : marked[n] = IF n = used THEN Mark ELSE in[n]
    BY <1>2, <1>9 DEF BlockValues, BlockIndex
  <1>11. /\ used + 1 \in Int /\ used + size \in Int /\ 0 \in Int /\ BlockSize - CountSize - 1 \in Int
         /\ used + size - CountSize \in Int
    OBVIOUS
  <1> HIDE DEF marked
  <1>12. padded \in BlockValues /\ \A n \in BlockIndex :
            padded[n] = IF n \in used + 1 .. used + size THEN Zero ELSE marked[n]
    <2>1. IsFill(padded, marked, used + 1, used + size, Zero)
      BY <1>9, <1>10, <1>11, FilledIs, Zenon
    <2> QED
      BY <2>1, Zenon DEF IsFill
  <1> HIDE DEF padded
  <1>13. /\ counted \in BlockValues
         /\ \A n \in BlockIndex : counted[n] = IF n >= b - c THEN Counted(n - (b - c), bits) ELSE Zero
    <2> PICK x : x = Filled(padded, 0, BlockSize - CountSize - 1, Zero)
      OBVIOUS
    <2>1. x \in BlockValues /\ \A n \in BlockIndex : x[n] = IF n \in 0 .. BlockSize - CountSize - 1 THEN Zero ELSE padded[n]
      <3>1. IsFill(x, padded, 0, BlockSize - CountSize - 1, Zero)
        BY <1>9, <1>11, <1>12, FilledIs, Zenon
      <3> QED
        BY <3>1, Zenon DEF IsFill
    <2>2. WithCounts(x) \in BlockValues /\ \A n \in BlockIndex : WithCounts(x)[n] =
             IF n >= BlockSize - CountSize THEN Counted(n - (BlockSize - CountSize), bits) ELSE x[n]
      BY <1>2, <2>1, WithCountsIs, Zenon
    <2>3. \A n \in BlockIndex : ~(n >= BlockSize - CountSize) => n \in 0 .. BlockSize - CountSize - 1
      BY DEF BlockIndex
    <2>4. counted = WithCounts(x)
      OBVIOUS
    <2> HIDE DEF counted
    <2> QED
      BY <2>1, <2>2, <2>3, <2>4, Zenon
  <1>14. /\ one \in BlockValues
         /\ \A n \in BlockIndex : one[n] = IF n >= b - c THEN Counted(n - (b - c), bits)
                                          ELSE IF n \in used + 1 .. used + size - c THEN Zero ELSE marked[n]
    <2> PICK x : x = Filled(marked, used + 1, used + size - CountSize, Zero)
      OBVIOUS
    <2>1. x \in BlockValues /\ \A n \in BlockIndex : x[n] = IF n \in used + 1 .. used + size - CountSize THEN Zero ELSE marked[n]
      <3>1. IsFill(x, marked, used + 1, used + size - CountSize, Zero)
        BY <1>9, <1>10, <1>11, FilledIs, Zenon
      <3> QED
        BY <3>1, Zenon DEF IsFill
    <2>2. WithCounts(x) \in BlockValues /\ \A n \in BlockIndex : WithCounts(x)[n] =
             IF n >= BlockSize - CountSize THEN Counted(n - (BlockSize - CountSize), bits) ELSE x[n]
      BY <1>2, <2>1, WithCountsIs, Zenon
    <2>4. one = WithCounts(x)
      OBVIOUS
    <2> HIDE DEF one
    <2> QED
      BY <2>1, <2>2, <2>4, Zenon
  <1> HIDE DEF counted, one
  <1>15. \A n \in BlockIndex : n < used => marked[n] = Byte(bq + n)
    <2>1. \A n \in BlockIndex : n < used => n \in 0 .. used - 1 /\ n # used
      BY DEF BlockIndex
    <2> QED
      BY <1>7, <1>10, <2>1, Zenon
  <1>16. marked[used] = Mark /\ used \in BlockIndex
    BY <1>10 DEF BlockIndex
  (* The new blocks hold the rest of the message and its padding.          *)
  <1>17. PICK m \in 1 .. 2 :
            /\ last \in Seq(BlockValues) /\ Len(last) = m
            /\ \A k \in 1 .. m : \A n \in BlockIndex :
                  last[k][n] = PaddedAt(zeros, bq + b * (k - 1) + n)
            /\ length + 1 + zeros + c = bq + b * m
    <2>0. \A n \in BlockIndex : n \in 0 .. b - 1
      BY DEF BlockIndex
    <2>1. CASE size < CountSize
      <3>1. last = <<padded, counted>> /\ zeros = b + (b - 1 - used) - c
        BY <2>1
      <3> PICK z \in Nat : z = zeros
        BY <1>8, Zenon
      <3> HIDE DEF zeros, last
      <3>2. ASSUME NEW n \in BlockIndex PROVE padded[n] = PaddedAt(z, bq + n)
        <4>1. n \in 0 .. b - 1
          BY <2>0
        <4>2. CASE n < used
          <5>1. padded[n] = marked[n] /\ marked[n] = Byte(bq + n)
            BY <1>12, <1>15, <4>1, <4>2
          <5>2. bq + n < length
            BY <1>7, <4>1, <4>2
          <5> QED
            BY <5>1, <5>2, Zenon DEF PaddedAt
        <4>3. CASE n = used
          <5>1. padded[n] = marked[n]
            BY <1>12, <4>1, <4>3
          <5>2. bq + n = length /\ ~(bq + n < length)
            BY <1>7, <4>1, <4>3
          <5> QED
            BY <1>16, <4>3, <5>1, <5>2, Zenon DEF PaddedAt
        <4>4. CASE n > used
          <5>1. padded[n] = Zero
            BY <1>12, <4>1, <4>4
          <5>2. bq + n # length /\ ~(bq + n < length) /\ bq + n <= length + z
            BY <1>7, <2>1, <3>1, <4>1, <4>4
          <5> QED
            BY <5>1, <5>2, Zenon DEF PaddedAt
        <4> QED
          BY <4>1, <4>2, <4>3, <4>4
      <3>3. ASSUME NEW n \in BlockIndex PROVE counted[n] = PaddedAt(z, bq + b + n)
        <4>1. n \in 0 .. b - 1 /\ bq + b + n # length /\ ~(bq + b + n < length)
          BY <1>7, <2>0
        <4>2. CASE n >= b - c
          <5>1. ~(bq + b + n <= length + z) /\ (bq + b + n) - (length + 1 + z) = n - (b - c)
            BY <1>7, <3>1, <4>1, <4>2
          <5> QED
            BY <1>4, <1>13, <4>1, <4>2, <5>1, Zenon DEF PaddedAt
        <4>3. CASE ~(n >= b - c)
          <5>1. bq + b + n <= length + z
            BY <1>7, <3>1, <4>1, <4>3
          <5> QED
            BY <1>13, <4>1, <4>3, <5>1, Zenon DEF PaddedAt
        <4> QED
          BY <4>2, <4>3
      <3>4. last \in Seq(BlockValues) /\ Len(last) = 2 /\ last[1] = padded /\ last[2] = counted
        BY <1>12, <1>13, <3>1
      <3>5. ASSUME NEW k \in 1 .. 2, NEW n \in BlockIndex
            PROVE  last[k][n] = PaddedAt(z, bq + b * (k - 1) + n)
        <4>1. CASE k = 1
          <5>1. bq + b * (k - 1) + n = bq + n
            BY <2>0, <4>1
          <5> QED
            BY <3>2, <3>4, <4>1, <5>1, Zenon
        <4>2. CASE k = 2
          <5>1. bq + b * (k - 1) + n = bq + b + n
            BY <2>0, <4>2
          <5> QED
            BY <3>3, <3>4, <4>2, <5>1, Zenon
        <4> QED
          BY <4>1, <4>2
      <3>6. length + 1 + z + c = bq + b * 2
        BY <1>7, <3>1
      <3>7. 2 \in 1 .. 2
        OBVIOUS
      <3> QED
        BY <3>4, <3>5, <3>6, <3>7, Zenon
    <2>2. CASE ~(size < CountSize)
      <3>1. last = <<one>> /\ zeros = (b - 1 - used) - c /\ b - 1 - used >= c
        BY <2>2
      <3> PICK z \in Nat : z = zeros
        BY <1>8, Zenon
      <3> HIDE DEF zeros, last
      <3>2. ASSUME NEW n \in BlockIndex PROVE one[n] = PaddedAt(z, bq + n)
        <4>1. n \in 0 .. b - 1
          BY <2>0
        <4>2. CASE n < used
          <5>1. one[n] = marked[n] /\ marked[n] = Byte(bq + n)
            BY <1>14, <1>15, <3>1, <4>1, <4>2
          <5>2. bq + n < length
            BY <1>7, <4>1, <4>2
          <5> QED
            BY <5>1, <5>2, Zenon DEF PaddedAt
        <4>3. CASE n = used
          <5>1. one[n] = marked[n]
            BY <1>14, <3>1, <4>1, <4>3
          <5>2. bq + n = length /\ ~(bq + n < length)
            BY <1>7, <4>1, <4>3
          <5> QED
            BY <1>16, <4>3, <5>1, <5>2, Zenon DEF PaddedAt
        <4>4. CASE n > used /\ n < b - c
          <5>1. one[n] = Zero
            BY <1>14, <4>1, <4>4
          <5>2. bq + n # length /\ ~(bq + n < length) /\ bq + n <= length + z
            BY <1>7, <3>1, <4>1, <4>4
          <5> QED
            BY <5>1, <5>2, Zenon DEF PaddedAt
        <4>5. CASE n >= b - c
          <5>1. bq + n # length /\ ~(bq + n < length) /\ ~(bq + n <= length + z)
                /\ (bq + n) - (length + 1 + z) = n - (b - c)
            BY <1>7, <3>1, <4>1, <4>5
          <5> QED
            BY <1>4, <1>14, <4>5, <5>1, Zenon DEF PaddedAt
        <4> QED
          BY <4>1, <4>2, <4>3, <4>4, <4>5
      <3>4. last \in Seq(BlockValues) /\ Len(last) = 1 /\ last[1] = one
        BY <1>14, <3>1
      <3>5. ASSUME NEW k \in 1 .. 1, NEW n \in BlockIndex
            PROVE  last[k][n] = PaddedAt(z, bq + b * (k - 1) + n)
        <4>1. k = 1 /\ bq + b * (k - 1) + n = bq + n
          BY <2>0
        <4> QED
          BY <3>2, <3>4, <4>1, Zenon
      <3>6. length + 1 + z + c = bq + b * 1
        BY <1>7, <3>1
      <3>7. 1 \in 1 .. 2
        OBVIOUS
      <3> QED
        BY <3>4, <3>5, <3>6, <3>7, Zenon
    <2> QED
      BY <2>1, <2>2
  <1> HIDE DEF last
  <1> PICK z \in Nat : z = zeros
    BY <1>8, Zenon
  <1> HIDE DEF zeros
  <1>18. blocks' \in Seq(BlockValues) /\ Len(blocks') = q + m
    BY <1>2, <1>6, <1>17
  <1>19. ASSUME NEW k \in 1 .. q + m, NEW n \in BlockIndex
         PROVE  blocks'[k][n] = PaddedAt(z, b * (k - 1) + n)
    <2>0. n \in Int /\ n \in 0 .. b - 1
      BY DEF BlockIndex
    <2>1. CASE k <= q
      <3>1. k \in 1 .. q /\ blocks'[k] = blocks[k]
        BY <1>2, <1>6, <1>17, <2>1
      <3>2. b * (k - 1) + n < length
        <4>1. b * (k - 1) + b <= b * q /\ b * (k - 1) \in Int
          BY <2>1
        <4> QED
          BY <1>7, <2>0, <4>1
      <3> QED
        BY <1>4, <3>1, <3>2, Zenon DEF PaddedAt
    <2>2. CASE k > q
      <3>1. k - q \in 1 .. m /\ blocks'[k] = last[k - q]
        <4>1. k - q \in 1 .. m
          BY <2>2
        <4>2. blocks \in Seq(BlockValues) /\ last \in Seq(BlockValues) /\ Len(last) = m /\ Len(blocks) = q
          BY <1>2, <1>17, Zenon
        <4>3. (blocks \o last)[k] = last[k - q]
          BY ONLY <2>2, <4>2, q \in Nat, m \in 1 .. 2, k \in 1 .. q + m
        <4> QED
          BY <1>6, <4>1, <4>3, Zenon
      <3>2. bq + b * ((k - q) - 1) + n = b * (k - 1) + n
        <4>1. b * q + b * ((k - q) - 1) = b * (k - 1)
          OBVIOUS
        <4> QED
          BY <4>1, Zenon
      <3> QED
        BY <1>17, <3>1, <3>2, Zenon
    <2> QED
      BY <2>1, <2>2
  <1>20. Got' = Padded'
    <2> DEFINE f == [n \in Nat |-> PaddedAt(z, n)]
    <2> PICK bl : bl = blocks'
      OBVIOUS
    <2>1. Spells(bl, q + m, f)
      <3> SUFFICES ASSUME NEW k \in 1 .. q + m, NEW j \in BlockIndex
                   PROVE  bl[k][j] = f[BlockSize * (k - 1) + j]
        BY DEF Spells
      <3>1. b * (k - 1) + j \in Nat
        <4>1. b * (k - 1) \in Nat /\ j \in Nat
          BY DEF BlockIndex
        <4> QED
          BY <4>1
      <3> QED
        BY <1>19, <3>1, Zenon
    <2>2. TextOf(bl, q + m) = [n \in 1 .. (q + m) * BlockSize |-> f[n - 1]]
      <3>1. q + m \in Nat
        OBVIOUS
      <3> HIDE DEF f
      <3>2. TextOf(bl, q + m) = FirstOf(f, q + m)
        BY <2>1, <3>1, Spelled, Zenon
      <3> QED
        BY <3>2, Zenon DEF FirstOf
    <2>3. Padded = [n \in 1 .. length + 1 + z + CountSize |-> PaddedAt(z, n - 1)]
      BY <1>2, <1>8, PaddedIs, Zenon
    <2>4. Padded' = Padded
      BY <1>1, Zenon DEF Padded
    <2>5. length + 1 + z + CountSize = (q + m) * BlockSize
      <3>1. bq + b * m = (q + m) * b
        OBVIOUS
      <3> QED
        BY <1>17, <3>1, Zenon
    <2>6. Got' = TextOf(bl, q + m)
      BY <1>18, Zenon DEF Got
    <2>7. \A n \in 1 .. (q + m) * BlockSize : f[n - 1] = PaddedAt(z, n - 1)
      <3> PICK w \in Nat : w = (q + m) * b
        OBVIOUS
      <3>1. \A n \in 1 .. w : n - 1 \in Nat
        OBVIOUS
      <3> QED
        BY <3>1, Zenon
    <2> HIDE DEF f
    <2> QED
      BY <2>2, <2>3, <2>4, <2>5, <2>6, <2>7, Zenon
  <1>21. in' \in BlockValues
    BY <1>6, <1>9 DEF BlockValues, BlockIndex
  <1>22. bits' \in (0 .. CountLimit - 1) \X (0 .. CountLimit - 1)
    <2> PICK l \in Nat \ {0} : l = CountLimit
      BY Md5Facts
    <2> QED
      BY ONLY <1>6, l \in Nat \ {0}, l = CountLimit
  <1> QED
    BY <1>1, <1>2, <1>18, <1>20, <1>21, <1>22, Zenon DEF Md5Inv, Md5Typed, Going

LEMMA AgainKeeps == Md5Inv /\ Again => Md5Inv'
  <1> SUFFICES ASSUME Md5Inv, Again PROVE Md5Inv'
    OBVIOUS
  <1>1. bits' = <<0, 0>> /\ blocks' = <<>> /\ length' = 0 /\ done' = FALSE /\ in' = in
    BY Zenon DEF Again
  <1>2. in' \in BlockValues
    BY <1>1, Zenon DEF Md5Inv, Md5Typed
  <1> PICK b \in Nat \ {0} : b = BlockSize
    BY Md5Facts
  <1> PICK l \in Nat \ {0} : l = CountLimit
    BY Md5Facts
  <1>3. blocks' \in Seq(BlockValues) /\ Len(blocks') = 0
    BY <1>1
  <1>4. /\ bits' \in (0 .. CountLimit - 1) \X (0 .. CountLimit - 1) /\ length' \in 0 .. MaxLength
    BY <1>1, Md5Facts
  <1>5. bits' = CountsOf(length')
    <2>1. l * 0 + 0 = 0 /\ 0 \in Int /\ 0 \in 0 .. l - 1 /\ 8 * 0 = 0
      OBVIOUS
    <2>2. 0 % l = 0 /\ 0 \div l = 0
      <3>1. (l * 0 + 0) % l = 0 /\ (l * 0 + 0) \div l = 0
        BY <2>1, DivModIs, Zenon
      <3> QED
        BY <2>1, <3>1, Zenon
    <2> QED
      BY <1>1, <2>1, <2>2, Zenon DEF CountsOf, Wrapped
  <1>6. Going'
    <2>1. 1 .. 0 = {} /\ 0 .. 0 - 1 = {} /\ b * 0 + 0 = 0
      OBVIOUS
    <2>2. 0 \in BlockIndex
      BY DEF BlockIndex
    <2>3. length' = BlockSize * Len(blocks') + 0
      BY <1>1, <1>3, <2>1, Zenon
    <2> QED
      BY <1>3, <1>5, <2>1, <2>2, <2>3, Zenon DEF Going
  <1>7. ~done' /\ done' \in BOOLEAN
    BY <1>1, Zenon
  <1> QED
    BY <1>2, <1>3, <1>4, <1>6, <1>7, Zenon DEF Md5Inv, Md5Typed

LEMMA Md5Always == Md5Inv /\ [Md5Next]_md5Vars => Md5Inv'
  <1> SUFFICES ASSUME Md5Inv, [Md5Next]_md5Vars PROVE Md5Inv'
    OBVIOUS
  <1>1. CASE Final
    BY <1>1, FinalKeeps, Zenon
  <1>2. CASE Again
    BY <1>2, AgainKeeps, Zenon
  <1>3. ASSUME NEW len \in 0 .. MaxPiece, Update(len) PROVE Md5Inv'
    BY <1>3, UpdateKeeps, Zenon
  <1>4. CASE UNCHANGED md5Vars
    <2>1. UNCHANGED <<bits, in, blocks, length, done>>
      BY <1>4, Zenon DEF md5Vars
    <2>2. Md5Typed'
      BY <2>1, Zenon DEF Md5Inv, Md5Typed
    <2>3. Going'
      BY <2>1, Zenon DEF Md5Inv, Going
    <2>4. done' => Got' = Padded'
      BY <2>1, Zenon DEF Md5Inv, Got, Padded
    <2> QED
      BY <2>2, <2>3, <2>4, Zenon DEF Md5Inv
  <1> QED
    BY <1>1, <1>2, <1>3, <1>4, Zenon DEF Md5Next

(* The invariant says what BlocksAreMessage does.                          *)
LEMMA InvIsMessage == Md5Inv => BlocksAreMessage
  <1> SUFFICES ASSUME Md5Inv PROVE BlocksAreMessage
    OBVIOUS
  <1>1. CASE done
    BY <1>1, Zenon DEF Md5Inv, BlocksAreMessage, Got, TextOf
  <1>2. CASE ~done
    <2> PICK b \in Nat \ {0} : b = BlockSize
      BY Md5Facts
    <2>1. length \in Nat /\ blocks \in Seq(BlockValues)
      BY DEF Md5Inv, Md5Typed
    <2> PICK q \in Nat : q = Len(blocks)
      BY <2>1
    <2>2. PICK t \in 0 .. b - 1 :
              /\ length = b * q + t
              /\ \A n \in 0 .. t - 1 : in[n] = Byte(b * q + n)
      BY <1>2 DEF Md5Inv, Going, BlockIndex
    <2>3. \A k \in 1 .. q : \A n \in BlockIndex : blocks[k][n] = Byte(b * (k - 1) + n)
      BY <1>2 DEF Md5Inv, Going
    <2>4. length % BlockSize = t
      <3>1. q \in Int
        OBVIOUS
      <3>2. (b * q + t) % b = t
        BY <3>1, DivModIs, Zenon
      <3> QED
        BY <2>2, <3>2, Zenon
    <2>5. length - t = q * BlockSize /\ length - t = b * q
      <3>1. b * q \in Int /\ b * q = q * b
        OBVIOUS
      <3> QED
        BY <2>2, <3>1
    <2> DEFINE f == [n \in Nat |-> Byte(n)]
    <2>6. Spells(blocks, q, f)
      <3> SUFFICES ASSUME NEW k \in 1 .. q, NEW j \in BlockIndex
                   PROVE  blocks[k][j] = f[b * (k - 1) + j]
        BY Zenon DEF Spells
      <3>1. b * (k - 1) + j \in Nat
        <4>1. b * (k - 1) \in Nat /\ j \in Nat
          BY DEF BlockIndex
        <4> QED
          BY <4>1
      <3> QED
        BY <2>3, <3>1, Zenon
    <2>7. Got = [n \in 1 .. q * BlockSize |-> f[n - 1]]
      <3> HIDE DEF f
      <3> QED
        <4>1. TextOf(blocks, q) = [n \in 1 .. q * BlockSize |-> f[n - 1]]
          <5>1. TextOf(blocks, q) = FirstOf(f, q)
            BY <2>6, Spelled, Zenon
          <5> QED
            BY <5>1, Zenon DEF FirstOf
        <4> QED
          BY <4>1, Zenon DEF Got
    <2>8. \A n \in 1 .. q * BlockSize : f[n - 1] = Byte(n - 1)
      <3> PICK w \in Nat : w = q * b
        OBVIOUS
      <3>1. \A n \in 1 .. w : n - 1 \in Nat
        OBVIOUS
      <3> QED
        BY <3>1, Zenon
    <2> HIDE DEF f
    <2>9. Got = [n \in 1 .. length - t |-> Byte(n - 1)]
      BY <2>5, <2>7, <2>8, Zenon
    <2>10. \A n \in 0 .. t - 1 : in[n] = Byte(length - t + n)
      BY <2>2, <2>5, Zenon
    <2> QED
      BY <1>2, <2>4, <2>9, <2>10, Zenon DEF BlocksAreMessage, Got, TextOf
  <1> QED
    BY <1>1, <1>2

LEMMA InvMd5Typed == Md5Inv => Md5TypeOK
  BY DEF Md5Inv, Md5Typed, Md5TypeOK, BlockValues, BlockIndex

(* md5.cpp: for every size of a block, of its counts and of the word that  *)
(* counts bits, and however the message comes in pieces, Transform gets    *)
(* the padded message block by block.                                      *)
THEOREM BlocksMakeTheMessage == Md5Spec => []BlocksAreMessage
  <1>1. Md5Spec => []Md5Inv
    BY Md5Begin, Md5Always, PTL DEF Md5Spec
  <1> QED
    BY <1>1, InvIsMessage, PTL

-----------------------------------------------------------------------------
(* Scheduler                                                               *)

SchedStates == [task : [Idx -> Idx], burst : [Idx -> 0 .. MaxBurst], prio : [Idx -> 0 .. MaxPriority]]

(* No task is at two indices.                                              *)
Distinct(tk) == \A i, j \in Idx : tk[i] = tk[j] => i = j

(* s has each task's burst and priority of p with it.                      *)
AsPlanned(s, p) ==
    /\ s \in SchedStates /\ Distinct(s.task)
    /\ \A i \in Idx : s.burst[i] = p.burst[s.task[i]] /\ s.prio[i] = p.prio[s.task[i]]

(* The first k priorities are in order and none behind them is less.       *)
Ordered(prio, k) == \A i, j \in Idx : i < k /\ i < j => prio[i] <= prio[j]

LEMMA SchedFacts ==
    /\ Tasks \in Nat /\ MaxBurst \in Nat /\ MaxPriority \in Nat
    /\ \A i \in Idx : i \in Nat /\ i < Tasks /\ i \in i .. Tasks - 1 /\ i .. Tasks - 1 \subseteq Idx
    /\ \A i : i \in Idx <=> i \in 0 .. Tasks - 1
    /\ NoTask \notin Idx
  BY SchedulerAssumption DEF SchedulerAssumption, Idx, NoTask

LEMMA PosOfIs ==
    ASSUME NEW prio \in [Idx -> 0 .. MaxPriority], NEW i \in Idx
    PROVE  /\ PosOf(prio, i) \in i .. Tasks - 1 /\ PosOf(prio, i) \in Idx
           /\ \A o \in i .. Tasks - 1 : prio[PosOf(prio, i)] <= prio[o]
  <1> DEFINE R == i .. Tasks - 1
             V == {prio[o] : o \in R}
  <1>1. R \subseteq Idx /\ i \in R /\ \A o \in R : prio[o] \in Nat /\ o \in Nat /\ o <= Tasks
    BY SchedFacts
  <1>2. V \in SUBSET Nat /\ V # {}
    BY <1>1
  <1>3. PICK v \in V : \A y \in V : v <= y
    BY <1>2, Least
  <1> DEFINE P == {o \in R : prio[o] = v}
  <1>4. P \in SUBSET Nat /\ P # {} /\ \A x \in P : x <= Tasks
    BY <1>1, <1>3
  <1>5. PICK pos \in P : \A y \in P : pos >= y
    BY <1>4, SchedFacts, Greatest
  <1>6. \A o \in R : prio[pos] < prio[o] \/ (prio[pos] = prio[o] /\ o <= pos)
    <2> SUFFICES ASSUME NEW o \in R PROVE prio[pos] < prio[o] \/ (prio[pos] = prio[o] /\ o <= pos)
      OBVIOUS
    <2>1. prio[pos] = v /\ v <= prio[o] /\ prio[o] \in Nat /\ v \in Nat
      BY <1>1, <1>3, <1>5
    <2>2. prio[o] = v => o <= pos
      BY <1>1, <1>5
    <2> QED
      BY <2>1, <2>2
  <1>7. pos \in R
    BY <1>5
  <1> DEFINE Chosen(x) == \A o \in R : prio[x] < prio[o] \/ (prio[x] = prio[o] /\ o <= x)
  <1>8. PosOf(prio, i) = CHOOSE x \in R : Chosen(x)
    BY DEF PosOf
  <1>9. \E x \in R : Chosen(x)
    BY <1>6, <1>7
  <1> HIDE DEF Chosen
  <1>10. PosOf(prio, i) \in R /\ Chosen(PosOf(prio, i))
    BY <1>8, <1>9
  <1> QED
    <2>1. ASSUME NEW o \in R PROVE prio[PosOf(prio, i)] <= prio[o]
      BY <1>1, <1>10 DEF Chosen
    <2> QED
      BY <1>1, <1>10, <2>1

LEMMA SelectedTyped ==
    ASSUME NEW s \in SchedStates, NEW i \in Idx
    PROVE  Selected(s, i) \in SchedStates
  <1>1. PosOf(s.prio, i) \in Idx
    BY PosOfIs DEF SchedStates
  <1> QED
    BY <1>1 DEF Selected, Swap, SchedStates

(* One more is in its place.                                               *)
LEMMA SelectedIs ==
    ASSUME NEW s, NEW p, AsPlanned(s, p), NEW i \in Idx, Ordered(s.prio, i)
    PROVE  AsPlanned(Selected(s, i), p) /\ Ordered(Selected(s, i).prio, i + 1)
  <1> DEFINE pos == PosOf(s.prio, i)
             t == Selected(s, i)
  <1>1. s \in SchedStates /\ Distinct(s.task)
    BY DEF AsPlanned
  <1>2. /\ pos \in i .. Tasks - 1 /\ pos \in Idx
        /\ \A o \in i .. Tasks - 1 : s.prio[pos] <= s.prio[o]
    BY <1>1, PosOfIs DEF SchedStates
  <1>3. /\ t.task = [s.task EXCEPT ![i] = s.task[pos], ![pos] = s.task[i]]
        /\ t.burst = [s.burst EXCEPT ![i] = s.burst[pos], ![pos] = s.burst[i]]
        /\ t.prio = [s.prio EXCEPT ![i] = s.prio[pos], ![pos] = s.prio[i]]
    BY DEF Selected, Swap
  <1>4. t \in SchedStates
    BY <1>1, SelectedTyped
  <1> HIDE DEF t, pos
  <1>5. s.task \in [Idx -> Idx] /\ s.burst \in [Idx -> 0 .. MaxBurst] /\ s.prio \in [Idx -> 0 .. MaxPriority]
    BY <1>1 DEF SchedStates
  <1> DEFINE from(j) == IF j = i THEN pos ELSE IF j = pos THEN i ELSE j
  <1>6. \A j \in Idx : /\ from(j) \in Idx /\ t.task[j] = s.task[from(j)]
                       /\ t.burst[j] = s.burst[from(j)] /\ t.prio[j] = s.prio[from(j)]
    <2>1. \A j \in Idx : t.task[j] = s.task[from(j)]
      BY <1>2, <1>3, <1>5
    <2>2. \A j \in Idx : t.burst[j] = s.burst[from(j)]
      BY <1>2, <1>3, <1>5
    <2>3. \A j \in Idx : t.prio[j] = s.prio[from(j)]
      BY <1>2, <1>3, <1>5
    <2> QED
      BY <1>2, <2>1, <2>2, <2>3
  <1>7. \A j, k \in Idx : from(j) = from(k) => j = k
    BY <1>2
  <1>8. AsPlanned(t, p)
    <2>1. Distinct(t.task)
      <3> HIDE DEF from
      <3> QED
        BY <1>1, <1>6, <1>7 DEF Distinct
    <2>2. \A j \in Idx : t.burst[j] = p.burst[t.task[j]] /\ t.prio[j] = p.prio[t.task[j]]
      <3> HIDE DEF from
      <3> QED
        BY <1>6 DEF AsPlanned
    <2> QED
      BY <1>4, <2>1, <2>2 DEF AsPlanned
  <1>9. Ordered(t.prio, i + 1)
    <2> SUFFICES ASSUME NEW j \in Idx, NEW k \in Idx, j < i + 1, j < k
                 PROVE  t.prio[j] <= t.prio[k]
      BY DEF Ordered
    <2>1. i \in Nat /\ j \in Nat /\ k \in Nat /\ pos \in Nat /\ i <= pos /\ k < Tasks /\ Tasks \in Nat
      BY <1>2, SchedFacts
    <2>2. t.prio[j] = s.prio[from(j)] /\ t.prio[k] = s.prio[from(k)] /\ from(j) \in Idx /\ from(k) \in Idx
      BY <1>6
    <2>3. CASE j < i
      <3>1. from(j) = j /\ j < from(k)
        BY <2>1, <2>3
      <3> HIDE DEF from
      <3> QED
        BY <2>2, <2>3, <3>1 DEF Ordered
    <2>4. CASE j = i
      <3>1. from(j) = pos /\ from(k) \in i .. Tasks - 1
        BY <2>1, <2>4, <1>2
      <3> HIDE DEF from
      <3> QED
        BY <1>2, <2>2, <3>1
    <2> QED
      BY <2>1, <2>3, <2>4
  <1> QED
    BY <1>8, <1>9 DEF t

(* What is left after all of them.                                         *)
SortedTo(s, t, p) == AsPlanned(t, p) /\ Ordered(t.prio, Tasks)

LEMMA SortIs ==
    ASSUME NEW s, NEW p, AsPlanned(s, p)
    PROVE  SortedTo(s, FoldLeft(Selected, s, [n \in 1 .. Tasks |-> n - 1]), p)
  <1> DEFINE E == [n \in 1 .. Tasks |-> n - 1]
             iter[u \in SUBSET (DOMAIN E)] ==
                 IF u = {} THEN s ELSE Selected(iter[u \ {Max(u)}], E[Max(u)])
             step == [k \in 1 .. Tasks |-> [x \in SchedStates |-> Selected(x, k - 1)]]
  <1>1. FoldLeft(Selected, s, E) = iter[DOMAIN E]
    BY DEF FoldLeft, MapThenFoldSet
  <1>2. DOMAIN E = 1 .. Tasks /\ Tasks \in Nat /\ \A k \in 1 .. Tasks : E[k] = k - 1 /\ k - 1 \in Idx
    BY SchedFacts
  <1>3. s \in SchedStates
    BY DEF AsPlanned
  <1> HIDE DEF E
  <1>4. \A x \in SchedStates, k \in 1 .. Tasks : Selected(x, k - 1) \in SchedStates
    BY <1>2, SelectedTyped
  <1>5. step \in [1 .. Tasks -> [SchedStates -> SchedStates]]
    BY <1>4
  <1>6. \A k \in 1 .. Tasks : \A x \in SchedStates : step[k][x] = Selected(x, E[k])
    BY <1>2
  <1> HIDE DEF step
  <1>7. HasFold(SchedStates, s, step, Tasks)
    BY <1>2, <1>3, <1>5, FoldsExist
  <1>8. PICK h \in [SUBSET (1 .. Tasks) -> SchedStates] : FoldsLeft(h, s, step, Tasks)
    BY <1>7 DEF HasFold
  <1>9. \A u \in SUBSET (1 .. Tasks) : u # {} => Max(u) \in 1 .. Tasks
    BY <1>2, MaxIs
  <1>10. \A u \in SUBSET (1 .. Tasks) :
            h[u] = IF u = {} THEN s ELSE Selected(h[u \ {Max(u)}], E[Max(u)])
    <2> SUFFICES ASSUME NEW u \in SUBSET (1 .. Tasks)
                 PROVE  h[u] = IF u = {} THEN s ELSE Selected(h[u \ {Max(u)}], E[Max(u)])
      OBVIOUS
    <2>1. h[u] = IF u = {} THEN s ELSE step[Max(u)][h[u \ {Max(u)}]]
      BY <1>8 DEF FoldsLeft
    <2>2. u # {} => Max(u) \in 1 .. Tasks /\ h[u \ {Max(u)}] \in SchedStates
      BY <1>8, <1>9
    <2> QED
      BY <2>1, <2>2, <1>6
  <1>11. h = [u \in SUBSET (DOMAIN E) |->
                IF u = {} THEN s ELSE Selected(h[u \ {Max(u)}], E[Max(u)])]
    BY <1>2, <1>8, <1>10
  <1>12. iter = [u \in SUBSET (DOMAIN E) |->
                IF u = {} THEN s ELSE Selected(iter[u \ {Max(u)}], E[Max(u)])]
    BY <1>11
  <1>13. \A u \in SUBSET (1 .. Tasks) :
            iter[u] = IF u = {} THEN s ELSE Selected(iter[u \ {Max(u)}], E[Max(u)])
    BY <1>12, <1>2
  <1> HIDE DEF iter
  <1>14. iter[{}] = s /\ 1 .. 0 = {}
    <2>1. {} \in SUBSET (1 .. Tasks) /\ 1 .. 0 = {}
      OBVIOUS
    <2> QED
      BY <2>1, <1>13
  <1>15. ASSUME NEW k \in 1 .. Tasks PROVE iter[1 .. k] = Selected(iter[1 .. k - 1], k - 1)
    <2>1. k \in Nat \ {0} /\ 1 .. k \in SUBSET (1 .. Tasks) /\ 1 .. k # {}
      <3>1. k \in Nat \ {0} /\ k \in 1 .. k /\ \A j \in 1 .. k : j \in 1 .. Tasks
        BY <1>2
      <3> QED
        BY <3>1
    <2>2. Max(1 .. k) = k /\ (1 .. k) \ {k} = 1 .. k - 1
      BY <2>1, MaxOfFirst
    <2> QED
      BY <2>1, <2>2, <1>2, <1>13
  <1> DEFINE T == {k \in Nat : k <= Tasks => AsPlanned(iter[1 .. k], p) /\ Ordered(iter[1 .. k].prio, k)}
  <1>16. 0 \in T
    <2>1. Ordered(s.prio, 0)
      BY SchedFacts DEF Ordered
    <2> QED
      BY <1>14, <2>1
  <1>17. ASSUME NEW k \in Nat, k \in T PROVE k + 1 \in T
    <2> SUFFICES ASSUME k + 1 <= Tasks
                 PROVE  AsPlanned(iter[1 .. k + 1], p) /\ Ordered(iter[1 .. k + 1].prio, k + 1)
      OBVIOUS
    <2>1. k + 1 \in 1 .. Tasks /\ k <= Tasks /\ (k + 1) - 1 = k /\ k \in Idx
      BY <1>2, SchedFacts
    <2>2. AsPlanned(iter[1 .. k], p) /\ Ordered(iter[1 .. k].prio, k)
      BY <2>1, <1>17
    <2>3. iter[1 .. k + 1] = Selected(iter[1 .. k], k)
      BY <2>1, <1>15
    <2> HIDE DEF T
    <2> QED
      BY <2>1, <2>2, <2>3, SelectedIs
  <1>18. Tasks \in T
    <2> HIDE DEF T
    <2>1. \A k \in Nat : k \in T
      BY <1>16, <1>17, Inductive
    <2> QED
      BY <2>1, <1>2
  <1> QED
    <2>1. AsPlanned(iter[1 .. Tasks], p) /\ Ordered(iter[1 .. Tasks].prio, Tasks)
      BY <1>2, <1>18
    <2> QED
      BY <1>1, <1>2, <2>1 DEF SortedTo, E

-----------------------------------------------------------------------------
(* Sums from one index to another                                          *)

SumFrom(f, a, k) == SumFunction([j \in a .. k - 1 |-> f[j]])

LEMMA SumsFrom ==
    ASSUME NEW f, NEW a \in Nat, NEW k \in Nat, a <= k, \A j \in a .. k : f[j] \in Nat
    PROVE  /\ SumFrom(f, a, k) \in Nat
           /\ SumFrom(f, a, k + 1) = SumFrom(f, a, k) + f[k]
  <1> DEFINE S == a .. k - 1
             e == [j \in a .. k - 1 |-> f[j]]
             g == [j \in a .. (k + 1) - 1 |-> f[j]]
  <1>1. IsFiniteSet(S)
    BY FS_Interval
  <1>2. (k + 1) - 1 = k /\ a .. k = S \union {k} /\ k \notin S /\ k \in a .. k
    OBVIOUS
  <1>3. DOMAIN g = S \union {k} /\ DOMAIN e = S
    BY <1>2
  <1>4. g[k] = f[k] /\ f[k] \in Nat /\ \A y \in S : e[y] = f[y] /\ g[y] = f[y] /\ f[y] \in Nat
    BY <1>2
  <1> HIDE DEF S, e, g
  <1>5. Prolongs(g, e, S, k)
    BY <1>2, <1>3, <1>4 DEF Prolongs
  <1>6. SumFunction(e) \in Nat /\ SumFunction(g) = g[k] + SumFunction(e)
    BY <1>1, <1>5, SumMore
  <1> QED
    BY <1>4, <1>6 DEF SumFrom, e, g

LEMMA SumFromNone == ASSUME NEW f, NEW a \in Nat PROVE SumFrom(f, a, a) = 0
  <1> DEFINE e == [j \in a .. a - 1 |-> f[j]]
  <1>1. DOMAIN e = {}
    OBVIOUS
  <1> HIDE DEF e
  <1>2. SumFunction(e) = 0
    BY <1>1, SumNone
  <1> QED
    BY <1>2 DEF SumFrom, e

LEMMA SumFromNat ==
    ASSUME NEW f, NEW a \in Nat, NEW k \in Nat, a <= k, \A j \in a .. k - 1 : f[j] \in Nat
    PROVE  SumFrom(f, a, k) \in Nat
  <1>1. CASE k = a
    BY <1>1, SumFromNone
  <1>2. CASE k # a
    <2>1. k - 1 \in Nat /\ a <= k - 1 /\ (k - 1) + 1 = k
      BY <1>2
    <2>2. SumFrom(f, a, k - 1) \in Nat /\ SumFrom(f, a, k) = SumFrom(f, a, k - 1) + f[k - 1]
      BY <2>1, SumsFrom
    <2>3. f[k - 1] \in Nat
      BY <2>1
    <2> QED
      BY <2>2, <2>3
  <1> QED
    BY <1>1, <1>2

(* The sum of nothing but zeros.                                           *)
LEMMA SumFromZeros ==
    ASSUME NEW f, NEW n \in Nat, \A j \in 0 .. n - 1 : f[j] = 0
    PROVE  SumFrom(f, 0, n) = 0
  <1> DEFINE T == {k \in Nat : k <= n => SumFrom(f, 0, k) = 0}
  <1>1. 0 \in T
    BY SumFromNone
  <1>2. ASSUME NEW k \in Nat, k \in T PROVE k + 1 \in T
    <2> SUFFICES ASSUME k + 1 <= n PROVE SumFrom(f, 0, k + 1) = 0
      OBVIOUS
    <2>1. SumFrom(f, 0, k) = 0 /\ f[k] = 0 /\ \A j \in 0 .. k : f[j] \in Nat
      BY <1>2
    <2>2. SumFrom(f, 0, k + 1) = SumFrom(f, 0, k) + f[k]
      BY <2>1, SumsFrom
    <2> QED
      BY <2>1, <2>2
  <1> HIDE DEF T
  <1>3. n \in T
    BY <1>1, <1>2, Inductive
  <1> QED
    BY <1>3 DEF T

(* v is u with b added from c on up to stop, and a rest of time at stop.   *)
Charges(u, v, b, c, stop, time) ==
    /\ u \in [Idx -> Nat] /\ v \in [Idx -> Nat] /\ b \in [Idx -> Nat]
    /\ c \in 0 .. stop /\ stop \in 0 .. Tasks /\ time \in Nat
    /\ \A i \in Idx :
           v[i] = IF i \in c .. stop - 1 THEN u[i] + b[i]
                  ELSE IF i = stop THEN u[i] + (time - SumFrom(b, c, i))
                  ELSE u[i]

LEMMA ChargesAdd ==
    ASSUME NEW u, NEW v, NEW b, NEW c, NEW stop, NEW time, Charges(u, v, b, c, stop, time)
    PROVE  /\ SumFrom(u, 0, Tasks) \in Nat /\ SumFrom(b, c, stop) \in Nat
           /\ SumFrom(v, 0, Tasks) =
                 SumFrom(u, 0, Tasks) + IF stop = Tasks THEN SumFrom(b, c, Tasks) ELSE time
  <1>1. /\ \A i \in Idx : u[i] \in Nat /\ v[i] \in Nat /\ b[i] \in Nat
        /\ c \in Nat /\ stop \in Nat /\ c <= stop /\ stop <= Tasks /\ time \in Nat
        /\ \A i \in Idx :
               v[i] = IF i \in c .. stop - 1 THEN u[i] + b[i]
                      ELSE IF i = stop THEN u[i] + (time - SumFrom(b, c, i))
                      ELSE u[i]
    BY SchedFacts DEF Charges
  <1>2. Tasks \in Nat /\ \A i : i \in Idx <=> i \in 0 .. Tasks - 1
    BY SchedFacts
  <1>3. \A k \in c .. Tasks : SumFrom(b, c, k) \in Nat
    <2> SUFFICES ASSUME NEW k \in c .. Tasks PROVE SumFrom(b, c, k) \in Nat
      OBVIOUS
    <2>1. k \in Nat /\ c <= k /\ \A j \in c .. k - 1 : b[j] \in Nat
      BY <1>1, <1>2
    <2> QED
      BY <1>1, <2>1, SumFromNat
  <1> DEFINE More(k) == IF k <= c THEN 0 ELSE IF k <= stop THEN SumFrom(b, c, k) ELSE time
             T == {k \in Nat : k <= Tasks =>
                      /\ SumFrom(u, 0, k) \in Nat
                      /\ SumFrom(v, 0, k) = SumFrom(u, 0, k) + More(k)}
  <1>4. 0 \in T
    <2>1. SumFrom(u, 0, 0) = 0 /\ SumFrom(v, 0, 0) = 0 /\ More(0) = 0
      BY <1>1, SumFromNone
    <2> QED
      BY <2>1
  <1>5. ASSUME NEW k \in Nat, k \in T PROVE k + 1 \in T
    <2> SUFFICES ASSUME k + 1 <= Tasks
                 PROVE  /\ SumFrom(u, 0, k + 1) \in Nat
                        /\ SumFrom(v, 0, k + 1) = SumFrom(u, 0, k + 1) + More(k + 1)
      OBVIOUS
    <2>1. SumFrom(u, 0, k) \in Nat /\ SumFrom(v, 0, k) = SumFrom(u, 0, k) + More(k)
      BY <1>2, <1>5
    <2>2. \A j \in 0 .. k : u[j] \in Nat /\ v[j] \in Nat
      BY <1>1, <1>2
    <2>3. SumFrom(u, 0, k + 1) = SumFrom(u, 0, k) + u[k] /\ SumFrom(v, 0, k + 1) = SumFrom(v, 0, k) + v[k]
      BY <2>2, SumsFrom
    <2>4. k \in Idx /\ u[k] \in Nat
      BY <1>1, <1>2
    <2>5. v[k] = IF k \in c .. stop - 1 THEN u[k] + b[k]
                 ELSE IF k = stop THEN u[k] + (time - SumFrom(b, c, k))
                 ELSE u[k]
      BY <1>1, <2>4
    <2>6. SumFrom(b, c, c) = 0
      BY <1>1, SumFromNone
    <2>7. CASE k < c
      <3>1. v[k] = u[k] /\ More(k) = 0 /\ More(k + 1) = 0
        BY <1>1, <2>5, <2>7
      <3> HIDE DEF More
      <3> QED
        BY <2>1, <2>3, <2>4, <3>1
    <2>8. CASE c <= k /\ k < stop
      <3>1. SumFrom(b, c, k + 1) = SumFrom(b, c, k) + b[k]
        <4>1. \A j \in c .. k : b[j] \in Nat
          BY <1>1, <1>2
        <4> QED
          BY <1>1, <2>8, <4>1, SumsFrom
      <3>2. v[k] = u[k] + b[k] /\ b[k] \in Nat
        BY <1>1, <2>4, <2>5, <2>8
      <3>3. More(k + 1) = SumFrom(b, c, k + 1)
        BY <1>1, <2>8
      <3>4. More(k) = SumFrom(b, c, k)
        BY <1>1, <2>6, <2>8
      <3>5. SumFrom(b, c, k) \in Nat
        BY <1>2, <1>3, <2>8
      <3> HIDE DEF More
      <3> QED
        BY <2>1, <2>3, <2>4, <3>1, <3>2, <3>3, <3>4, <3>5
    <2>9. CASE k = stop
      <3>1. v[k] = u[k] + (time - SumFrom(b, c, k))
        BY <1>1, <2>5, <2>9
      <3>2. More(k + 1) = time
        BY <1>1, <2>9
      <3>3. More(k) = SumFrom(b, c, k)
        BY <1>1, <2>6, <2>9
      <3>4. SumFrom(b, c, k) \in Nat
        BY <1>1, <1>2, <1>3, <2>9
      <3> HIDE DEF More
      <3> QED
        BY <1>1, <2>1, <2>3, <2>4, <3>1, <3>2, <3>3, <3>4
    <2>10. CASE k > stop
      <3>1. v[k] = u[k] /\ More(k) = time /\ More(k + 1) = time
        BY <1>1, <2>5, <2>10
      <3> HIDE DEF More
      <3> QED
        BY <1>1, <2>1, <2>3, <2>4, <3>1
    <2> QED
      BY <1>1, <2>7, <2>8, <2>9, <2>10
  <1>6. Tasks \in T
    <2> HIDE DEF T
    <2>1. \A k \in Nat : k \in T
      BY <1>4, <1>5, Inductive
    <2> QED
      BY <1>2, <2>1
  <1>7. More(Tasks) = IF stop = Tasks THEN SumFrom(b, c, Tasks) ELSE time
    <2>1. SumFrom(b, c, c) = 0
      BY <1>1, SumFromNone
    <2> QED
      BY <1>1, <1>2, <2>1
  <1>8. SumFrom(b, c, stop) \in Nat
    BY <1>1, <1>3
  <1> QED
    BY <1>2, <1>6, <1>7, <1>8

(* Where a Run stops.                                                      *)
Stops(b, c, time, stop) ==
    /\ stop \in c .. Tasks
    /\ stop # Tasks => b[stop] >= time - SumFrom(b, c, stop)
    /\ \A i \in c .. stop : SumFrom(b, c, i) \in Nat /\ SumFrom(b, c, i) <= time

LEMMA StopIs ==
    ASSUME NEW b \in [Idx -> Nat], NEW c \in 0 .. Tasks, NEW time \in Nat
    PROVE  Stops(b, c, time, Min({i \in c .. Tasks - 1 : b[i] >= time - SumFrom(b, c, i)} \union {Tasks}))
  <1> DEFINE enough == {i \in c .. Tasks - 1 : b[i] >= time - SumFrom(b, c, i)} \union {Tasks}
             stop == Min(enough)
  <1>1. c \in Nat /\ Tasks \in Nat /\ c <= Tasks /\ \A i : i \in Idx <=> i \in 0 .. Tasks - 1
    BY SchedFacts
  <1>2. enough \in SUBSET Nat /\ enough # {} /\ \A i \in enough : i \in c .. Tasks
    BY <1>1
  <1>3. stop \in enough /\ \A i \in enough : stop <= i
    <2>1. \E x \in enough : \A y \in enough : x <= y
      <3> HIDE DEF enough
      <3> QED
        BY <1>2, Least
    <2> HIDE DEF enough
    <2> QED
      BY <2>1 DEF Min
  <1>4. \A i \in c .. Tasks - 1 : i < stop => b[i] < time - SumFrom(b, c, i)
    <2> SUFFICES ASSUME NEW i \in c .. Tasks - 1, i < stop PROVE b[i] < time - SumFrom(b, c, i)
      OBVIOUS
    <2>1. i \notin enough
      <3> HIDE DEF enough, stop
      <3>1. ASSUME i \in enough PROVE FALSE
        <4>1. stop <= i
          BY <3>1, <1>3
        <4>2. stop \in Nat /\ i \in Nat
          BY <1>1, <1>2, <1>3
        <4> QED
          BY <4>1, <4>2
      <3> QED
        BY <3>1
    <2>2. b[i] \in Nat
      BY <1>1
    <2>3. SumFrom(b, c, i) \in Nat
      <3>1. i \in Nat /\ c <= i /\ \A j \in c .. i - 1 : b[j] \in Nat
        BY <1>1
      <3> QED
        BY <1>1, <3>1, SumFromNat
    <2> QED
      BY <2>1, <2>2, <2>3
  <1>5. stop \in c .. Tasks
    BY <1>2, <1>3
  <1>6. stop # Tasks => b[stop] >= time - SumFrom(b, c, stop)
    BY <1>3
  <1> HIDE DEF enough, stop
  <1> DEFINE T == {k \in Nat : c + k <= stop =>
                      SumFrom(b, c, c + k) \in Nat /\ SumFrom(b, c, c + k) <= time}
  <1>7. 0 \in T
    <2>1. c + 0 = c /\ SumFrom(b, c, c) = 0
      BY <1>1, SumFromNone
    <2> QED
      BY <2>1
  <1>8. ASSUME NEW k \in Nat, k \in T PROVE k + 1 \in T
    <2> SUFFICES ASSUME c + (k + 1) <= stop
                 PROVE  SumFrom(b, c, c + (k + 1)) \in Nat /\ SumFrom(b, c, c + (k + 1)) <= time
      OBVIOUS
    <2>1. /\ c + k \in Nat /\ c <= c + k /\ c + (k + 1) = (c + k) + 1
          /\ c + k \in c .. Tasks - 1 /\ c + k < stop /\ c + k <= stop
          /\ \A j \in c .. c + k : b[j] \in Nat
      BY <1>1, <1>5
    <2>2. SumFrom(b, c, c + k) \in Nat
      BY <1>8, <2>1
    <2>3. SumFrom(b, c, (c + k) + 1) = SumFrom(b, c, c + k) + b[c + k]
      BY <1>1, <2>1, SumsFrom
    <2>4. b[c + k] < time - SumFrom(b, c, c + k) /\ b[c + k] \in Nat
      BY <1>4, <2>1
    <2> QED
      BY <2>1, <2>2, <2>3, <2>4
  <1>9. ASSUME NEW i \in c .. stop PROVE SumFrom(b, c, i) \in Nat /\ SumFrom(b, c, i) <= time
    <2>1. i - c \in Nat /\ c + (i - c) = i /\ c + (i - c) <= stop
      BY <1>1, <1>5
    <2>2. i - c \in T
      <3> HIDE DEF T
      <3>1. \A k \in Nat : k \in T
        BY <1>7, <1>8, Inductive
      <3> QED
        BY <2>1, <3>1
    <2> QED
      BY <2>1, <2>2
  <1>10. Stops(b, c, time, stop)
    BY <1>5, <1>6, <1>9 DEF Stops
  <1> QED
    BY <1>10 DEF stop, enough

-----------------------------------------------------------------------------
(* What every Sort and Run keeps.                                          *)

Used(tk, b, p) == [i \in Idx |-> p.burst[tk[i]] - b[i]]

(* The tasks, their bursts and priorities, by index.                       *)
PlanKept(tk, b, prio, c, p) ==
    /\ tk \in [Idx -> Idx] /\ Distinct(tk)
    /\ b \in [Idx -> 0 .. MaxBurst] /\ prio \in [Idx -> 0 .. MaxPriority] /\ Ordered(prio, Tasks)
    /\ c \in 0 .. Tasks
    /\ \A i \in Idx : /\ prio[i] = p.prio[tk[i]]
                      /\ p.burst[tk[i]] \in Nat /\ b[i] <= p.burst[tk[i]]
                      /\ i >= c => b[i] = p.burst[tk[i]]

Spent(u, gv, rn) ==
    /\ gv \in Seq(Nat) /\ SumFunction(gv) \in Nat
    /\ SumFrom(u, 0, Tasks) <= SumFunction(gv)
    /\ (\A r \in 1 .. Len(rn) : rn[r] # NoTask) => SumFrom(u, 0, Tasks) = SumFunction(gv)

(* halt[r] is the index where the r-th Run stopped.                        *)
Passed(halt, tk, b, c, rn) ==
    /\ halt \in [1 .. Len(rn) -> 0 .. Tasks]
    /\ \A r \in 1 .. Len(rn) :
           /\ rn[r] = IF halt[r] = Tasks THEN NoTask ELSE tk[halt[r]]
           /\ IF halt[r] = Tasks THEN c = Tasks ELSE halt[r] < c
           /\ \A q \in 1 .. Len(rn) : r < q => halt[q] = Tasks \/ halt[r] < halt[q]
    /\ \A i \in 0 .. c - 1 : b[i] = 0 \/ \E r \in 1 .. Len(rn) : halt[r] = i

SchedSound ==
    /\ PlanKept(task, burstTime, priority, cid, plan)
    /\ Spent(Used(task, burstTime, plan), given, ran)
    /\ ran \in Seq(Idx \union {NoTask})
    /\ \E halt : Passed(halt, task, burstTime, cid, ran)

(* Nothing is used and nothing was given.                                  *)
LEMMA SpentNothing ==
    ASSUME NEW u, \A i \in Idx : u[i] = 0
    PROVE  Spent(u, <<>>, <<>>)
  <1>1. Tasks \in Nat /\ \A j \in 0 .. Tasks - 1 : u[j] = 0
    BY SchedFacts
  <1>2. SumFrom(u, 0, Tasks) = 0
    BY <1>1, SumFromZeros
  <1>3. DOMAIN <<>> = {}
    OBVIOUS
  <1>4. SumFunction(<<>>) = 0
    BY <1>3, SumNone
  <1>5. <<>> \in Seq(Nat)
    OBVIOUS
  <1> QED
    BY <1>2, <1>4, <1>5 DEF Spent

LEMMA PassedNothing == ASSUME NEW tk, NEW b PROVE \E halt : Passed(halt, tk, b, 0, <<>>)
  <1>1. <<>> \in [1 .. Len(<<>>) -> 0 .. Tasks]
    OBVIOUS
  <1>2. Passed(<<>>, tk, b, 0, <<>>)
    BY <1>1 DEF Passed
  <1> QED
    BY <1>2

LEMMA SchedInitSound == SchedInit => SchedSound
  <1> SUFFICES ASSUME SchedInit PROVE SchedSound
    OBVIOUS
  <1>1. /\ task = [i \in Idx |-> i] /\ burstTime = [i \in Idx |-> 0] /\ priority = [i \in Idx |-> 0]
        /\ cid = 0 /\ plan = [burst |-> [i \in Idx |-> 0], prio |-> [i \in Idx |-> 0]]
        /\ given = <<>> /\ ran = <<>>
    BY DEF SchedInit, Zeros
  <1>2. PlanKept(task, burstTime, priority, cid, plan)
    BY <1>1, SchedFacts DEF PlanKept, Distinct, Ordered
  <1>3. \A i \in Idx : Used(task, burstTime, plan)[i] = 0
    BY <1>1 DEF Used
  <1>4. Spent(Used(task, burstTime, plan), given, ran)
    BY <1>1, <1>3, SpentNothing
  <1>5. \E halt : Passed(halt, task, burstTime, cid, ran)
    BY <1>1, PassedNothing
  <1>6. ran \in Seq(Idx \union {NoTask})
    BY <1>1
  <1> QED
    BY <1>2, <1>4, <1>5, <1>6 DEF SchedSound

LEMMA SortSound ==
    ASSUME SchedSound, NEW halt \in Idx, NEW burst \in 0 .. MaxBurst, NEW prio \in 0 .. MaxPriority,
           Sort(halt, burst, prio)
    PROVE  SchedSound'
  <1> DEFINE filled == [task |-> task, burst |-> [burstTime EXCEPT ![halt] = burst],
                        prio |-> [priority EXCEPT ![halt] = prio]]
             where(t) == CHOOSE i \in Idx : task[i] = t
             asked == [burst |-> [t \in Idx |-> filled.burst[where(t)]],
                      prio |-> [t \in Idx |-> filled.prio[where(t)]]]
             sorted == FoldLeft(Selected, filled, [n \in 1 .. Tasks |-> n - 1])
  <1>1. /\ task' = sorted.task /\ burstTime' = sorted.burst /\ priority' = sorted.prio
        /\ cid' = 0 /\ plan' = asked /\ given' = <<>> /\ ran' = <<>>
    BY DEF Sort
  <1>2. /\ task \in [Idx -> Idx] /\ Distinct(task)
        /\ burstTime \in [Idx -> 0 .. MaxBurst] /\ priority \in [Idx -> 0 .. MaxPriority]
    BY DEF SchedSound, PlanKept
  <1>3. filled \in SchedStates
    BY <1>2 DEF SchedStates
  <1>4. \A i \in Idx : where(task[i]) = i /\ task[i] \in Idx
    BY <1>2 DEF Distinct
  <1> HIDE DEF where
  <1>5. filled.task = task
    OBVIOUS
  <1>6. \A i \in Idx : /\ filled.burst[i] = asked.burst[filled.task[i]]
                       /\ filled.prio[i] = asked.prio[filled.task[i]]
    <2> SUFFICES ASSUME NEW i \in Idx
                 PROVE  /\ filled.burst[i] = asked.burst[filled.task[i]]
                        /\ filled.prio[i] = asked.prio[filled.task[i]]
      OBVIOUS
    <2>1. asked.burst[task[i]] = filled.burst[where(task[i])] /\ asked.prio[task[i]] = filled.prio[where(task[i])]
      <3> HIDE DEF filled
      <3> QED
        BY <1>4
    <2> HIDE DEF filled, asked
    <2> QED
      BY <1>4, <1>5, <2>1
  <1>7. AsPlanned(filled, asked)
    <2> HIDE DEF filled, asked
    <2> QED
      BY <1>2, <1>3, <1>5, <1>6 DEF AsPlanned
  <1> HIDE DEF filled, asked
  <1>8. SortedTo(filled, sorted, asked)
    BY <1>7, SortIs
  <1> HIDE DEF sorted
  <1>9. /\ sorted \in SchedStates /\ Distinct(sorted.task) /\ Ordered(sorted.prio, Tasks)
        /\ \A i \in Idx : sorted.burst[i] = asked.burst[sorted.task[i]]
                          /\ sorted.prio[i] = asked.prio[sorted.task[i]]
    BY <1>8 DEF SortedTo, AsPlanned
  <1>10. PlanKept(sorted.task, sorted.burst, sorted.prio, 0, asked)
    BY <1>9, SchedFacts DEF PlanKept, SchedStates
  <1>11. \A i \in Idx : Used(sorted.task, sorted.burst, asked)[i] = 0
    <2>1. sorted.burst \in [Idx -> 0 .. MaxBurst]
      BY <1>9 DEF SchedStates
    <2>2. ASSUME NEW i \in Idx PROVE Used(sorted.task, sorted.burst, asked)[i] = 0
      <3>1. sorted.burst[i] \in Nat /\ Used(sorted.task, sorted.burst, asked)[i] = sorted.burst[i] - sorted.burst[i]
        BY <1>9, <2>1, SchedFacts DEF Used
      <3> QED
        BY <3>1
    <2> QED
      BY <2>2
  <1>12. Spent(Used(sorted.task, sorted.burst, asked), <<>>, <<>>)
    BY <1>11, SpentNothing
  <1>13. \E w : Passed(w, sorted.task, sorted.burst, 0, <<>>)
    BY PassedNothing
  <1>14. <<>> \in Seq(Idx \union {NoTask})
    OBVIOUS
  <1> QED
    BY <1>1, <1>10, <1>12, <1>13, <1>14 DEF SchedSound

(* A Run of time from index c on over b stops at stop.                     *)
Charged(b, c, time, stop) ==
    [i \in Idx |-> IF i \in c .. stop - 1 THEN 0
                   ELSE IF i = stop THEN b[i] - (time - SumFrom(b, c, i))
                   ELSE b[i]]

LEMMA ChargedKept ==
    ASSUME NEW tk, NEW b, NEW prio, NEW c, NEW p, PlanKept(tk, b, prio, c, p),
           NEW time \in Nat, NEW stop, Stops(b, c, time, stop)
    PROVE  /\ PlanKept(tk, Charged(b, c, time, stop), prio, NextCid(stop), p)
           /\ Charges(Used(tk, b, p), Used(tk, Charged(b, c, time, stop), p), b, c, stop, time)
  <1> DEFINE v == Charged(b, c, time, stop)
             n == NextCid(stop)
             left(i) == time - SumFrom(b, c, i)
  <1>1. /\ b \in [Idx -> 0 .. MaxBurst] /\ c \in 0 .. Tasks
        /\ \A i \in Idx : /\ p.burst[tk[i]] \in Nat /\ b[i] <= p.burst[tk[i]]
                          /\ i >= c => b[i] = p.burst[tk[i]]
    BY DEF PlanKept
  <1>2. /\ stop \in c .. Tasks
        /\ stop # Tasks => b[stop] >= left(stop)
        /\ \A i \in c .. stop : left(i) \in Nat
    BY DEF Stops
  <1>3. c \in Nat /\ stop \in Nat /\ c <= stop /\ stop <= Tasks /\ Tasks \in Nat /\ MaxBurst \in Nat
    BY <1>1, <1>2, SchedFacts
  <1>4. \A i \in Idx : v[i] = IF i \in c .. stop - 1 THEN 0 ELSE IF i = stop THEN b[i] - left(i) ELSE b[i]
    BY DEF Charged
  <1>5. v = [i \in Idx |-> v[i]]
    BY DEF Charged
  <1> HIDE DEF v, left
  <1>6. \A i \in Idx : i \in Nat /\ i < Tasks /\ b[i] \in Nat /\ b[i] <= MaxBurst
    BY <1>1, SchedFacts
  <1>7. ASSUME NEW i \in Idx
        PROVE  /\ v[i] \in 0 .. MaxBurst /\ v[i] <= b[i]
               /\ i >= n => v[i] = b[i] /\ i >= c
    <2>1. i = stop => left(i) \in Nat /\ b[i] >= left(i)
      BY <1>2, <1>3, <1>6
    <2>2. i >= n => i > stop
      BY <1>3, <1>6 DEF NextCid
    <2>3. v[i] = IF i \in c .. stop - 1 THEN 0 ELSE IF i = stop THEN b[i] - left(i) ELSE b[i]
      BY <1>4
    <2> HIDE DEF n
    <2> QED
      BY <1>3, <1>6, <2>1, <2>2, <2>3
  <1>8. n \in 0 .. Tasks
    BY <1>3 DEF NextCid
  <1>9. PlanKept(tk, v, prio, n, p)
    <2>1. v \in [Idx -> 0 .. MaxBurst]
      BY <1>5, <1>7
    <2>2. \A i \in Idx : v[i] <= p.burst[tk[i]] /\ (i >= n => v[i] = p.burst[tk[i]])
      <3> HIDE DEF n
      <3> SUFFICES ASSUME NEW i \in Idx PROVE v[i] <= p.burst[tk[i]] /\ (i >= n => v[i] = p.burst[tk[i]])
        OBVIOUS
      <3>1. v[i] \in Nat
        BY <1>3, <1>7
      <3> QED
        BY <1>1, <1>6, <1>7, <3>1
    <2> HIDE DEF n
    <2> QED
      BY <1>8, <2>1, <2>2 DEF PlanKept
  <1>10. Charges(Used(tk, b, p), Used(tk, v, p), b, c, stop, time)
    <2> DEFINE u == Used(tk, b, p)
               w == Used(tk, v, p)
    <2>1. \A i \in Idx : u[i] = p.burst[tk[i]] - b[i] /\ w[i] = p.burst[tk[i]] - v[i]
      BY DEF Used
    <2>2. u = [i \in Idx |-> u[i]] /\ w = [i \in Idx |-> w[i]]
      BY DEF Used
    <2> HIDE DEF u, w, n
    <2>3. ASSUME NEW i \in Idx
          PROVE  /\ u[i] \in Nat /\ w[i] \in Nat
                 /\ w[i] = IF i \in c .. stop - 1 THEN u[i] + b[i]
                           ELSE IF i = stop THEN u[i] + left(i)
                           ELSE u[i]
      <3>1. v[i] \in Nat /\ v[i] <= b[i]
        BY <1>3, <1>7
      <3>2. i \in stop .. Tasks - 1 \/ i \in 0 .. stop - 1
        BY <1>3, <1>6
      <3>3. i = stop => left(i) \in Nat
        BY <1>2, <1>3
      <3>4. p.burst[tk[i]] \in Nat /\ b[i] <= p.burst[tk[i]] /\ b[i] \in Nat
        BY <1>1, <1>6
      <3>5. v[i] = IF i \in c .. stop - 1 THEN 0 ELSE IF i = stop THEN b[i] - left(i) ELSE b[i]
        BY <1>4
      <3> QED
        BY <2>1, <3>1, <3>3, <3>4, <3>5
    <2>4. u \in [Idx -> Nat] /\ w \in [Idx -> Nat] /\ b \in [Idx -> Nat]
      BY <1>1, <1>6, <2>2, <2>3
    <2>5. c \in 0 .. stop /\ stop \in 0 .. Tasks
      BY <1>3
    <2>6. \A i \in Idx : w[i] = IF i \in c .. stop - 1 THEN u[i] + b[i]
                                ELSE IF i = stop THEN u[i] + (time - SumFrom(b, c, i))
                                ELSE u[i]
      BY <2>3 DEF left
    <2> QED
      BY <2>4, <2>5, <2>6 DEF Charges, u, w
  <1> QED
    BY <1>9, <1>10 DEF v

(* One more number in the sum.                                             *)
LEMMA SumAppended ==
    ASSUME NEW gv \in Seq(Nat), NEW time \in Nat
    PROVE  /\ Append(gv, time) \in Seq(Nat)
           /\ SumFunction(gv) \in Nat
           /\ SumFunction(Append(gv, time)) = SumFunction(gv) + time
  <1> DEFINE S == 1 .. Len(gv)
             x == Len(gv) + 1
             g == Append(gv, time)
  <1>1. IsFiniteSet(S)
    BY FS_Interval
  <1>2. /\ x \notin S /\ DOMAIN g = S \union {x} /\ DOMAIN gv = S
        /\ g[x] = time /\ g[x] \in Nat /\ \A y \in S : gv[y] \in Nat /\ g[y] = gv[y]
    OBVIOUS
  <1>3. g \in Seq(Nat)
    OBVIOUS
  <1> HIDE DEF S, x, g
  <1>4. Prolongs(g, gv, S, x)
    BY <1>2 DEF Prolongs
  <1>5. SumFunction(gv) \in Nat /\ SumFunction(g) = g[x] + SumFunction(gv)
    BY <1>1, <1>4, SumMore
  <1> QED
    BY <1>2, <1>3, <1>5 DEF g

LEMMA SpentMore ==
    ASSUME NEW u, NEW v, NEW b, NEW c, NEW stop, NEW time, Charges(u, v, b, c, stop, time),
           SumFrom(b, c, stop) <= time,
           NEW gv, NEW rn \in Seq(Idx \union {NoTask}), Spent(u, gv, rn),
           NEW x \in Idx \union {NoTask}, stop = Tasks <=> x = NoTask
    PROVE  Spent(v, Append(gv, time), Append(rn, x))
  <1>1. /\ SumFrom(u, 0, Tasks) \in Nat /\ SumFrom(b, c, stop) \in Nat
        /\ SumFrom(v, 0, Tasks) =
              SumFrom(u, 0, Tasks) + IF stop = Tasks THEN SumFrom(b, c, Tasks) ELSE time
    BY ChargesAdd
  <1>2. time \in Nat
    BY DEF Charges
  <1>3. gv \in Seq(Nat) /\ SumFunction(gv) \in Nat /\ SumFrom(u, 0, Tasks) <= SumFunction(gv)
    BY DEF Spent
  <1>4. Append(gv, time) \in Seq(Nat) /\ SumFunction(Append(gv, time)) = SumFunction(gv) + time
    BY <1>2, <1>3, SumAppended
  <1>5. SumFrom(v, 0, Tasks) <= SumFunction(gv) + time
    <2>1. CASE stop = Tasks
      <3>1. SumFrom(v, 0, Tasks) = SumFrom(u, 0, Tasks) + SumFrom(b, c, stop)
        BY <1>1, <2>1
      <3> QED
        BY <1>1, <1>2, <1>3, <3>1
    <2>2. CASE stop # Tasks
      <3>1. SumFrom(v, 0, Tasks) = SumFrom(u, 0, Tasks) + time
        BY <1>1, <2>2
      <3> QED
        BY <1>1, <1>2, <1>3, <3>1
    <2> QED
      BY <2>1, <2>2
  <1>6. ASSUME \A r \in 1 .. Len(Append(rn, x)) : Append(rn, x)[r] # NoTask
        PROVE  SumFrom(v, 0, Tasks) = SumFunction(gv) + time
    <2>1. /\ Len(Append(rn, x)) = Len(rn) + 1 /\ Len(rn) \in Nat /\ Append(rn, x)[Len(rn) + 1] = x
          /\ \A r \in 1 .. Len(rn) : Append(rn, x)[r] = rn[r]
      OBVIOUS
    <2>2. x # NoTask /\ \A r \in 1 .. Len(rn) : rn[r] # NoTask
      BY <1>6, <2>1
    <2>3. SumFrom(u, 0, Tasks) = SumFunction(gv)
      BY <2>2 DEF Spent
    <2> QED
      BY <1>1, <2>2, <2>3
  <1>7. SumFunction(Append(gv, time)) \in Nat
    BY <1>2, <1>3, <1>4
  <1> QED
    BY <1>4, <1>5, <1>6, <1>7 DEF Spent

LEMMA PassedMore ==
    ASSUME NEW halt, NEW tk \in [Idx -> Idx], NEW b, NEW c \in 0 .. Tasks, NEW rn \in Seq(Idx \union {NoTask}),
           Passed(halt, tk, b, c, rn), NEW stop \in c .. Tasks, NEW time
    PROVE  \E w : Passed(w, tk, Charged(b, c, time, stop), NextCid(stop),
                         Append(rn, IF stop = Tasks THEN NoTask ELSE tk[stop]))
  <1> DEFINE x == IF stop = Tasks THEN NoTask ELSE tk[stop]
             more == Append(rn, x)
             L == Len(rn)
             n == NextCid(stop)
             w == [r \in 1 .. L + 1 |-> IF r = L + 1 THEN stop ELSE halt[r]]
             v == Charged(b, c, time, stop)
  <1>1. Tasks \in Nat /\ c \in Nat /\ stop \in Nat /\ c <= stop /\ stop <= Tasks /\ c <= Tasks
    BY SchedFacts
  <1>2. x \in Idx \union {NoTask}
    BY <1>1, SchedFacts
  <1>3. x = IF stop = Tasks THEN NoTask ELSE tk[stop]
    OBVIOUS
  <1> HIDE DEF x
  <1>4. /\ L \in Nat /\ Len(more) = L + 1 /\ more[L + 1] = x
        /\ \A r \in 1 .. L : more[r] = rn[r]
    BY <1>2
  <1>5. /\ w \in [1 .. L + 1 -> 0 .. Tasks] /\ w[L + 1] = stop
        /\ \A r \in 1 .. L : w[r] = halt[r] /\ halt[r] \in 0 .. Tasks
    <2>1. halt \in [1 .. L -> 0 .. Tasks]
      BY DEF Passed
    <2>2. \A r \in 1 .. L : r # L + 1 /\ r \in 1 .. L + 1
      BY <1>4
    <2>3. \A r \in 1 .. L + 1 : r \in 1 .. L \/ r = L + 1
      BY <1>4
    <2>4. stop \in 0 .. Tasks /\ L + 1 \in 1 .. L + 1
      BY <1>1, <1>4
    <2> HIDE DEF L
    <2> QED
      BY <2>1, <2>2, <2>3, <2>4
  <1>6. /\ n \in Nat /\ c <= n
        /\ stop = Tasks => n = Tasks
        /\ stop < Tasks => n = stop + 1
    BY <1>1 DEF NextCid
  <1>7. \A i \in Idx : v[i] = IF i \in c .. stop - 1 THEN 0
                              ELSE IF i = stop THEN b[i] - (time - SumFrom(b, c, i)) ELSE b[i]
    BY DEF Charged
  <1> HIDE DEF w, v, n, more
  <1>8. \A r \in 1 .. L :
           /\ rn[r] = IF halt[r] = Tasks THEN NoTask ELSE tk[halt[r]]
           /\ IF halt[r] = Tasks THEN c = Tasks ELSE halt[r] < c
           /\ \A q \in 1 .. L : r < q => halt[q] = Tasks \/ halt[r] < halt[q]
    BY DEF Passed
  <1>9. \A i \in 0 .. c - 1 : b[i] = 0 \/ \E r \in 1 .. L : halt[r] = i
    BY DEF Passed
  <1> HIDE DEF L
  <1>10. ASSUME NEW r \in 1 .. L + 1
         PROVE  /\ more[r] = IF w[r] = Tasks THEN NoTask ELSE tk[w[r]]
                /\ IF w[r] = Tasks THEN n = Tasks ELSE w[r] < n
                /\ \A q \in 1 .. L + 1 : r < q => w[q] = Tasks \/ w[r] < w[q]
    <2>1. CASE r = L + 1
      <3>1. \A q \in 1 .. L + 1 : ~(r < q)
        BY <1>4, <2>1
      <3> QED
        BY <1>1, <1>3, <1>4, <1>5, <1>6, <2>1, <3>1
    <2>2. CASE r \in 1 .. L
      <3>1. more[r] = rn[r] /\ w[r] = halt[r] /\ halt[r] \in Nat /\ halt[r] <= Tasks
        BY <1>1, <1>4, <1>5, <2>2
      <3>2. IF w[r] = Tasks THEN n = Tasks ELSE w[r] < n
        <4>1. CASE w[r] = Tasks
          <5>1. c = Tasks
            BY <1>8, <2>2, <3>1, <4>1
          <5>2. stop = Tasks
            BY <1>1, <5>1
          <5> QED
            BY <1>6, <4>1, <5>2
        <4>2. CASE w[r] # Tasks
          BY <1>1, <1>6, <1>8, <2>2, <3>1, <4>2
        <4> QED
          BY <4>1, <4>2
      <3>3. ASSUME NEW q \in 1 .. L + 1, r < q PROVE w[q] = Tasks \/ w[r] < w[q]
        <4>1. CASE q = L + 1
          <5>1. CASE halt[r] = Tasks
            BY <1>1, <1>5, <1>8, <2>2, <4>1, <5>1
          <5>2. CASE halt[r] # Tasks
            BY <1>1, <1>5, <1>8, <2>2, <3>1, <4>1, <5>2
          <5> QED
            BY <5>1, <5>2
        <4>2. CASE q \in 1 .. L
          BY <1>5, <1>8, <2>2, <3>1, <3>3, <4>2
        <4> QED
          BY <1>4, <4>1, <4>2
      <3> QED
        BY <1>8, <2>2, <3>1, <3>2, <3>3
    <2> QED
      BY <1>4, <2>1, <2>2
  <1>11. ASSUME NEW i \in 0 .. n - 1 PROVE v[i] = 0 \/ \E r \in 1 .. L + 1 : w[r] = i
    <2>1. i \in Nat /\ i < n /\ (i < c \/ i \in c .. stop - 1 \/ (i = stop /\ stop < Tasks)) /\ i \in Idx
      BY <1>1, <1>6, SchedFacts
    <2>2. CASE i < c
      <3>1. v[i] = b[i]
        BY <1>1, <1>7, <2>1, <2>2
      <3>2. b[i] = 0 \/ \E r \in 1 .. L : halt[r] = i
        BY <1>9, <1>1, <2>1, <2>2
      <3>3. \A r \in 1 .. L : r \in 1 .. L + 1
        BY <1>4
      <3> QED
        BY <1>5, <3>1, <3>2, <3>3
    <2>3. CASE i \in c .. stop - 1
      BY <1>7, <2>1, <2>3
    <2>4. CASE i = stop
      <3>1. L + 1 \in 1 .. L + 1
        BY <1>4
      <3> QED
        BY <1>5, <2>4, <3>1
    <2> QED
      BY <2>1, <2>2, <2>3, <2>4
  <1>12. Passed(w, tk, v, n, more)
    BY <1>4, <1>5, <1>10, <1>11 DEF Passed
  <1> QED
    BY <1>12 DEF v, n, more, x

LEMMA RunSound ==
    ASSUME SchedSound, NEW time \in 0 .. MaxTime, Run(time)
    PROVE  SchedSound'
  <1> DEFINE b == burstTime
             c == cid
             stopAt == Min({i \in c .. Tasks - 1 : b[i] >= time - SumFrom(b, c, i)} \union {Tasks})
  <1>1. /\ burstTime' = [i \in Idx |->
                            IF i \in c .. stopAt - 1 THEN 0
                            ELSE IF i = stopAt THEN b[i] - (time - SumFrom(b, c, i))
                            ELSE b[i]]
        /\ cid' = NextCid(stopAt)
        /\ given' = Append(given, time)
        /\ ran' = Append(ran, IF stopAt = Tasks THEN NoTask ELSE task[stopAt])
        /\ task' = task /\ priority' = priority /\ plan' = plan
    BY DEF Run, LeftAt, SumFrom
  <1>2. /\ PlanKept(task, b, priority, c, plan)
        /\ Spent(Used(task, b, plan), given, ran)
        /\ ran \in Seq(Idx \union {NoTask})
    BY DEF SchedSound
  <1>3. PICK halt : Passed(halt, task, b, c, ran)
    BY DEF SchedSound
  <1>4. task \in [Idx -> Idx] /\ b \in [Idx -> 0 .. MaxBurst] /\ c \in 0 .. Tasks /\ time \in Nat
    BY <1>2, SchedulerAssumption DEF PlanKept, SchedulerAssumption
  <1>5. b \in [Idx -> Nat]
    BY <1>4, SchedFacts
  <1>6. Stops(b, c, time, stopAt)
    BY <1>4, <1>5, StopIs
  <1>7. PICK stop : stop = stopAt
    OBVIOUS
  <1> HIDE DEF stopAt
  <1>8. Stops(b, c, time, stop)
    BY <1>6, <1>7
  <1>9. burstTime' = Charged(b, c, time, stop) /\ cid' = NextCid(stop)
    BY <1>1, <1>7 DEF Charged
  <1>10. PICK x : x = IF stop = Tasks THEN NoTask ELSE task[stop]
    OBVIOUS
  <1>11. ran' = Append(ran, x)
    BY <1>1, <1>7, <1>10
  <1>12. stop \in c .. Tasks /\ SumFrom(b, c, stop) <= time
    <2>1. stop \in c .. Tasks /\ stop \in c .. stop
      BY <1>4, <1>8, SchedFacts DEF Stops
    <2> QED
      BY <1>8, <2>1 DEF Stops
  <1>13. x \in Idx \union {NoTask} /\ (stop = Tasks <=> x = NoTask)
    <2>1. stop # Tasks => stop \in Idx
      BY <1>4, <1>12, SchedFacts
    <2> QED
      BY <1>4, <1>10, <2>1, SchedFacts
  <1>14. /\ PlanKept(task, Charged(b, c, time, stop), priority, NextCid(stop), plan)
         /\ Charges(Used(task, b, plan), Used(task, Charged(b, c, time, stop), plan), b, c, stop, time)
    BY <1>2, <1>4, <1>8, ChargedKept
  <1>15. Spent(Used(task, Charged(b, c, time, stop), plan), Append(given, time), Append(ran, x))
    BY <1>2, <1>12, <1>13, <1>14, SpentMore
  <1>16. \E w : Passed(w, task, Charged(b, c, time, stop), NextCid(stop), Append(ran, x))
    BY <1>2, <1>3, <1>4, <1>10, <1>12, PassedMore
  <1>17. Append(ran, x) \in Seq(Idx \union {NoTask})
    BY <1>2, <1>13
  <1>18. /\ PlanKept(task, b, priority, c, plan)'
         /\ Spent(Used(task, b, plan), given, ran)'
         /\ (ran \in Seq(Idx \union {NoTask}))'
         /\ (\E w : Passed(w, task, b, c, ran))'
    BY <1>1, <1>9, <1>11, <1>14, <1>15, <1>16, <1>17
  <1> QED
    BY <1>18 DEF SchedSound

LEMMA SchedSoundHolds == SchedSpec => []SchedSound
  <1>1. ASSUME SchedSound, [SchedNext]_schedVars PROVE SchedSound'
    <2>1. CASE UNCHANGED schedVars
      BY <1>1, <2>1 DEF schedVars, SchedSound
    <2>2. CASE SchedNext
      BY <1>1, <2>2, SortSound, RunSound DEF SchedNext
    <2> QED
      BY <1>1, <2>1, <2>2
  <1> QED
    BY <1>1, SchedInitSound, PTL DEF SchedSpec

THEOREM TimeIsCharged == SchedSpec => [](SchedTypeOK /\ TimeGoesByPriority)
  <1> SUFFICES ASSUME SchedSound PROVE SchedTypeOK /\ TimeGoesByPriority
    BY SchedSoundHolds, PTL
  <1> DEFINE u == Used(task, burstTime, plan)
             returned == {ran[r] : r \in DOMAIN ran} \ {NoTask}
  <1>1. /\ task \in [Idx -> Idx] /\ Distinct(task)
        /\ burstTime \in [Idx -> 0 .. MaxBurst] /\ priority \in [Idx -> 0 .. MaxPriority]
        /\ Ordered(priority, Tasks) /\ cid \in 0 .. Tasks
        /\ \A i \in Idx : /\ priority[i] = plan.prio[task[i]]
                          /\ plan.burst[task[i]] \in Nat /\ burstTime[i] <= plan.burst[task[i]]
                          /\ i >= cid => burstTime[i] = plan.burst[task[i]]
    BY DEF SchedSound, PlanKept
  <1>2. /\ SumFrom(u, 0, Tasks) <= SumFunction(given)
        /\ (\A r \in 1 .. Len(ran) : ran[r] # NoTask) => SumFrom(u, 0, Tasks) = SumFunction(given)
    BY DEF SchedSound, Spent
  <1>3. PICK halt : Passed(halt, task, burstTime, cid, ran)
    BY DEF SchedSound
  <1>4. DOMAIN ran = 1 .. Len(ran)
    BY DEF SchedSound
  <1>5. \A i, j \in Idx : /\ i # j => task[i] # task[j]
                          /\ i < j => plan.prio[task[i]] <= plan.prio[task[j]]
    <2>1. \A i \in Idx : i < Tasks
      BY SchedFacts
    <2> QED
      BY <1>1, <2>1 DEF Distinct, Ordered
  <1>6. \A i \in Idx : /\ plan.burst[task[i]] - burstTime[i] >= 0
                       /\ i >= cid => plan.burst[task[i]] - burstTime[i] = 0
    <2> SUFFICES ASSUME NEW i \in Idx
                 PROVE  /\ plan.burst[task[i]] - burstTime[i] >= 0
                        /\ i >= cid => plan.burst[task[i]] - burstTime[i] = 0
      OBVIOUS
    <2>1. burstTime[i] \in Nat
      BY <1>1, SchedFacts
    <2> QED
      BY <1>1, <2>1
  <1>7. SumFunction([i \in Idx |-> plan.burst[task[i]] - burstTime[i]]) = SumFrom(u, 0, Tasks)
    <2>1. [j \in 0 .. Tasks - 1 |-> u[j]] = [i \in Idx |-> plan.burst[task[i]] - burstTime[i]]
      BY DEF Used, Idx
    <2> QED
      BY <2>1 DEF SumFrom
  <1> HIDE DEF u
  <1>8. /\ halt \in [1 .. Len(ran) -> 0 .. Tasks]
        /\ \A r \in 1 .. Len(ran) : ran[r] = IF halt[r] = Tasks THEN NoTask ELSE task[halt[r]]
        /\ \A r, q \in 1 .. Len(ran) : r < q => halt[q] = Tasks \/ halt[r] < halt[q]
        /\ \A i \in 0 .. cid - 1 : burstTime[i] = 0 \/ \E r \in 1 .. Len(ran) : halt[r] = i
    BY <1>3 DEF Passed
  <1>9. \A r \in 1 .. Len(ran) : halt[r] # Tasks =>
            halt[r] \in Idx /\ task[halt[r]] \in Idx /\ ran[r] = task[halt[r]] /\ ran[r] \in returned
    <2> SUFFICES ASSUME NEW r \in 1 .. Len(ran), halt[r] # Tasks
                 PROVE  halt[r] \in Idx /\ task[halt[r]] \in Idx /\ ran[r] = task[halt[r]] /\ ran[r] \in returned
      OBVIOUS
    <2>1. halt[r] \in Idx
      <3>1. halt[r] \in 0 .. Tasks
        BY <1>8
      <3> QED
        BY <3>1, SchedFacts
    <2>2. task[halt[r]] \in Idx /\ ran[r] = task[halt[r]] /\ ran[r] # NoTask
      BY <1>1, <1>8, <2>1, SchedFacts
    <2> QED
      BY <1>4, <2>1, <2>2
  <1>10. ASSUME NEW i \in 0 .. cid - 1 PROVE burstTime[i] = 0 \/ task[i] \in returned
    <2>1. i \in Idx /\ i # Tasks
      <3>1. cid \in 0 .. Tasks /\ Tasks \in Nat
        BY <1>1, SchedFacts
      <3>2. i \in 0 .. Tasks - 1 /\ i # Tasks
        BY <3>1
      <3> QED
        BY <3>2, SchedFacts
    <2> HIDE DEF returned
    <2> QED
      BY <1>8, <1>9, <2>1
  <1>11. ASSUME NEW r \in DOMAIN ran, NEW q \in DOMAIN ran, r < q, ran[q] # NoTask
         PROVE  ran[r] \in returned \ {ran[q]} /\ plan.prio[ran[r]] <= plan.prio[ran[q]]
    <2>1. r \in 1 .. Len(ran) /\ q \in 1 .. Len(ran)
      BY <1>4
    <2>2. halt[q] # Tasks /\ halt[r] < halt[q]
      BY <1>8, <1>11, <2>1
    <2>3. halt[r] # Tasks /\ halt[r] # halt[q]
      <3>1. halt[r] \in 0 .. Tasks /\ halt[q] \in 0 .. Tasks /\ Tasks \in Nat
        BY <1>8, <2>1, SchedFacts
      <3> QED
        BY <2>2, <3>1
    <2> HIDE DEF returned
    <2> QED
      BY <1>5, <1>9, <2>1, <2>2, <2>3
  <1>12. NoTask \notin {ran[r] : r \in DOMAIN ran} => \A r \in 1 .. Len(ran) : ran[r] # NoTask
    BY <1>4
  <1>13. SchedTypeOK
    BY <1>1 DEF SchedTypeOK
  <1>14. TimeGoesByPriority
    <2>1. /\ SumFunction([i \in Idx |-> plan.burst[task[i]] - burstTime[i]]) <= SumFunction(given)
          /\ NoTask \notin {ran[r] : r \in DOMAIN ran} =>
                SumFunction([i \in Idx |-> plan.burst[task[i]] - burstTime[i]]) = SumFunction(given)
      BY <1>2, <1>7, <1>12
    <2>2. \A i \in 0 .. cid - 1 : given # <<>> => burstTime[i] = 0 \/ task[i] \in returned
      BY <1>10
    <2>3. \A r, q \in DOMAIN ran : r < q /\ ran[q] # NoTask =>
             ran[r] \in returned \ {ran[q]} /\ plan.prio[ran[r]] <= plan.prio[ran[q]]
      BY <1>11
    <2> QED
      BY <1>5, <1>6, <2>1, <2>2, <2>3 DEF TimeGoesByPriority
  <1> QED
    BY <1>13, <1>14

-----------------------------------------------------------------------------
(* Vectors                                                                 *)

Vec3 == [Dims -> Int]
Mat == [Dims -> [0 .. 3 -> Int]]
Soa == [Dims -> [Cols -> Int]]

LEMMA DimsAre ==
    /\ Dims = {0, 1, 2} /\ 0 .. 3 = {0, 1, 2, 3}
    /\ After(0) = 1 /\ After(1) = 2 /\ After(2) = 0
    /\ After(After(0)) = 2 /\ After(After(1)) = 0 /\ After(After(2)) = 1
  BY DEF Dims, After

LEMMA DotIs ==
    ASSUME NEW a, NEW b, \A i \in Dims : a[i] \in Int /\ b[i] \in Int
    PROVE  Dot(a, b) \in Int
  <1>1. a[0] \in Int /\ a[1] \in Int /\ a[2] \in Int /\ b[0] \in Int /\ b[1] \in Int /\ b[2] \in Int
    BY DimsAre
  <1> QED
    BY <1>1 DEF Dot

(* The columns of a matrix.                                                *)
LEMMA ColumnsAre ==
    ASSUME NEW m \in Mat
    PROVE  /\ \A i \in Dims, o \in 0 .. 3 : m[i][o] \in Int /\ Rotate(m)[o][i] = m[i][o]
           /\ \A o \in 0 .. 3 : Rotate(m)[o] \in Vec3
           /\ \A i \in Dims, o \in Dims : m[i][o] \in Int
  <1>1. DOMAIN m = Dims /\ DOMAIN m[0] = 0 .. 3 /\ Dims \subseteq 0 .. 3
    BY DimsAre DEF Mat
  <1>2. \A i \in Dims, o \in 0 .. 3 : m[i][o] \in Int
    BY DEF Mat
  <1>3. \A i \in Dims, o \in 0 .. 3 : Rotate(m)[o][i] = m[i][o]
    BY <1>1 DEF Rotate
  <1>4. \A o \in 0 .. 3 : Rotate(m)[o] = [i \in Dims |-> m[i][o]]
    BY <1>1 DEF Rotate
  <1> QED
    BY <1>1, <1>2, <1>3, <1>4 DEF Vec3

LEMMA MinorIs ==
    ASSUME NEW m \in Mat, NEW i \in Dims, NEW o \in Dims
    PROVE  Minor(m, i, o) \in Int
  <1>1. After(i) \in Dims /\ After(After(i)) \in Dims /\ After(o) \in Dims /\ After(After(o)) \in Dims
    BY DimsAre
  <1>2. /\ m[After(i)][After(o)] \in Int /\ m[After(After(i))][After(After(o))] \in Int
        /\ m[After(i)][After(After(o))] \in Int /\ m[After(After(i))][After(o)] \in Int
    BY <1>1, ColumnsAre
  <1> QED
    BY <1>2 DEF Minor

(* The entries of a matrix.                                                *)
NineEntries(m, a0, a1, a2, b0, b1, b2, c0, c1, c2) ==
    /\ m[0][0] = a0 /\ m[0][1] = a1 /\ m[0][2] = a2
    /\ m[1][0] = b0 /\ m[1][1] = b1 /\ m[1][2] = b2
    /\ m[2][0] = c0 /\ m[2][1] = c1 /\ m[2][2] = c2

LEMMA DetIs ==
    ASSUME NEW m, NEW a0, NEW a1, NEW a2, NEW b0, NEW b1, NEW b2, NEW c0, NEW c1, NEW c2,
           NineEntries(m, a0, a1, a2, b0, b1, b2, c0, c1, c2)
    PROVE  Det(m) = a0 * (b1 * c2 - b2 * c1) + a1 * (b2 * c0 - b0 * c2) + a2 * (b0 * c1 - b1 * c0)
  <1>1. \A o \in Dims : [p \in Dims |-> Minor(m, 0, p)][o] = Minor(m, 0, o)
    OBVIOUS
  <1>2. /\ Minor(m, 0, 0) = b1 * c2 - b2 * c1
        /\ Minor(m, 0, 1) = b2 * c0 - b0 * c2
        /\ Minor(m, 0, 2) = b0 * c1 - b1 * c0
    BY DimsAre DEF Minor, NineEntries
  <1> QED
    BY <1>1, <1>2, DimsAre DEF Det, Dot, NineEntries

LEMMA DetTyped == ASSUME NEW m \in Mat PROVE Det(m) \in Int
  <1> DEFINE n == [o \in Dims |-> Minor(m, 0, o)]
  <1>1. \A o \in Dims : n[o] \in Int /\ m[0][o] \in Int
    BY MinorIs, ColumnsAre, DimsAre
  <1> HIDE DEF n
  <1>2. Dot(m[0], n) \in Int
    BY <1>1, DotIs
  <1> QED
    BY <1>2 DEF Det, n

LEMMA MultiplyIs ==
    ASSUME NEW m \in Mat, NEW n \in Mat
    PROVE  /\ Multiply(m, n) \in Mat
           /\ \A i, o \in Dims : Multiply(m, n)[i][o] = m[i][0] * n[0][o] + m[i][1] * n[1][o] + m[i][2] * n[2][o]
  <1>1. \A i, o \in Dims : Dot(m[i], Rotate(n)[o]) = m[i][0] * n[0][o] + m[i][1] * n[1][o] + m[i][2] * n[2][o]
    BY ColumnsAre, DimsAre DEF Dot
  <1>2. \A i, o \in Dims : Dot(m[i], Rotate(n)[o]) \in Int
    <2> SUFFICES ASSUME NEW i \in Dims, NEW o \in Dims PROVE Dot(m[i], Rotate(n)[o]) \in Int
      OBVIOUS
    <2>1. \A k \in Dims : m[i][k] \in Int /\ Rotate(n)[o][k] \in Int
      BY ColumnsAre, DimsAre
    <2> QED
      BY <2>1, DotIs
  <1>3. \A i \in Dims, o \in 0 .. 3 : m[i][o] \in Int
    BY ColumnsAre
  <1>4. Multiply(m, n) \in Mat
    BY <1>2, <1>3 DEF Multiply, Mat
  <1>5. \A i, o \in Dims : Multiply(m, n)[i][o] = Dot(m[i], Rotate(n)[o])
    BY DimsAre DEF Multiply
  <1> QED
    BY <1>1, <1>4, <1>5

(* The determinant of a product.                                           *)
LEMMA ProductOfDets ==
    ASSUME NEW a0 \in Int, NEW a1 \in Int, NEW a2 \in Int,
           NEW b0 \in Int, NEW b1 \in Int, NEW b2 \in Int,
           NEW c0 \in Int, NEW c1 \in Int, NEW c2 \in Int,
           NEW x0 \in Int, NEW x1 \in Int, NEW x2 \in Int,
           NEW y0 \in Int, NEW y1 \in Int, NEW y2 \in Int,
           NEW z0 \in Int, NEW z1 \in Int, NEW z2 \in Int
    PROVE  (a0 * x0 + a1 * y0 + a2 * z0) *
              ((b0 * x1 + b1 * y1 + b2 * z1) * (c0 * x2 + c1 * y2 + c2 * z2)
                  - (b0 * x2 + b1 * y2 + b2 * z2) * (c0 * x1 + c1 * y1 + c2 * z1))
         + (a0 * x1 + a1 * y1 + a2 * z1) *
              ((b0 * x2 + b1 * y2 + b2 * z2) * (c0 * x0 + c1 * y0 + c2 * z0)
                  - (b0 * x0 + b1 * y0 + b2 * z0) * (c0 * x2 + c1 * y2 + c2 * z2))
         + (a0 * x2 + a1 * y2 + a2 * z2) *
              ((b0 * x0 + b1 * y0 + b2 * z0) * (c0 * x1 + c1 * y1 + c2 * z1)
                  - (b0 * x1 + b1 * y1 + b2 * z1) * (c0 * x0 + c1 * y0 + c2 * z0))
         = (a0 * (b1 * c2 - b2 * c1) + a1 * (b2 * c0 - b0 * c2) + a2 * (b0 * c1 - b1 * c0))
              * (x0 * (y1 * z2 - y2 * z1) + x1 * (y2 * z0 - y0 * z2) + x2 * (y0 * z1 - y1 * z0))
  OBVIOUS

LEMMA DetOfProduct ==
    ASSUME NEW m \in Mat, NEW n \in Mat
    PROVE  Det(Multiply(m, n)) = Det(m) * Det(n)
  <1> \A i, o \in Dims : m[i][o] \in Int /\ n[i][o] \in Int
    BY ColumnsAre
  <1>1. PICK a0 \in Int, a1 \in Int, a2 \in Int, b0 \in Int, b1 \in Int, b2 \in Int, c0 \in Int, c1 \in Int, c2 \in Int :
            NineEntries(m, a0, a1, a2, b0, b1, b2, c0, c1, c2)
    BY DimsAre DEF NineEntries
  <1>2. PICK x0 \in Int, x1 \in Int, x2 \in Int, y0 \in Int, y1 \in Int, y2 \in Int, z0 \in Int, z1 \in Int, z2 \in Int :
            NineEntries(n, x0, x1, x2, y0, y1, y2, z0, z1, z2)
    BY DimsAre DEF NineEntries
  <1> DEFINE p == Multiply(m, n)
  <1>3. NineEntries(p, a0 * x0 + a1 * y0 + a2 * z0, a0 * x1 + a1 * y1 + a2 * z1, a0 * x2 + a1 * y2 + a2 * z2,
                   b0 * x0 + b1 * y0 + b2 * z0, b0 * x1 + b1 * y1 + b2 * z1, b0 * x2 + b1 * y2 + b2 * z2,
                   c0 * x0 + c1 * y0 + c2 * z0, c0 * x1 + c1 * y1 + c2 * z1, c0 * x2 + c1 * y2 + c2 * z2)
    BY <1>1, <1>2, MultiplyIs, DimsAre DEF NineEntries
  <1> HIDE DEF p
  <1>4. Det(p) = (a0 * x0 + a1 * y0 + a2 * z0) *
              ((b0 * x1 + b1 * y1 + b2 * z1) * (c0 * x2 + c1 * y2 + c2 * z2)
                  - (b0 * x2 + b1 * y2 + b2 * z2) * (c0 * x1 + c1 * y1 + c2 * z1))
         + (a0 * x1 + a1 * y1 + a2 * z1) *
              ((b0 * x2 + b1 * y2 + b2 * z2) * (c0 * x0 + c1 * y0 + c2 * z0)
                  - (b0 * x0 + b1 * y0 + b2 * z0) * (c0 * x2 + c1 * y2 + c2 * z2))
         + (a0 * x2 + a1 * y2 + a2 * z2) *
              ((b0 * x0 + b1 * y0 + b2 * z0) * (c0 * x1 + c1 * y1 + c2 * z1)
                  - (b0 * x1 + b1 * y1 + b2 * z1) * (c0 * x0 + c1 * y0 + c2 * z0))
    BY ONLY <1>3, DetIs
  <1>5. Det(m) = a0 * (b1 * c2 - b2 * c1) + a1 * (b2 * c0 - b0 * c2) + a2 * (b0 * c1 - b1 * c0)
    BY <1>1, DetIs
  <1>6. Det(n) = x0 * (y1 * z2 - y2 * z1) + x1 * (y2 * z0 - y0 * z2) + x2 * (y0 * z1 - y1 * z0)
    BY <1>2, DetIs
  <1>7. Det(p) = Det(m) * Det(n)
    BY ONLY <1>4, <1>5, <1>6, ProductOfDets,
            a0 \in Int, a1 \in Int, a2 \in Int, b0 \in Int, b1 \in Int, b2 \in Int,
            c0 \in Int, c1 \in Int, c2 \in Int, x0 \in Int, x1 \in Int, x2 \in Int,
            y0 \in Int, y1 \in Int, y2 \in Int, z0 \in Int, z1 \in Int, z2 \in Int
  <1> QED
    BY <1>7 DEF p

(* The matrices clients have: their inverses are integers.                 *)
Turning(m) == m \in Mat /\ Det(m) \in {-1, 1}

LEMMA InvDetIs == ASSUME NEW m, Turning(m) PROVE InvDet(m) = Det(m) /\ Det(m) * Det(m) = 1
  <1>1. Det(m) \in {-1, 1}
    BY DEF Turning
  <1>2. Det(m) * Det(m) = 1
    BY <1>1
  <1>3. \A inv \in {-1, 1} : inv * Det(m) = 1 => inv = Det(m)
    BY <1>1
  <1> QED
    BY <1>1, <1>2, <1>3 DEF InvDet

LEMMA InverseIs ==
    ASSUME NEW m, Turning(m)
    PROVE  /\ InverseOf(m) \in Mat /\ InverseTranspose(m) \in Mat
           /\ \A i, o \in Dims : /\ InverseOf(m)[i][o] = Minor(m, o, i) * Det(m)
                                 /\ InverseTranspose(m)[i][o] = Minor(m, i, o) * Det(m)
  <1>1. InvDet(m) = Det(m) /\ Det(m) \in Int /\ m \in Mat
    BY InvDetIs DEF Turning
  <1>2. \A i, o \in Dims : Minor(m, i, o) * InvDet(m) \in Int
    BY <1>1, MinorIs
  <1>3. \A i \in Dims, o \in 0 .. 3 : m[i][o] \in Int
    BY <1>1, ColumnsAre
  <1>4. InverseOf(m) \in Mat /\ InverseTranspose(m) \in Mat
    BY <1>2, <1>3 DEF InverseOf, InverseTranspose, Mat
  <1>5. \A i, o \in Dims : /\ InverseOf(m)[i][o] = Minor(m, o, i) * InvDet(m)
                           /\ InverseTranspose(m)[i][o] = Minor(m, i, o) * InvDet(m)
    BY DimsAre DEF InverseOf, InverseTranspose
  <1> QED
    BY <1>1, <1>4, <1>5

(* The minors of a column, with another column or with their own.          *)
LEMMA MinorsMeet ==
    ASSUME NEW m \in Mat, NEW i \in Dims, NEW o \in Dims
    PROVE  m[0][i] * Minor(m, 0, o) + m[1][i] * Minor(m, 1, o) + m[2][i] * Minor(m, 2, o)
              = IF i = o THEN Det(m) ELSE 0
  <1> \A p, q \in Dims : m[p][q] \in Int
    BY ColumnsAre
  <1>1. PICK a0 \in Int, a1 \in Int, a2 \in Int, b0 \in Int, b1 \in Int, b2 \in Int, c0 \in Int, c1 \in Int, c2 \in Int :
            NineEntries(m, a0, a1, a2, b0, b1, b2, c0, c1, c2)
    BY DimsAre DEF NineEntries
  <1>2. Det(m) = a0 * (b1 * c2 - b2 * c1) + a1 * (b2 * c0 - b0 * c2) + a2 * (b0 * c1 - b1 * c0)
    BY <1>1, DetIs
  <1>3. /\ Minor(m, 0, 0) = b1 * c2 - b2 * c1 /\ Minor(m, 0, 1) = b2 * c0 - b0 * c2 /\ Minor(m, 0, 2) = b0 * c1 - b1 * c0
        /\ Minor(m, 1, 0) = c1 * a2 - c2 * a1 /\ Minor(m, 1, 1) = c2 * a0 - c0 * a2 /\ Minor(m, 1, 2) = c0 * a1 - c1 * a0
        /\ Minor(m, 2, 0) = a1 * b2 - a2 * b1 /\ Minor(m, 2, 1) = a2 * b0 - a0 * b2 /\ Minor(m, 2, 2) = a0 * b1 - a1 * b0
    BY <1>1, DimsAre DEF Minor, NineEntries
  <1>4. i \in {0, 1, 2} /\ o \in {0, 1, 2}
    BY DimsAre
  <1>5. /\ m[0][0] = a0 /\ m[0][1] = a1 /\ m[0][2] = a2
        /\ m[1][0] = b0 /\ m[1][1] = b1 /\ m[1][2] = b2
        /\ m[2][0] = c0 /\ m[2][1] = c1 /\ m[2][2] = c2
    BY <1>1 DEF NineEntries
  <1>6. CASE o = 0
    <2>1. /\ a0 * (b1 * c2 - b2 * c1) + b0 * (c1 * a2 - c2 * a1) + c0 * (a1 * b2 - a2 * b1)
                = a0 * (b1 * c2 - b2 * c1) + a1 * (b2 * c0 - b0 * c2) + a2 * (b0 * c1 - b1 * c0)
          /\ a1 * (b1 * c2 - b2 * c1) + b1 * (c1 * a2 - c2 * a1) + c1 * (a1 * b2 - a2 * b1) = 0
          /\ a2 * (b1 * c2 - b2 * c1) + b2 * (c1 * a2 - c2 * a1) + c2 * (a1 * b2 - a2 * b1) = 0
      OBVIOUS
    <2> QED
      BY <1>2, <1>3, <1>4, <1>5, <1>6, <2>1
  <1>7. CASE o = 1
    <2>1. /\ a1 * (b2 * c0 - b0 * c2) + b1 * (c2 * a0 - c0 * a2) + c1 * (a2 * b0 - a0 * b2)
                = a0 * (b1 * c2 - b2 * c1) + a1 * (b2 * c0 - b0 * c2) + a2 * (b0 * c1 - b1 * c0)
          /\ a0 * (b2 * c0 - b0 * c2) + b0 * (c2 * a0 - c0 * a2) + c0 * (a2 * b0 - a0 * b2) = 0
          /\ a2 * (b2 * c0 - b0 * c2) + b2 * (c2 * a0 - c0 * a2) + c2 * (a2 * b0 - a0 * b2) = 0
      OBVIOUS
    <2> QED
      BY <1>2, <1>3, <1>4, <1>5, <1>7, <2>1
  <1>8. CASE o = 2
    <2>1. /\ a2 * (b0 * c1 - b1 * c0) + b2 * (c0 * a1 - c1 * a0) + c2 * (a0 * b1 - a1 * b0)
                = a0 * (b1 * c2 - b2 * c1) + a1 * (b2 * c0 - b0 * c2) + a2 * (b0 * c1 - b1 * c0)
          /\ a0 * (b0 * c1 - b1 * c0) + b0 * (c0 * a1 - c1 * a0) + c0 * (a0 * b1 - a1 * b0) = 0
          /\ a1 * (b0 * c1 - b1 * c0) + b1 * (c0 * a1 - c1 * a0) + c1 * (a0 * b1 - a1 * b0) = 0
      OBVIOUS
    <2> QED
      BY <1>2, <1>3, <1>4, <1>5, <1>8, <2>1
  <1> QED
    BY <1>4, <1>6, <1>7, <1>8

LEMMA RotateIs ==
    ASSUME NEW m \in Mat, NEW x \in Vec3
    PROVE  /\ Vector3Rotate(m, x) \in Vec3
           /\ \A i \in Dims : Vector3Rotate(m, x)[i] = x[0] * m[i][0] + x[1] * m[i][1] + x[2] * m[i][2]
  <1>1. \A i, o \in Dims : x[i] \in Int /\ m[i][o] \in Int
    BY ColumnsAre DEF Vec3
  <1>2. \A i \in Dims : Dot(x, m[i]) \in Int
    BY <1>1, DotIs
  <1>3. Vector3Rotate(m, x) \in Vec3
    BY <1>2 DEF Vector3Rotate, Vec3
  <1> QED
    BY <1>3 DEF Vector3Rotate, Dot

(* A vector turned by the matrix, along the minors of a column.            *)
LEMMA TurnedBack ==
    ASSUME NEW m, Turning(m), NEW x \in Vec3, NEW o \in Dims, NEW r,
           \A k \in Dims : r[k] = Minor(m, k, o) * Det(m)
    PROVE  Dot(Vector3Rotate(m, x), r) = x[o]
  <1> DEFINE y == Vector3Rotate(m, x)
             Meet(i) == m[0][i] * Minor(m, 0, o) + m[1][i] * Minor(m, 1, o) + m[2][i] * Minor(m, 2, o)
  <1>1. m \in Mat /\ Det(m) \in {-1, 1} /\ Det(m) * Det(m) = 1
    BY InvDetIs DEF Turning
  <1>2. /\ x[0] \in Int /\ x[1] \in Int /\ x[2] \in Int
        /\ \A i, k \in Dims : m[i][k] \in Int /\ Minor(m, i, o) \in Int
    BY <1>1, ColumnsAre, MinorIs, DimsAre DEF Vec3
  <1>3. \A i \in Dims : y[i] = x[0] * m[i][0] + x[1] * m[i][1] + x[2] * m[i][2]
    BY <1>1, RotateIs
  <1>4. \A i \in Dims : Meet(i) = IF i = o THEN Det(m) ELSE 0
    BY <1>1, MinorsMeet
  <1> HIDE DEF y
  <1>5. PICK a0 \in Int, a1 \in Int, a2 \in Int, b0 \in Int, b1 \in Int, b2 \in Int, c0 \in Int, c1 \in Int, c2 \in Int :
            NineEntries(m, a0, a1, a2, b0, b1, b2, c0, c1, c2)
    BY <1>2, DimsAre DEF NineEntries
  <1>6. PICK n0 \in Int, n1 \in Int, n2 \in Int :
            n0 = Minor(m, 0, o) /\ n1 = Minor(m, 1, o) /\ n2 = Minor(m, 2, o)
    BY <1>2, DimsAre
  <1>7. PICK d \in Int : d = Det(m) /\ d * d = 1
    BY <1>1
  <1>8. PICK x0 \in Int, x1 \in Int, x2 \in Int : x0 = x[0] /\ x1 = x[1] /\ x2 = x[2]
    BY <1>2
  <1>9. /\ y[0] = x0 * a0 + x1 * a1 + x2 * a2
        /\ y[1] = x0 * b0 + x1 * b1 + x2 * b2
        /\ y[2] = x0 * c0 + x1 * c1 + x2 * c2
    BY <1>3, <1>5, <1>8, DimsAre DEF NineEntries
  <1>10. r[0] = n0 * d /\ r[1] = n1 * d /\ r[2] = n2 * d
    BY <1>6, <1>7, DimsAre
  <1>11. /\ Meet(0) = a0 * n0 + b0 * n1 + c0 * n2
         /\ Meet(1) = a1 * n0 + b1 * n1 + c1 * n2
         /\ Meet(2) = a2 * n0 + b2 * n1 + c2 * n2
    BY <1>5, <1>6 DEF NineEntries
  <1> HIDE DEF Meet
  <1>12. PICK m0 \in Int, m1 \in Int, m2 \in Int :
            /\ m0 = a0 * n0 + b0 * n1 + c0 * n2
            /\ m1 = a1 * n0 + b1 * n1 + c1 * n2
            /\ m2 = a2 * n0 + b2 * n1 + c2 * n2
    OBVIOUS
  <1>13. Dot(y, r) = (x0 * a0 + x1 * a1 + x2 * a2) * (n0 * d) + (x0 * b0 + x1 * b1 + x2 * b2) * (n1 * d)
                        + (x0 * c0 + x1 * c1 + x2 * c2) * (n2 * d)
    BY <1>9, <1>10 DEF Dot
  <1>14. (x0 * a0 + x1 * a1 + x2 * a2) * (n0 * d) + (x0 * b0 + x1 * b1 + x2 * b2) * (n1 * d)
             + (x0 * c0 + x1 * c1 + x2 * c2) * (n2 * d)
         = d * (x0 * (a0 * n0 + b0 * n1 + c0 * n2) + x1 * (a1 * n0 + b1 * n1 + c1 * n2)
                   + x2 * (a2 * n0 + b2 * n1 + c2 * n2))
    BY ONLY a0 \in Int, a1 \in Int, a2 \in Int, b0 \in Int, b1 \in Int, b2 \in Int,
            c0 \in Int, c1 \in Int, c2 \in Int, x0 \in Int, x1 \in Int, x2 \in Int,
            n0 \in Int, n1 \in Int, n2 \in Int, d \in Int
  <1>15. Dot(y, r) = d * (x0 * m0 + x1 * m1 + x2 * m2)
    BY <1>12, <1>13, <1>14
  <1>16. m0 = Meet(0) /\ m1 = Meet(1) /\ m2 = Meet(2)
    BY <1>11, <1>12
  <1>17. m0 = (IF o = 0 THEN d ELSE 0) /\ m1 = (IF o = 1 THEN d ELSE 0) /\ m2 = (IF o = 2 THEN d ELSE 0)
    BY <1>4, <1>7, <1>16, DimsAre
  <1>18. d * (x0 * m0 + x1 * m1 + x2 * m2) = x[o]
    <2>1. d * (x0 * d) = x0 /\ d * (x1 * d) = x1 /\ d * (x2 * d) = x2
      <3>1. d * (x0 * d) = x0 * (d * d) /\ d * (x1 * d) = x1 * (d * d) /\ d * (x2 * d) = x2 * (d * d)
        OBVIOUS
      <3> QED
        BY <1>7, <3>1
    <2>2. o \in {0, 1, 2}
      BY DimsAre
    <2>3. CASE o = 0
      <3>1. m0 = d /\ m1 = 0 /\ m2 = 0
        BY <1>17, <2>3
      <3>2. x0 * m0 + x1 * m1 + x2 * m2 = x0 * d
        BY <3>1
      <3> QED
        BY <1>8, <2>1, <2>3, <3>2
    <2>4. CASE o = 1
      <3>1. m0 = 0 /\ m1 = d /\ m2 = 0
        BY <1>17, <2>4
      <3>2. x0 * m0 + x1 * m1 + x2 * m2 = x1 * d
        BY <3>1
      <3> QED
        BY <1>8, <2>1, <2>4, <3>2
    <2>5. CASE o = 2
      <3>1. m0 = 0 /\ m1 = 0 /\ m2 = d
        BY <1>17, <2>5
      <3>2. x0 * m0 + x1 * m1 + x2 * m2 = x2 * d
        BY <3>1
      <3> QED
        BY <1>8, <2>1, <2>5, <3>2
    <2> QED
      BY <2>2, <2>3, <2>4, <2>5
  <1> QED
    BY <1>15, <1>18 DEF y

(* Both inverses turn back what the matrix turned.                         *)
LEMMA InversesTurnBack ==
    ASSUME NEW m, Turning(m), NEW x \in Vec3
    PROVE  /\ Vector3Rotate(InverseOf(m), Vector3Rotate(m, x)) = x
           /\ Vector3IRotate(InverseTranspose(m), Vector3Rotate(m, x)) = x
  <1> DEFINE y == Vector3Rotate(m, x)
             inv == InverseOf(m)
             it == InverseTranspose(m)
  <1>1. /\ inv \in Mat /\ it \in Mat
        /\ \A i, k \in Dims : inv[i][k] = Minor(m, k, i) * Det(m) /\ it[i][k] = Minor(m, i, k) * Det(m)
    BY InverseIs
  <1>2. \A i, k \in Dims : Rotate(it)[i][k] = it[k][i]
    BY <1>1, ColumnsAre, DimsAre
  <1> HIDE DEF inv, it
  <1>3. \A i \in Dims : Dot(y, inv[i]) = x[i] /\ Dot(y, Rotate(it)[i]) = x[i]
    BY <1>1, <1>2, TurnedBack
  <1>4. x = [i \in Dims |-> x[i]]
    BY DEF Vec3
  <1> HIDE DEF y
  <1>5. Vector3Rotate(inv, y) = x /\ Vector3IRotate(it, y) = x
    BY <1>3, <1>4 DEF Vector3Rotate, Vector3IRotate
  <1> QED
    BY <1>5 DEF inv, it, y

(* The rows of a rotation are the columns of its inverse.                  *)
LEMMA ColumnsTurnBack ==
    ASSUME NEW m, Turning(m), Orthogonal(m), NEW x \in Vec3
    PROVE  Vector3IRotate(m, Vector3Rotate(m, x)) = x
  <1>1. m \in Mat /\ Det(m) \in Int
    BY DEF Turning
  <1>2. ASSUME NEW k \in Dims, NEW o \in Dims PROVE m[k][o] = Minor(m, k, o) * Det(m)
    <2> DEFINE row == [i \in Dims |-> m[k][i]]
               r == [i \in Dims |-> Minor(m, i, o) * Det(m)]
               y == Vector3Rotate(m, row)
    <2>1. row \in Vec3 /\ \A i \in Dims : row[i] = m[k][i]
      BY <1>1, ColumnsAre DEF Vec3
    <2>2. \A i \in Dims : r[i] = Minor(m, i, o) * Det(m)
      OBVIOUS
    <2> HIDE DEF row, r
    <2>3. Dot(y, r) = m[k][o]
      BY <2>1, <2>2, TurnedBack
    <2>4. \A i \in Dims : y[i] = IF k = i THEN 1 ELSE 0
      <3>1. \A i \in Dims : y[i] = row[0] * m[i][0] + row[1] * m[i][1] + row[2] * m[i][2]
        BY <1>1, <2>1, RotateIs
      <3>2. \A i \in Dims : Dot(m[k], m[i]) = IF k = i THEN 1 ELSE 0
        BY DEF Orthogonal
      <3>3. row[0] = m[k][0] /\ row[1] = m[k][1] /\ row[2] = m[k][2]
        BY <2>1, DimsAre
      <3> QED
        BY <3>1, <3>2, <3>3 DEF Dot
    <2> HIDE DEF y
    <2>5. \A i \in Dims : r[i] \in Int
      BY <1>1, <2>2, MinorIs
    <2>6. k \in {0, 1, 2} /\ r[0] \in Int /\ r[1] \in Int /\ r[2] \in Int
      BY <2>5, DimsAre
    <2>7. Dot(y, r) = y[0] * r[0] + y[1] * r[1] + y[2] * r[2]
      BY DEF Dot
    <2>8. y[0] = (IF k = 0 THEN 1 ELSE 0) /\ y[1] = (IF k = 1 THEN 1 ELSE 0) /\ y[2] = (IF k = 2 THEN 1 ELSE 0)
      BY <2>4, DimsAre
    <2>9. Dot(y, r) = r[k]
      <3>1. CASE k = 0
        <4>1. y[0] = 1 /\ y[1] = 0 /\ y[2] = 0
          BY <2>8, <3>1
        <4> QED
          BY <2>6, <2>7, <3>1, <4>1
      <3>2. CASE k = 1
        <4>1. y[0] = 0 /\ y[1] = 1 /\ y[2] = 0
          BY <2>8, <3>2
        <4> QED
          BY <2>6, <2>7, <3>2, <4>1
      <3>3. CASE k = 2
        <4>1. y[0] = 0 /\ y[1] = 0 /\ y[2] = 1
          BY <2>8, <3>3
        <4> QED
          BY <2>6, <2>7, <3>3, <4>1
      <3> QED
        BY <2>6, <3>1, <3>2, <3>3
    <2> QED
      BY <2>2, <2>3, <2>9
  <1>3. \A i, k \in Dims : Rotate(m)[i][k] = m[k][i]
    BY <1>1, ColumnsAre, DimsAre
  <1>4. \A i \in Dims : Dot(Vector3Rotate(m, x), Rotate(m)[i]) = x[i]
    BY <1>2, <1>3, TurnedBack
  <1>5. x = [i \in Dims |-> x[i]]
    BY DEF Vec3
  <1> QED
    BY <1>4, <1>5 DEF Vector3IRotate

(* A point moved by the matrix and back.                                   *)
LEMMA TransformsTurnBack ==
    ASSUME NEW m, Turning(m), Orthogonal(m), NEW x \in Vec3
    PROVE  Vector3ITransform(m, Vector3Transform(m, x)) = x
  <1> DEFINE y == Vector3Rotate(m, x)
             z == Vector3Transform(m, x)
             moved == [i \in Dims |-> z[i] - Rotate(m)[3][i]]
  <1>1. m \in Mat
    BY DEF Turning
  <1>2. y \in Vec3
    BY <1>1, RotateIs
  <1>3. \A i \in Dims : z[i] = y[i] + m[i][3] /\ Rotate(m)[3][i] = m[i][3] /\ m[i][3] \in Int /\ y[i] \in Int
    <2>1. \A i \in Dims : z[i] = y[i] + m[i][3]
      BY DEF Vector3Transform, Vector3Rotate
    <2>2. \A i \in Dims : Rotate(m)[3][i] = m[i][3] /\ m[i][3] \in Int
      BY <1>1, ColumnsAre, DimsAre
    <2>3. \A i \in Dims : y[i] \in Int
      BY <1>2 DEF Vec3
    <2> QED
      BY <2>1, <2>2, <2>3
  <1> HIDE DEF z
  <1>4. y = [i \in Dims |-> y[i]]
    BY <1>2 DEF Vec3
  <1> HIDE DEF y
  <1>5. moved = y
    <2>1. \A i \in Dims : z[i] - Rotate(m)[3][i] = y[i]
      BY <1>3
    <2> QED
      BY <1>4, <2>1
  <1>6. Vector3ITransform(m, z) = Vector3IRotate(m, y)
    BY <1>5 DEF Vector3ITransform, Vector3IRotate
  <1> QED
    BY <1>6, ColumnsTurnBack DEF y, z

(* What clients make of such matrices is such a matrix.                    *)
LEMMA ProductTurns == ASSUME NEW m, NEW n, Turning(m), Turning(n) PROVE Turning(Multiply(m, n))
  <1>1. m \in Mat /\ n \in Mat /\ Det(m) \in {-1, 1} /\ Det(n) \in {-1, 1}
    BY DEF Turning
  <1>2. Multiply(m, n) \in Mat /\ Det(Multiply(m, n)) = Det(m) * Det(n)
    BY <1>1, MultiplyIs, DetOfProduct
  <1>3. Det(m) * Det(n) \in {-1, 1}
    BY <1>1
  <1> QED
    BY <1>2, <1>3 DEF Turning

LEMMA InverseTurns == ASSUME NEW m, Turning(m) PROVE Turning(InverseOf(m))
  <1> DEFINE inv == InverseOf(m)
             p == Multiply(inv, m)
  <1>1. m \in Mat /\ Det(m) \in {-1, 1} /\ Det(m) * Det(m) = 1
    BY InvDetIs DEF Turning
  <1>2. inv \in Mat /\ \A i, k \in Dims : inv[i][k] = Minor(m, k, i) * Det(m)
    BY InverseIs
  <1> HIDE DEF inv
  <1>3. \A i, o \in Dims : p[i][o] = inv[i][0] * m[0][o] + inv[i][1] * m[1][o] + inv[i][2] * m[2][o]
    BY <1>1, <1>2, MultiplyIs
  <1>4. ASSUME NEW i \in Dims, NEW o \in Dims PROVE p[i][o] = IF i = o THEN 1 ELSE 0
    <2>1. m[0][o] * Minor(m, 0, i) + m[1][o] * Minor(m, 1, i) + m[2][o] * Minor(m, 2, i)
              = IF o = i THEN Det(m) ELSE 0
      BY <1>1, MinorsMeet
    <2>2. PICK u0 \in Int, u1 \in Int, u2 \in Int, n0 \in Int, n1 \in Int, n2 \in Int, d \in Int :
              /\ u0 = m[0][o] /\ u1 = m[1][o] /\ u2 = m[2][o]
              /\ n0 = Minor(m, 0, i) /\ n1 = Minor(m, 1, i) /\ n2 = Minor(m, 2, i) /\ d = Det(m)
      <3>1. m[0][o] \in Int /\ m[1][o] \in Int /\ m[2][o] \in Int
        BY <1>1, ColumnsAre, DimsAre
      <3>2. Minor(m, 0, i) \in Int /\ Minor(m, 1, i) \in Int /\ Minor(m, 2, i) \in Int /\ Det(m) \in Int
        BY <1>1, MinorIs, DimsAre
      <3> QED
        BY <3>1, <3>2
    <2>3. p[i][o] = (n0 * d) * u0 + (n1 * d) * u1 + (n2 * d) * u2
      BY <1>2, <1>3, <2>2, DimsAre
    <2>4. (n0 * d) * u0 + (n1 * d) * u1 + (n2 * d) * u2 = d * (u0 * n0 + u1 * n1 + u2 * n2)
      BY ONLY u0 \in Int, u1 \in Int, u2 \in Int, n0 \in Int, n1 \in Int, n2 \in Int, d \in Int
    <2>5. p[i][o] = d * (u0 * n0 + u1 * n1 + u2 * n2)
      BY <2>3, <2>4
    <2>6. u0 * n0 + u1 * n1 + u2 * n2 = IF o = i THEN d ELSE 0
      BY <2>1, <2>2
    <2>7. d * d = 1 /\ d * 0 = 0
      BY <1>1, <2>2
    <2> HIDE DEF p
    <2> QED
      BY <2>5, <2>6, <2>7
  <1> HIDE DEF p
  <1>5. NineEntries(p, 1, 0, 0, 0, 1, 0, 0, 0, 1)
    BY <1>4, DimsAre DEF NineEntries
  <1>6. Det(p) = 1 * (1 * 1 - 0 * 0) + 0 * (0 * 0 - 0 * 1) + 0 * (0 * 0 - 1 * 0)
    BY <1>5, DetIs
  <1>7. Det(inv) * Det(m) = 1
    BY <1>1, <1>2, <1>6, DetOfProduct DEF p
  <1>8. Det(inv) \in Int
    BY <1>2, DetTyped
  <1>9. Det(inv) \in {-1, 1}
    BY <1>1, <1>7, <1>8
  <1> QED
    BY <1>2, <1>9 DEF Turning, inv

LEMMA IdentityTurns == Turning(Identity) /\ \A x \in Vec3 : Vector3Rotate(Identity, x) = x
  <1>1. Identity \in Mat
    BY DEF Identity, Mat
  <1>2. \A i, o \in Dims : Identity[i][o] = IF i = o THEN 1 ELSE 0
    BY DimsAre DEF Identity
  <1>3. NineEntries(Identity, 1, 0, 0, 0, 1, 0, 0, 0, 1)
    BY <1>2, DimsAre DEF NineEntries
  <1>4. Det(Identity) = 1 * (1 * 1 - 0 * 0) + 0 * (0 * 0 - 0 * 1) + 0 * (0 * 0 - 1 * 0)
    BY <1>3, DetIs
  <1>5. ASSUME NEW x \in Vec3 PROVE Vector3Rotate(Identity, x) = x
    <2>1. /\ Vector3Rotate(Identity, x) \in Vec3
          /\ \A i \in Dims : Vector3Rotate(Identity, x)[i]
                = x[0] * Identity[i][0] + x[1] * Identity[i][1] + x[2] * Identity[i][2]
      BY <1>1, RotateIs
    <2>2. x[0] \in Int /\ x[1] \in Int /\ x[2] \in Int
      BY DimsAre DEF Vec3
    <2>3. ASSUME NEW i \in Dims PROVE Vector3Rotate(Identity, x)[i] = x[i]
      <3>1. i \in {0, 1, 2}
        BY DimsAre
      <3>2. CASE i = 0
        BY <1>3, <2>1, <2>2, <3>2 DEF NineEntries
      <3>3. CASE i = 1
        BY <1>3, <2>1, <2>2, <3>3 DEF NineEntries
      <3>4. CASE i = 2
        BY <1>3, <2>1, <2>2, <3>4 DEF NineEntries
      <3> QED
        BY <3>1, <3>2, <3>3, <3>4
    <2> QED
      BY <2>1, <2>3 DEF Vec3
  <1> QED
    BY <1>1, <1>4, <1>5 DEF Turning

(* A product turns by one factor after the other.                          *)
LEMMA ProductRotates ==
    ASSUME NEW m \in Mat, NEW n \in Mat, NEW x \in Vec3
    PROVE  Vector3Rotate(Multiply(m, n), x) = Vector3Rotate(m, Vector3Rotate(n, x))
  <1> DEFINE p == Multiply(m, n)
             y == Vector3Rotate(n, x)
             z == Vector3Rotate(m, y)
  <1>1. p \in Mat /\ \A i, o \in Dims : p[i][o] = m[i][0] * n[0][o] + m[i][1] * n[1][o] + m[i][2] * n[2][o]
    BY MultiplyIs
  <1>2. y \in Vec3 /\ \A i \in Dims : y[i] = x[0] * n[i][0] + x[1] * n[i][1] + x[2] * n[i][2]
    BY RotateIs
  <1> HIDE DEF p, y
  <1>3. z \in Vec3 /\ \A i \in Dims : z[i] = y[0] * m[i][0] + y[1] * m[i][1] + y[2] * m[i][2]
    BY <1>2, RotateIs
  <1>4. Vector3Rotate(p, x) \in Vec3
        /\ \A i \in Dims : Vector3Rotate(p, x)[i] = x[0] * p[i][0] + x[1] * p[i][1] + x[2] * p[i][2]
    BY <1>1, RotateIs
  <1> HIDE DEF z
  <1>5. ASSUME NEW i \in Dims PROVE Vector3Rotate(p, x)[i] = z[i]
    <2>1. PICK u0 \in Int, u1 \in Int, u2 \in Int : u0 = m[i][0] /\ u1 = m[i][1] /\ u2 = m[i][2]
      BY ColumnsAre, DimsAre
    <2>2. PICK x0 \in Int, x1 \in Int, x2 \in Int : x0 = x[0] /\ x1 = x[1] /\ x2 = x[2]
      BY DimsAre DEF Vec3
    <2>3. \A k, o \in Dims : n[k][o] \in Int
      BY ColumnsAre
    <2>4. PICK a0 \in Int, a1 \in Int, a2 \in Int, b0 \in Int, b1 \in Int, b2 \in Int, c0 \in Int, c1 \in Int, c2 \in Int :
              NineEntries(n, a0, a1, a2, b0, b1, b2, c0, c1, c2)
      BY <2>3, DimsAre DEF NineEntries
    <2>5. /\ p[i][0] = u0 * a0 + u1 * b0 + u2 * c0
          /\ p[i][1] = u0 * a1 + u1 * b1 + u2 * c1
          /\ p[i][2] = u0 * a2 + u1 * b2 + u2 * c2
      BY <1>1, <2>1, <2>4, DimsAre DEF NineEntries
    <2>6. /\ y[0] = x0 * a0 + x1 * a1 + x2 * a2
          /\ y[1] = x0 * b0 + x1 * b1 + x2 * b2
          /\ y[2] = x0 * c0 + x1 * c1 + x2 * c2
      BY <1>2, <2>2, <2>4, DimsAre DEF NineEntries
    <2>7. z[i] = (x0 * a0 + x1 * a1 + x2 * a2) * u0 + (x0 * b0 + x1 * b1 + x2 * b2) * u1
                    + (x0 * c0 + x1 * c1 + x2 * c2) * u2
      BY <1>3, <2>1, <2>6
    <2>8. Vector3Rotate(p, x)[i] = x0 * (u0 * a0 + u1 * b0 + u2 * c0) + x1 * (u0 * a1 + u1 * b1 + u2 * c1)
                                      + x2 * (u0 * a2 + u1 * b2 + u2 * c2)
      BY <1>4, <2>2, <2>5
    <2>9. x0 * (u0 * a0 + u1 * b0 + u2 * c0) + x1 * (u0 * a1 + u1 * b1 + u2 * c1)
              + x2 * (u0 * a2 + u1 * b2 + u2 * c2)
          = (x0 * a0 + x1 * a1 + x2 * a2) * u0 + (x0 * b0 + x1 * b1 + x2 * b2) * u1
              + (x0 * c0 + x1 * c1 + x2 * c2) * u2
      BY ONLY a0 \in Int, a1 \in Int, a2 \in Int, b0 \in Int, b1 \in Int, b2 \in Int,
              c0 \in Int, c1 \in Int, c2 \in Int, x0 \in Int, x1 \in Int, x2 \in Int,
              u0 \in Int, u1 \in Int, u2 \in Int
    <2> QED
      BY <2>7, <2>8, <2>9
  <1>6. Vector3Rotate(p, x) = z
    BY <1>3, <1>4, <1>5 DEF Vec3
  <1> QED
    BY <1>6 DEF p, y, z

(* y is what x becomes by one matrix of f after the other.                 *)
TurnsTo(f, x, y) ==
    \E g \in [0 .. Len(f) -> Vec3] :
        /\ g[0] = x /\ g[Len(f)] = y
        /\ \A k \in 1 .. Len(f) : g[k] = Vector3Rotate(f[k], g[k - 1])

LEMMA TurnsByOne ==
    ASSUME NEW m \in Mat, NEW x \in Vec3
    PROVE  TurnsTo(<<m>>, x, Vector3Rotate(m, x))
  <1> DEFINE y == Vector3Rotate(m, x)
             g == [k \in 0 .. 1 |-> IF k = 0 THEN x ELSE y]
  <1>1. y \in Vec3
    BY RotateIs
  <1>2. Len(<<m>>) = 1 /\ <<m>>[1] = m /\ 1 .. 1 = {1} /\ 0 .. 1 = {0, 1}
    OBVIOUS
  <1>3. y = Vector3Rotate(m, x)
    OBVIOUS
  <1> HIDE DEF y
  <1>4. g \in [0 .. 1 -> Vec3] /\ g[0] = x /\ g[1] = y
    BY <1>1
  <1> HIDE DEF g
  <1>5. \A k \in 1 .. 1 : g[k] = Vector3Rotate(<<m>>[k], g[k - 1])
    BY <1>2, <1>3, <1>4
  <1> QED
    BY <1>2, <1>3, <1>4, <1>5 DEF TurnsTo

LEMMA TurnsByMore ==
    ASSUME NEW f \in Seq(Mat), NEW m \in Mat, NEW x \in Vec3, NEW y, TurnsTo(f, Vector3Rotate(m, x), y)
    PROVE  TurnsTo(<<m>> \o f, x, y)
  <1> DEFINE e == <<m>> \o f
             L == Len(f)
  <1>1. PICK g \in [0 .. L -> Vec3] :
            /\ g[0] = Vector3Rotate(m, x) /\ g[L] = y
            /\ \A k \in 1 .. L : g[k] = Vector3Rotate(f[k], g[k - 1])
    BY DEF TurnsTo
  <1>2. L \in Nat /\ Len(e) = L + 1 /\ e[1] = m /\ \A k \in 1 .. L : e[k + 1] = f[k]
    OBVIOUS
  <1> DEFINE h == [k \in 0 .. L + 1 |-> IF k = 0 THEN x ELSE g[k - 1]]
  <1> HIDE DEF e, L
  <1>3. h \in [0 .. L + 1 -> Vec3] /\ h[0] = x /\ h[L + 1] = y
        /\ \A k \in 1 .. L + 1 : h[k] = g[k - 1]
    <2>1. \A k \in 0 .. L + 1 : k # 0 => k - 1 \in 0 .. L /\ k \in 1 .. L + 1
      BY <1>2
    <2>2. \A k \in 1 .. L + 1 : k \in 0 .. L + 1 /\ k # 0
      BY <1>2
    <2>3. L + 1 \in 1 .. L + 1 /\ (L + 1) - 1 = L /\ 0 \in 0 .. L + 1
      BY <1>2
    <2>4. h \in [0 .. L + 1 -> Vec3]
      BY <1>1, <2>1
    <2> QED
      BY <1>1, <2>2, <2>3, <2>4
  <1> HIDE DEF h
  <1>4. ASSUME NEW k \in 1 .. L + 1 PROVE h[k] = Vector3Rotate(e[k], h[k - 1])
    <2>1. CASE k = 1
      BY <1>1, <1>2, <1>3, <2>1
    <2>2. CASE k # 1
      <3>1. k - 1 \in 1 .. L /\ k - 1 \in 1 .. L + 1 /\ (k - 1) + 1 = k
        BY <1>2, <2>2
      <3>2. h[k] = g[k - 1] /\ h[k - 1] = g[(k - 1) - 1]
        BY <1>3, <3>1
      <3>3. g[k - 1] = Vector3Rotate(f[k - 1], g[(k - 1) - 1]) /\ e[k] = f[k - 1]
        BY <1>1, <1>2, <3>1
      <3> QED
        BY <3>2, <3>3
    <2> QED
      BY <2>1, <2>2
  <1>5. TurnsTo(e, x, y)
    BY <1>2, <1>3, <1>4 DEF TurnsTo
  <1> QED
    BY <1>5 DEF e

LEMMA FoldTurns ==
    ASSUME NEW f \in Seq(Mat), NEW x \in Vec3, NEW y, TurnsTo(f, x, y)
    PROVE  FoldLeft(LAMBDA v, m : Vector3Rotate(m, v), x, f) = y
  <1> DEFINE n == Len(f)
             iter[u \in SUBSET (DOMAIN f)] ==
                 IF u = {} THEN x ELSE Vector3Rotate(f[Max(u)], iter[u \ {Max(u)}])
             step == [k \in 1 .. n |-> [v \in Vec3 |-> Vector3Rotate(f[k], v)]]
  <1>1. FoldLeft(LAMBDA v, m : Vector3Rotate(m, v), x, f) = iter[DOMAIN f]
    BY DEF FoldLeft, MapThenFoldSet
  <1>2. n \in Nat /\ DOMAIN f = 1 .. n /\ \A k \in 1 .. n : f[k] \in Mat
    OBVIOUS
  <1> HIDE DEF n
  <1>3. step \in [1 .. n -> [Vec3 -> Vec3]]
    BY <1>2, RotateIs
  <1>4. \A k \in 1 .. n : \A v \in Vec3 : step[k][v] = Vector3Rotate(f[k], v)
    OBVIOUS
  <1> HIDE DEF step
  <1>5. HasFold(Vec3, x, step, n)
    BY <1>2, <1>3, FoldsExist
  <1>6. PICK h \in [SUBSET (1 .. n) -> Vec3] : FoldsLeft(h, x, step, n)
    BY <1>5 DEF HasFold
  <1>7. \A u \in SUBSET (1 .. n) : u # {} => Max(u) \in 1 .. n
    BY <1>2, MaxIs
  <1>8. \A u \in SUBSET (1 .. n) :
            h[u] = IF u = {} THEN x ELSE Vector3Rotate(f[Max(u)], h[u \ {Max(u)}])
    <2> SUFFICES ASSUME NEW u \in SUBSET (1 .. n)
                 PROVE  h[u] = IF u = {} THEN x ELSE Vector3Rotate(f[Max(u)], h[u \ {Max(u)}])
      OBVIOUS
    <2>1. h[u] = IF u = {} THEN x ELSE step[Max(u)][h[u \ {Max(u)}]]
      BY <1>6 DEF FoldsLeft
    <2>2. u # {} => Max(u) \in 1 .. n /\ h[u \ {Max(u)}] \in Vec3
      BY <1>6, <1>7
    <2> QED
      BY <2>1, <2>2, <1>4
  <1>9. h = [u \in SUBSET (DOMAIN f) |->
                IF u = {} THEN x ELSE Vector3Rotate(f[Max(u)], h[u \ {Max(u)}])]
    BY <1>2, <1>6, <1>8
  <1>10. iter = [u \in SUBSET (DOMAIN f) |->
                IF u = {} THEN x ELSE Vector3Rotate(f[Max(u)], iter[u \ {Max(u)}])]
    BY <1>9
  <1>11. \A u \in SUBSET (1 .. n) :
            iter[u] = IF u = {} THEN x ELSE Vector3Rotate(f[Max(u)], iter[u \ {Max(u)}])
    BY <1>10, <1>2
  <1> HIDE DEF iter
  <1>12. iter[1 .. 0] = x
    <2>1. {} \in SUBSET (1 .. n) /\ 1 .. 0 = {}
      OBVIOUS
    <2> QED
      BY <2>1, <1>11
  <1>13. ASSUME NEW k \in 1 .. n PROVE iter[1 .. k] = Vector3Rotate(f[k], iter[1 .. k - 1])
    <2>1. k \in Nat \ {0} /\ 1 .. k \in SUBSET (1 .. n) /\ 1 .. k # {}
      <3>1. k \in Nat \ {0} /\ k \in 1 .. k /\ \A j \in 1 .. k : j \in 1 .. n
        BY <1>2
      <3> QED
        BY <3>1
    <2>2. Max(1 .. k) = k /\ (1 .. k) \ {k} = 1 .. k - 1
      BY <2>1, MaxOfFirst
    <2> QED
      BY <2>1, <2>2, <1>11
  <1>14. PICK g \in [0 .. n -> Vec3] :
            /\ g[0] = x /\ g[n] = y
            /\ \A k \in 1 .. n : g[k] = Vector3Rotate(f[k], g[k - 1])
    BY DEF TurnsTo, n
  <1> DEFINE T == {k \in Nat : k <= n => iter[1 .. k] = g[k]}
  <1>15. 0 \in T
    BY <1>12, <1>14
  <1>16. ASSUME NEW k \in Nat, k \in T PROVE k + 1 \in T
    <2> SUFFICES ASSUME k + 1 <= n PROVE iter[1 .. k + 1] = g[k + 1]
      OBVIOUS
    <2>1. k + 1 \in 1 .. n /\ (k + 1) - 1 = k /\ k <= n
      BY <1>2
    <2>2. iter[1 .. k] = g[k]
      BY <1>16, <2>1
    <2> HIDE DEF T
    <2> QED
      BY <1>13, <1>14, <2>1, <2>2
  <1>17. n \in T
    <2> HIDE DEF T
    <2>1. \A k \in Nat : k \in T
      BY <1>15, <1>16, Inductive
    <2> QED
      BY <1>2, <2>1
  <1> QED
    <2>1. iter[1 .. n] = y
      BY <1>2, <1>14, <1>17
    <2> HIDE DEF T
    <2>2. iter[DOMAIN f] = y
      BY <1>2, <2>1
    <2> QED
      BY ONLY <1>1, <2>2

(* Elements at once divide the columns.                                    *)
LEMMA ElemsDivide == (Columns \div Elems) * Elems = Columns
  <1> DEFINE S == {1} \union {r \in Registers : Columns % r = 0}
  <1>1. Columns \in Nat \ {0} /\ Registers \subseteq Nat \ {0}
    BY VectorsAssumption DEF VectorsAssumption
  <1>2. ASSUME NEW r \in S
        PROVE  r \in Nat \ {0} /\ r <= Columns /\ (Columns \div r) * r = Columns
    <2>1. r \in Nat \ {0}
      BY <1>1
    <2>2. Columns % r = 0
      <3>1. CASE r = 1
        <4>1. Columns % 1 \in 0 .. 1 - 1
          BY <1>1, DivMod
        <4> QED
          BY <3>1, <4>1
      <3>2. CASE r # 1
        BY <3>2
      <3> QED
        BY <3>1, <3>2
    <2>3. Columns \div r \in Int /\ Columns = r * (Columns \div r) + (Columns % r)
      BY <1>1, <2>1, DivMod
    <2>4. PICK q : q = Columns \div r
      OBVIOUS
    <2>5. PICK c \in Nat \ {0} : c = Columns
      BY <1>1
    <2>6. q \in Int /\ c = r * q + 0
      BY <2>2, <2>3, <2>4, <2>5
    <2>7. q * r = c /\ r <= c
      <3>1. q >= 1
        BY ONLY <2>1, <2>6, c \in Nat \ {0}, q \in Int
      <3> QED
        BY ONLY <2>1, <2>6, <3>1, c \in Nat \ {0}, q \in Int
    <2> QED
      BY <2>1, <2>4, <2>5, <2>7
  <1>3. S \in SUBSET Nat /\ S # {} /\ \A x \in S : x <= Columns
    BY <1>2
  <1>4. Elems = Max(S)
    BY DEF Elems
  <1> HIDE DEF S
  <1>5. \E x \in S : \A y \in S : x >= y
    BY <1>1, <1>3, Greatest
  <1>6. Elems \in S
    BY <1>4, <1>5 DEF Max
  <1> QED
    BY <1>2, <1>6

LEMMA AddUpIs ==
    ASSUME NEW v \in Soa, NEW o \in Cols
    PROVE  AddUp(v)[0][o] = v[0][o] + (v[1][o] + v[2][o])
  <1>1. \A p \in Cols : p < (Columns \div Elems) * Elems
    <2>1. \A p \in Cols : p < Columns
      BY VectorsAssumption DEF VectorsAssumption, Cols
    <2> QED
      BY <2>1, ElemsDivide
  <1>3. \A u \in Soa, d \in {1, 2} :
            AddUpDim(u, d) = [u EXCEPT ![d - 1] = [p \in Cols |-> u[d - 1][p] + u[d][p]]]
    <2> SUFFICES ASSUME NEW u \in Soa, NEW d \in {1, 2}
                 PROVE  AddUpDim(u, d) = [u EXCEPT ![d - 1] = [p \in Cols |-> u[d - 1][p] + u[d][p]]]
      OBVIOUS
    <2>1. [p \in Cols |-> IF p < (Columns \div Elems) * Elems THEN u[d - 1][p] + u[d][p] ELSE u[d - 1][p]]
              = [p \in Cols |-> u[d - 1][p] + u[d][p]]
      BY <1>1
    <2>2. AddUpDim(u, d) = [u EXCEPT ![d - 1] =
              [p \in Cols |-> IF p < (Columns \div Elems) * Elems THEN u[d - 1][p] + u[d][p] ELSE u[d - 1][p]]]
      BY DEF AddUpDim
    <2> QED
      BY <2>1, <2>2
  <1> DEFINE w == AddUpDim(v, 2)
  <1>4. w = [v EXCEPT ![1] = [p \in Cols |-> v[1][p] + v[2][p]]]
    <2>1. 2 - 1 = 1
      OBVIOUS
    <2> QED
      BY <1>3, <2>1
  <1> HIDE DEF w
  <1>5. \A i \in Dims, p \in Cols : v[i][p] \in Int
    BY DEF Soa
  <1>6. w \in Soa
    <2>1. [p \in Cols |-> v[1][p] + v[2][p]] \in [Cols -> Int]
      BY <1>5, DimsAre
    <2> QED
      BY <1>4, <2>1 DEF Soa
  <1>7. w[0] = v[0] /\ w[1] = [p \in Cols |-> v[1][p] + v[2][p]]
    BY <1>4, DimsAre DEF Soa
  <1>8. AddUpDim(w, 1) = [w EXCEPT ![0] = [p \in Cols |-> w[0][p] + w[1][p]]]
    <2>1. 1 - 1 = 0
      OBVIOUS
    <2> QED
      BY <1>3, <1>6, <2>1
  <1>9. AddUpDim(w, 1)[0] = [p \in Cols |-> w[0][p] + w[1][p]]
    BY <1>6, <1>8, DimsAre DEF Soa
  <1>10. AddUp(v) = AddUpDim(w, 1)
    BY DEF AddUp, w
  <1> QED
    BY <1>7, <1>9, <1>10

LEMMA SoaDotIs ==
    ASSUME NEW a \in Soa, NEW b \in Soa, NEW o \in Cols
    PROVE  SoaDot(a, b)[o] = a[0][o] * b[0][o] + a[1][o] * b[1][o] + a[2][o] * b[2][o]
  <1> DEFINE v == SoaMul(a, b)
  <1>1. \A i \in Dims, p \in Cols : a[i][p] \in Int /\ b[i][p] \in Int
    BY DEF Soa
  <1>2. v \in Soa
    BY <1>1 DEF SoaMul, Soa
  <1>3. v[0][o] = a[0][o] * b[0][o] /\ v[1][o] = a[1][o] * b[1][o] /\ v[2][o] = a[2][o] * b[2][o]
    BY DimsAre DEF SoaMul
  <1> HIDE DEF v
  <1>4. AddUp(v)[0][o] = v[0][o] + (v[1][o] + v[2][o])
    BY <1>2, AddUpIs
  <1>5. v[0][o] \in Int /\ v[1][o] \in Int /\ v[2][o] \in Int
    BY <1>2, DimsAre DEF Soa
  <1>6. SoaDot(a, b)[o] = v[0][o] + v[1][o] + v[2][o]
    BY <1>4, <1>5 DEF SoaDot, v
  <1> QED
    BY <1>3, <1>6

LEMMA SoaCrossIs ==
    ASSUME NEW a \in Soa, NEW b \in Soa
    PROVE  SoaCross(a, b) \in Soa
  <1>1. \A i \in Dims : After(i) \in Dims /\ After(After(i)) \in Dims
    BY DimsAre
  <1>2. ASSUME NEW i \in Dims, NEW o \in Cols
        PROVE  a[After(i)][o] * b[After(After(i))][o] - a[After(After(i))][o] * b[After(i)][o] \in Int
    <2>1. /\ a[After(i)][o] \in Int /\ b[After(After(i))][o] \in Int
          /\ a[After(After(i))][o] \in Int /\ b[After(i)][o] \in Int
      BY <1>1 DEF Soa
    <2> QED
      BY <2>1
  <1> QED
    BY <1>2 DEF SoaCross, Soa

(* A cross product stands upright on its factors.                          *)
LEMMA CrossUpright ==
    ASSUME NEW a \in Soa, NEW b \in Soa, NEW o \in Cols
    PROVE  SoaDot(SoaCross(a, b), a)[o] = 0
  <1> DEFINE c == SoaCross(a, b)
  <1>1. /\ c[0][o] = a[1][o] * b[2][o] - a[2][o] * b[1][o]
        /\ c[1][o] = a[2][o] * b[0][o] - a[0][o] * b[2][o]
        /\ c[2][o] = a[0][o] * b[1][o] - a[1][o] * b[0][o]
    BY DimsAre DEF SoaCross
  <1>2. c \in Soa
    BY SoaCrossIs
  <1> HIDE DEF c
  <1>3. SoaDot(c, a)[o] = c[0][o] * a[0][o] + c[1][o] * a[1][o] + c[2][o] * a[2][o]
    BY <1>2, SoaDotIs
  <1>4. PICK a0 \in Int, a1 \in Int, a2 \in Int : a0 = a[0][o] /\ a1 = a[1][o] /\ a2 = a[2][o]
    BY DimsAre DEF Soa
  <1>5. PICK b0 \in Int, b1 \in Int, b2 \in Int : b0 = b[0][o] /\ b1 = b[1][o] /\ b2 = b[2][o]
    BY DimsAre DEF Soa
  <1>6. SoaDot(c, a)[o] = (a1 * b2 - a2 * b1) * a0 + (a2 * b0 - a0 * b2) * a1 + (a0 * b1 - a1 * b0) * a2
    BY <1>1, <1>3, <1>4, <1>5
  <1>7. (a1 * b2 - a2 * b1) * a0 + (a2 * b0 - a0 * b2) * a1 + (a0 * b1 - a1 * b0) * a2 = 0
    BY ONLY a0 \in Int, a1 \in Int, a2 \in Int, b0 \in Int, b1 \in Int, b2 \in Int
  <1> QED
    BY <1>6, <1>7 DEF c

-----------------------------------------------------------------------------
(* What every step keeps.                                                  *)

(* The points of s are p.                                                  *)
HoldsPoints(s, p) ==
    /\ s \in Soa /\ p \in [Cols -> Vec3]
    /\ \A o \in Cols, i \in Dims : s[i][o] = p[o][i]

PoseHeld(m, f) ==
    /\ Turning(m) /\ f \in Seq(Mat)
    /\ \A x \in Vec3 : TurnsTo(f, x, Vector3Rotate(m, x))

VectorsInv ==
    /\ HoldsPoints(soa, points) /\ Turning(pose)
    /\ factors # <<>> => PoseHeld(pose, factors)

LEMMA AccIs ==
    ASSUME NEW s, NEW p, HoldsPoints(s, p), NEW o \in Cols
    PROVE  Acc(s, o) = p[o] /\ p[o] \in Vec3
  <1>1. DOMAIN s = Dims /\ p[o] \in Vec3 /\ \A i \in Dims : s[i][o] = p[o][i]
    BY DEF HoldsPoints, Soa
  <1>2. Acc(s, o) = [i \in Dims |-> p[o][i]]
    BY <1>1 DEF Acc
  <1> QED
    BY <1>1, <1>2 DEF Vec3

LEMMA PoseHeldByOne == ASSUME NEW m, Turning(m) PROVE PoseHeld(m, <<m>>)
  <1>1. m \in Mat /\ <<m>> \in Seq(Mat)
    BY DEF Turning
  <1>2. \A x \in Vec3 : TurnsTo(<<m>>, x, Vector3Rotate(m, x))
    BY <1>1, TurnsByOne
  <1> QED
    BY <1>1, <1>2 DEF PoseHeld

LEMMA PoseHeldByProduct ==
    ASSUME NEW m, NEW f, PoseHeld(m, f), NEW n, Turning(n)
    PROVE  PoseHeld(Multiply(m, n), <<n>> \o f)
  <1>1. m \in Mat /\ n \in Mat /\ f \in Seq(Mat) /\ Turning(m)
    BY DEF PoseHeld, Turning
  <1>2. Turning(Multiply(m, n)) /\ <<n>> \o f \in Seq(Mat)
    BY <1>1, ProductTurns
  <1>3. ASSUME NEW x \in Vec3 PROVE TurnsTo(<<n>> \o f, x, Vector3Rotate(Multiply(m, n), x))
    <2>1. Vector3Rotate(n, x) \in Vec3
      BY <1>1, RotateIs
    <2>2. TurnsTo(f, Vector3Rotate(n, x), Vector3Rotate(m, Vector3Rotate(n, x)))
      BY <2>1 DEF PoseHeld
    <2>3. TurnsTo(<<n>> \o f, x, Vector3Rotate(m, Vector3Rotate(n, x)))
      BY <1>1, <2>2, TurnsByMore
    <2> QED
      BY <1>1, <2>3, ProductRotates
  <1> QED
    BY <1>2, <1>3 DEF PoseHeld

LEMMA VectorsStart == VectorsInit => VectorsInv
  <1> SUFFICES ASSUME VectorsInit PROVE VectorsInv
    OBVIOUS
  <1>1. HoldsPoints(soa, points)
    BY DEF VectorsInit, HoldsPoints, Soa, Vec3, Origin
  <1>2. Turning(pose) /\ factors = <<>>
    BY IdentityTurns DEF VectorsInit
  <1> QED
    BY <1>1, <1>2 DEF VectorsInv

LEMMA AssignRowHolds ==
    ASSUME NEW s, NEW p, HoldsPoints(s, p), NEW c \in Cols, NEW x \in Vec3
    PROVE  HoldsPoints(SetAcc(s, c, x), [p EXCEPT ![c] = x])
  <1> DEFINE t == SetAcc(s, c, x)
             q == [p EXCEPT ![c] = x]
  <1>1. s \in Soa /\ p \in [Cols -> Vec3] /\ \A o \in Cols, i \in Dims : s[i][o] = p[o][i]
    BY DEF HoldsPoints
  <1>2. t = [i \in Dims |-> [s[i] EXCEPT ![c] = x[i]]]
    BY <1>1 DEF SetAcc, Soa
  <1>3. \A i \in Dims, o \in Cols : t[i][o] = IF o = c THEN x[i] ELSE s[i][o]
    BY <1>1, <1>2 DEF Soa
  <1>4. \A o \in Cols : q[o] = IF o = c THEN x ELSE p[o]
    BY <1>1
  <1>5. t \in Soa
    BY <1>1, <1>2 DEF Soa, Vec3
  <1>6. q \in [Cols -> Vec3]
    BY <1>1
  <1> HIDE DEF t, q
  <1>7. HoldsPoints(t, q)
    BY <1>1, <1>3, <1>4, <1>5, <1>6 DEF HoldsPoints
  <1> QED
    BY <1>7 DEF t, q

(* Every dimension of every point becomes new(i, o).                       *)
LEMMA AllHold ==
    ASSUME NEW t, NEW q, NEW n \in Soa,
           t = [i \in Dims |-> [o \in Cols |-> n[i][o]]],
           q = [o \in Cols |-> [i \in Dims |-> n[i][o]]]
    PROVE  HoldsPoints(t, q)
  <1>1. \A i \in Dims, o \in Cols : n[i][o] \in Int
    BY DEF Soa
  <1>2. t \in Soa /\ q \in [Cols -> Vec3]
    BY <1>1 DEF Soa, Vec3
  <1>3. \A i \in Dims, o \in Cols : t[i][o] = q[o][i]
    OBVIOUS
  <1> QED
    BY <1>2, <1>3 DEF HoldsPoints

LEMMA AddRowHolds ==
    ASSUME NEW s, NEW p, HoldsPoints(s, p), NEW c \in Cols, NEW x \in Vec3
    PROVE  HoldsPoints([i \in Dims |-> [s[i] EXCEPT ![c] = @ + x[i]]],
                 [p EXCEPT ![c] = [i \in Dims |-> @[i] + x[i]]])
  <1> DEFINE t == [i \in Dims |-> [s[i] EXCEPT ![c] = @ + x[i]]]
             q == [p EXCEPT ![c] = [i \in Dims |-> @[i] + x[i]]]
  <1>1. s \in Soa /\ p \in [Cols -> Vec3] /\ \A o \in Cols, i \in Dims : s[i][o] = p[o][i]
    BY DEF HoldsPoints
  <1>2. \A i \in Dims, o \in Cols : s[i][o] \in Int /\ x[i] \in Int
    BY <1>1 DEF Soa, Vec3
  <1>3. \A i \in Dims, o \in Cols : t[i][o] = IF o = c THEN s[i][o] + x[i] ELSE s[i][o]
    BY <1>1 DEF Soa
  <1>4. \A o \in Cols : q[o] = IF o = c THEN [i \in Dims |-> p[o][i] + x[i]] ELSE p[o]
    BY <1>1
  <1>5. t \in Soa
    <2>1. ASSUME NEW i \in Dims PROVE [s[i] EXCEPT ![c] = @ + x[i]] \in [Cols -> Int]
      <3>1. s[i] \in [Cols -> Int] /\ s[i][c] + x[i] \in Int
        BY <1>1, <1>2 DEF Soa
      <3> QED
        BY <3>1
    <2> QED
      BY <2>1 DEF Soa
  <1>6. q \in [Cols -> Vec3]
    <2>1. [i \in Dims |-> p[c][i] + x[i]] \in Vec3
      <3>1. \A i \in Dims : p[c][i] + x[i] \in Int
        BY <1>1, <1>2
      <3> QED
        BY <3>1 DEF Vec3
    <2> QED
      BY <1>1, <2>1
  <1> HIDE DEF t, q
  <1>7. HoldsPoints(t, q)
    <2>1. ASSUME NEW o \in Cols, NEW i \in Dims PROVE t[i][o] = q[o][i]
      <3>1. CASE o = c
        <4>1. q[o] = [k \in Dims |-> p[o][k] + x[k]]
          BY <1>4, <3>1
        <4>2. q[o][i] = p[o][i] + x[i]
          BY <4>1
        <4> QED
          BY <1>1, <1>3, <3>1, <4>2
      <3>2. CASE o # c
        BY <1>1, <1>3, <1>4, <3>2
      <3> QED
        BY <3>1, <3>2
    <2> QED
      BY <1>5, <1>6, <2>1 DEF HoldsPoints
  <1> QED
    BY <1>7 DEF t, q

(* One dimension of all points becomes n.                                  *)
LEMMA ColHolds ==
    ASSUME NEW s, NEW p, HoldsPoints(s, p), NEW d \in Dims, NEW n \in [Cols -> Int]
    PROVE  HoldsPoints([s EXCEPT ![d] = n], [o \in Cols |-> [p[o] EXCEPT ![d] = n[o]]])
  <1> DEFINE t == [s EXCEPT ![d] = n]
             q == [o \in Cols |-> [p[o] EXCEPT ![d] = n[o]]]
  <1>1. s \in Soa /\ p \in [Cols -> Vec3] /\ \A o \in Cols, i \in Dims : s[i][o] = p[o][i]
    BY DEF HoldsPoints
  <1>2. t \in Soa /\ \A i \in Dims : t[i] = IF i = d THEN n ELSE s[i]
    BY <1>1 DEF Soa
  <1>3. \A o \in Cols : q[o] \in Vec3 /\ \A i \in Dims : q[o][i] = IF i = d THEN n[o] ELSE p[o][i]
    BY <1>1 DEF Vec3
  <1>4. q \in [Cols -> Vec3]
    BY <1>3
  <1> HIDE DEF t, q
  <1>5. HoldsPoints(t, q)
    BY <1>1, <1>2, <1>3, <1>4 DEF HoldsPoints
  <1> QED
    BY <1>5 DEF t, q

LEMMA MulColHolds ==
    ASSUME NEW s, NEW p, HoldsPoints(s, p), NEW d \in Dims, NEW y \in [Cols -> Int]
    PROVE  HoldsPoints([s EXCEPT ![d] = [o \in Cols |-> @[o] * y[o]]],
                 [o \in Cols |-> [p[o] EXCEPT ![d] = @ * y[o]]])
  <1> DEFINE n == [o \in Cols |-> s[d][o] * y[o]]
  <1>1. s \in Soa /\ p \in [Cols -> Vec3] /\ \A o \in Cols : s[d][o] = p[o][d]
    BY DEF HoldsPoints
  <1>2. \A o \in Cols : s[d][o] \in Int /\ y[o] \in Int
    BY <1>1 DEF Soa
  <1>3. n \in [Cols -> Int] /\ \A o \in Cols : n[o] = p[o][d] * y[o]
    <2>1. \A o \in Cols : s[d][o] * y[o] \in Int
      BY <1>2
    <2> QED
      BY <1>1, <2>1
  <1>4. [s EXCEPT ![d] = [o \in Cols |-> @[o] * y[o]]] = [s EXCEPT ![d] = n]
    OBVIOUS
  <1> HIDE DEF n
  <1>5. [o \in Cols |-> [p[o] EXCEPT ![d] = @ * y[o]]] = [o \in Cols |-> [p[o] EXCEPT ![d] = n[o]]]
    BY <1>3
  <1> QED
    BY <1>3, <1>4, <1>5, ColHolds

LEMMA AddColHolds ==
    ASSUME NEW s, NEW p, HoldsPoints(s, p), NEW d \in Dims, NEW y \in [Cols -> Int]
    PROVE  HoldsPoints([s EXCEPT ![d] = [o \in Cols |-> @[o] + y[o]]],
                 [o \in Cols |-> [p[o] EXCEPT ![d] = @ + y[o]]])
  <1> DEFINE n == [o \in Cols |-> s[d][o] + y[o]]
  <1>1. s \in Soa /\ p \in [Cols -> Vec3] /\ \A o \in Cols : s[d][o] = p[o][d]
    BY DEF HoldsPoints
  <1>2. \A o \in Cols : s[d][o] \in Int /\ y[o] \in Int
    BY <1>1 DEF Soa
  <1>3. n \in [Cols -> Int] /\ \A o \in Cols : n[o] = p[o][d] + y[o]
    BY <1>1, <1>2
  <1>4. [s EXCEPT ![d] = [o \in Cols |-> @[o] + y[o]]] = [s EXCEPT ![d] = n]
    OBVIOUS
  <1> HIDE DEF n
  <1>5. [o \in Cols |-> [p[o] EXCEPT ![d] = @ + y[o]]] = [o \in Cols |-> [p[o] EXCEPT ![d] = n[o]]]
    BY <1>3
  <1> QED
    BY <1>3, <1>4, <1>5, ColHolds

LEMMA TransformHolds ==
    ASSUME NEW s, NEW p, HoldsPoints(s, p), NEW m \in Mat
    PROVE  HoldsPoints(VecSoaTransform(m, s), [o \in Cols |-> Vector3Transform(m, p[o])])
  <1> DEFINE n == [i \in Dims |-> [o \in Cols |-> Dot(p[o], m[i]) + m[i][3]]]
  <1>1. \A o \in Cols : Acc(s, o) = p[o] /\ p[o] \in Vec3
    BY AccIs
  <1>2. ASSUME NEW i \in Dims, NEW o \in Cols PROVE Dot(p[o], m[i]) + m[i][3] \in Int
    <2>1. \A k \in Dims : p[o][k] \in Int /\ m[i][k] \in Int
      BY <1>1, ColumnsAre DEF Vec3
    <2>2. m[i][3] \in Int
      BY ColumnsAre, DimsAre
    <2>3. Dot(p[o], m[i]) \in Int
      BY <2>1, DotIs
    <2> QED
      BY <2>2, <2>3
  <1>3. n \in Soa
    BY <1>2 DEF Soa
  <1>4. VecSoaTransform(m, s) = [i \in Dims |-> [o \in Cols |-> n[i][o]]]
    BY <1>1 DEF VecSoaTransform
  <1>5. [o \in Cols |-> Vector3Transform(m, p[o])] = [o \in Cols |-> [i \in Dims |-> n[i][o]]]
    BY DEF Vector3Transform
  <1> HIDE DEF n
  <1> QED
    BY <1>3, <1>4, <1>5, AllHold

LEMMA CrossHolds ==
    ASSUME NEW s, NEW p, HoldsPoints(s, p), NEW x \in Vec3
    PROVE  HoldsPoints(SoaCross(s, [i \in Dims |-> [o \in Cols |-> x[i]]]), [o \in Cols |-> Cross(p[o], x)])
  <1> DEFINE b == [i \in Dims |-> [o \in Cols |-> x[i]]]
             n == SoaCross(s, b)
  <1>1. s \in Soa /\ \A o \in Cols, i \in Dims : s[i][o] = p[o][i]
    BY DEF HoldsPoints
  <1>2. b \in Soa /\ \A o \in Cols, i \in Dims : b[i][o] = x[i]
    BY DEF Soa, Vec3
  <1> HIDE DEF b
  <1>3. n \in Soa
    BY <1>1, <1>2, SoaCrossIs
  <1>4. \A i \in Dims : After(i) \in Dims /\ After(After(i)) \in Dims
    BY DimsAre
  <1>5. \A i \in Dims, o \in Cols : n[i][o] = Cross(p[o], x)[i]
    <2> SUFFICES ASSUME NEW i \in Dims, NEW o \in Cols PROVE n[i][o] = Cross(p[o], x)[i]
      OBVIOUS
    <2>1. n[i][o] = s[After(i)][o] * b[After(After(i))][o] - s[After(After(i))][o] * b[After(i)][o]
      BY DEF SoaCross
    <2>2. Cross(p[o], x)[i] = p[o][After(i)] * x[After(After(i))] - p[o][After(After(i))] * x[After(i)]
      BY DEF Cross
    <2> QED
      BY <1>1, <1>2, <1>4, <2>1, <2>2
  <1>6. \A o \in Cols : Cross(p[o], x) = [i \in Dims |-> Cross(p[o], x)[i]]
    BY DEF Cross
  <1>7. n = [i \in Dims |-> [o \in Cols |-> n[i][o]]]
    BY <1>3 DEF Soa
  <1> HIDE DEF n
  <1>8. [o \in Cols |-> Cross(p[o], x)] = [o \in Cols |-> [i \in Dims |-> n[i][o]]]
    BY <1>5, <1>6
  <1>9. HoldsPoints(n, [o \in Cols |-> Cross(p[o], x)])
    BY <1>3, <1>7, <1>8, AllHold
  <1> QED
    BY <1>9 DEF n, b

LEMMA VectorsStep == ASSUME VectorsInv, VectorsNext PROVE VectorsInv'
  <1>1. HoldsPoints(soa, points) /\ Turning(pose) /\ (factors # <<>> => PoseHeld(pose, factors))
    BY DEF VectorsInv
  <1>2. /\ Directions \subseteq Vec3 /\ Scalars \subseteq Int /\ \A m \in Matrices : Turning(m)
    BY VectorsAssumption DEF VectorsAssumption, Vec3, Turning, Mat
  <1>3. pose \in Mat /\ Turning(pose)
    BY <1>1 DEF Turning
  <1>4. ASSUME NEW o \in Cols, NEW x \in Directions, AssignRow(o, x) PROVE VectorsInv'
    BY <1>1, <1>2, <1>4, AssignRowHolds DEF AssignRow, VectorsInv
  <1>5. ASSUME NEW o \in Cols, NEW x \in Directions, AddRow(o, x) PROVE VectorsInv'
    <2>1. x \in Vec3
      BY <1>2
    <2>2. HoldsPoints([i \in Dims |-> [soa[i] EXCEPT ![o] = @ + x[i]]],
                [points EXCEPT ![o] = [i \in Dims |-> @[i] + x[i]]])
      BY <1>1, <2>1, AddRowHolds
    <2>3. HoldsPoints(soa, points)' /\ pose' = pose /\ factors' = factors
      BY <1>5, <2>2 DEF AddRow
    <2> QED
      BY <1>1, <2>3 DEF VectorsInv
  <1>6. ASSUME NEW i \in Dims, NEW y \in [Cols -> Scalars], MulCol(i, y) PROVE VectorsInv'
    <2>1. y \in [Cols -> Int]
      BY <1>2
    <2> QED
      <3>1. HoldsPoints([soa EXCEPT ![i] = [o \in Cols |-> @[o] * y[o]]],
                  [o \in Cols |-> [points[o] EXCEPT ![i] = @ * y[o]]])
        BY <1>1, <2>1, MulColHolds
      <3>2. HoldsPoints(soa, points)' /\ pose' = pose /\ factors' = factors
        BY <1>6, <3>1 DEF MulCol
      <3> QED
        BY <1>1, <3>2 DEF VectorsInv
  <1>7. ASSUME NEW i \in Dims, NEW y \in [Cols -> Scalars], AddCol(i, y) PROVE VectorsInv'
    <2>1. y \in [Cols -> Int]
      BY <1>2
    <2> QED
      <3>1. HoldsPoints([soa EXCEPT ![i] = [o \in Cols |-> @[o] + y[o]]],
                  [o \in Cols |-> [points[o] EXCEPT ![i] = @ + y[o]]])
        BY <1>1, <2>1, AddColHolds
      <3>2. HoldsPoints(soa, points)' /\ pose' = pose /\ factors' = factors
        BY <1>7, <3>1 DEF AddCol
      <3> QED
        BY <1>1, <3>2 DEF VectorsInv
  <1>8. ASSUME TransformPoints PROVE VectorsInv'
    BY <1>1, <1>3, <1>8, TransformHolds DEF TransformPoints, VectorsInv
  <1>9. ASSUME NEW x \in Directions, CrossPoints(x) PROVE VectorsInv'
    BY <1>1, <1>2, <1>9, CrossHolds DEF CrossPoints, VectorsInv
  <1>10. ASSUME NEW m \in Matrices, SetPose(m) PROVE VectorsInv'
    BY <1>1, <1>2, <1>10, PoseHeldByOne DEF SetPose, VectorsInv
  <1>11. ASSUME NEW m \in Matrices, MultiplyPose(m) PROVE VectorsInv'
    <2>1. PoseHeld(Multiply(pose, m), <<m>> \o factors)
      BY <1>1, <1>2, <1>11, PoseHeldByProduct DEF MultiplyPose
    <2>2. Turning(Multiply(pose, m))
      BY <2>1 DEF PoseHeld
    <2> QED
      BY <1>1, <1>11, <2>1, <2>2 DEF MultiplyPose, VectorsInv
  <1>12. ASSUME InvertPose PROVE VectorsInv'
    <2>1. Turning(InverseOf(pose))
      BY <1>3, InverseTurns
    <2>2. pose' = InverseOf(pose) /\ factors' = <<pose'>> /\ soa' = soa /\ points' = points
      BY <1>12 DEF InvertPose
    <2> QED
      BY <1>1, <2>1, <2>2, PoseHeldByOne DEF VectorsInv
  <1> QED
    BY <1>4, <1>5, <1>6, <1>7, <1>8, <1>9, <1>10, <1>11, <1>12 DEF VectorsNext

LEMMA VectorsHold == VectorsSpec => []VectorsInv
  <1>1. VectorsInv /\ UNCHANGED vectorVars => VectorsInv'
    BY DEF vectorVars, VectorsInv
  <1> QED
    BY <1>1, VectorsStart, VectorsStep, PTL DEF VectorsSpec

(* The points of a vec3soa.                                                *)
LEMMA PointsTogether == VectorsSpec => [](VectorsTypeOK /\ SoaHoldsPoints)
  <1> SUFFICES ASSUME VectorsInv PROVE VectorsTypeOK /\ SoaHoldsPoints
    BY VectorsHold, PTL
  <1>1. HoldsPoints(soa, points) /\ pose \in Mat
    BY DEF VectorsInv, Turning
  <1>2. VectorsTypeOK
    BY <1>1 DEF VectorsTypeOK, HoldsPoints, Soa, Mat
  <1>3. ASSUME NEW o \in Cols
        PROVE  /\ Acc(soa, o) = points[o]
               /\ SoaDot(soa, soa)[o] = Dot(points[o], points[o])
               /\ SoaDot(SoaCross(soa, VecSoaTransform(pose, soa)), soa)[o] = 0
    <2>1. Acc(soa, o) = points[o]
      BY <1>1, AccIs
    <2>2. soa \in Soa /\ \A i \in Dims : soa[i][o] = points[o][i]
      BY <1>1 DEF HoldsPoints
    <2>3. SoaDot(soa, soa)[o] = Dot(points[o], points[o])
      BY <2>2, SoaDotIs, DimsAre DEF Dot
    <2>4. VecSoaTransform(pose, soa) \in Soa
      BY <1>1, TransformHolds DEF HoldsPoints
    <2> QED
      BY <2>1, <2>2, <2>3, <2>4, CrossUpright
  <1> QED
    BY <1>2, <1>3 DEF SoaHoldsPoints

(* The matrix.                                                             *)
LEMMA MatricesTurnBack == VectorsSpec => []PoseTurnsBack
  <1> SUFFICES ASSUME VectorsInv PROVE PoseTurnsBack
    BY VectorsHold, PTL
  <1> SUFFICES ASSUME factors # <<>> PROVE PoseTurnsBack
    BY DEF PoseTurnsBack
  <1>1. /\ Turning(pose) /\ factors \in Seq(Mat)
        /\ \A x \in Vec3 : TurnsTo(factors, x, Vector3Rotate(pose, x))
    BY DEF VectorsInv, PoseHeld
  <1>2. ASSUME NEW inverse \in {InverseOf(pose)}, NEW transposed \in {InverseTranspose(pose)},
               NEW i \in Dims
        PROVE  LET turned == Vector3Rotate(pose, Unit(i))
               IN  /\ turned = FoldLeft(LAMBDA x, m : Vector3Rotate(m, x), Unit(i), factors)
                   /\ Vector3Rotate(inverse, turned) = Unit(i)
                   /\ Vector3IRotate(transposed, turned) = Unit(i)
                   /\ Orthogonal(pose) => Vector3IRotate(pose, turned) = Unit(i)
    <2> DEFINE turned == Vector3Rotate(pose, Unit(i))
    <2>1. Unit(i) \in Vec3
      BY DEF Unit, Origin, Vec3
    <2>2. FoldLeft(LAMBDA x, m : Vector3Rotate(m, x), Unit(i), factors) = turned
      BY <1>1, <2>1, FoldTurns
    <2>3. /\ Vector3Rotate(inverse, turned) = Unit(i)
          /\ Vector3IRotate(transposed, turned) = Unit(i)
      <3>1. inverse = InverseOf(pose) /\ transposed = InverseTranspose(pose)
        OBVIOUS
      <3> QED
        BY <1>1, <2>1, <3>1, InversesTurnBack
    <2>4. Orthogonal(pose) => Vector3IRotate(pose, turned) = Unit(i)
      BY <1>1, <2>1, ColumnsTurnBack
    <2> HIDE DEF turned
    <2>5. /\ turned = FoldLeft(LAMBDA x, m : Vector3Rotate(m, x), Unit(i), factors)
          /\ Vector3Rotate(inverse, turned) = Unit(i)
          /\ Vector3IRotate(transposed, turned) = Unit(i)
          /\ Orthogonal(pose) => Vector3IRotate(pose, turned) = Unit(i)
      BY <2>2, <2>3, <2>4
    <2> QED
      BY <2>5 DEF turned
  <1>3. ASSUME Orthogonal(pose), NEW o \in Cols
        PROVE  Vector3ITransform(pose, Vector3Transform(pose, points[o])) = points[o]
    <2>1. points[o] \in Vec3
      BY DEF VectorsInv, HoldsPoints
    <2> QED
      BY <1>1, <1>3, <2>1, TransformsTurnBack
  <1> QED
    BY <1>2, <1>3 DEF PoseTurnsBack

(* What is done to all points at once is done to each of them, and         *)
(* matrices turn vectors as their factors do and back again.               *)
THEOREM VectorsAlwaysAgree == VectorsSpec => [](VectorsTypeOK /\ VectorsAgree)
  <1>1. SoaHoldsPoints /\ PoseTurnsBack => VectorsAgree
    BY DEF VectorsAgree
  <1> QED
    BY <1>1, PointsTogether, MatricesTurnBack, PTL

-----------------------------------------------------------------------------
(* Patterns.  The operations behind the first ones, and the elements that *)
(* follow the first dereference, come to the same from every address; the  *)
(* first ones come to what the documentation says of @, [] and * there.    *)

LEMMA RunFold ==
    ASSUME NEW s, NEW n \in Nat, DOMAIN s = 1 .. n, NEW g,
           \A k \in 1 .. n : g[k] = RunOp(g[k - 1], s[k])
    PROVE  FoldLeft(RunOp, g[0], s) = g[n]
  <1> DEFINE x == g[0]
             iter[u \in SUBSET (DOMAIN s)] ==
                 IF u = {} THEN x ELSE RunOp(iter[u \ {Max(u)}], s[Max(u)])
             Next(h, u) == IF u = {} THEN x ELSE RunOp(h[u \ {Max(u)}], s[Max(u)])
  <1>1. FoldLeft(RunOp, g[0], s) = iter[DOMAIN s]
    BY DEF FoldLeft, MapThenFoldSet
  <1> HIDE DEF x, Next
  <1> DEFINE Folded(m) == \E h : h = [u \in SUBSET (1 .. m) |-> Next(h, u)]
             T == {m \in Nat : m <= n => Folded(m)}
  <1>2. 0 \in T
    <2> DEFINE h == [u \in SUBSET (1 .. 0) |-> x]
    <2>1. \A u \in SUBSET (1 .. 0) : u = {} /\ Next(h, u) = x
      BY DEF Next
    <2>2. h = [u \in SUBSET (1 .. 0) |-> Next(h, u)]
      BY <2>1
    <2> HIDE DEF h
    <2>3. Folded(0)
      BY <2>2
    <2> HIDE DEF Folded
    <2> QED
      BY <2>3
  <1>3. ASSUME NEW m \in Nat, m \in T PROVE m + 1 \in T
    <2> SUFFICES ASSUME m + 1 <= n PROVE Folded(m + 1)
      <3> HIDE DEF Folded
      <3> QED
        OBVIOUS
    <2>0. Folded(m)
      <3> HIDE DEF Folded
      <3> QED
        BY <1>3
    <2>1. PICK h : h = [u \in SUBSET (1 .. m) |-> Next(h, u)]
      BY <2>0
    <2> DEFINE M == m + 1
               w == [u \in SUBSET (1 .. M) |->
                        IF M \in u THEN RunOp(h[u \ {M}], s[M]) ELSE h[u]]
    <2>2. \A u \in SUBSET (1 .. M) : w[u] = IF M \in u THEN RunOp(h[u \ {M}], s[M]) ELSE h[u]
      OBVIOUS
    <2>3. w = [u \in SUBSET (1 .. M) |-> w[u]]
      OBVIOUS
    <2>4. M \in Nat /\ 1 .. m \subseteq 1 .. M /\ (1 .. M) \ {M} = 1 .. m /\ \A k \in 1 .. M : k <= M
      OBVIOUS
    <2> HIDE DEF w, M
    <2>5. ASSUME NEW u \in SUBSET (1 .. M) PROVE w[u] = Next(w, u)
      <3>1. CASE M \in u
        <4>0. u # {}
          BY <3>1
        <4>1. Max(u) \in u /\ M <= Max(u)
          <5>1. M \in Nat /\ u \in SUBSET (1 .. M)
            BY <2>4
          <5>2. Max(u) \in u /\ \A y \in u : y <= Max(u)
            BY <4>0, <5>1, MaxIs
          <5> QED
            BY <3>1, <5>2
        <4>2. Max(u) = M
          <5>1. Max(u) \in 1 .. M /\ Max(u) <= M
            BY <2>4, <4>1
          <5> QED
            BY <2>4, <4>1, <5>1
        <4>3. u \ {M} \in SUBSET (1 .. M) /\ M \notin u \ {M}
          OBVIOUS
        <4>4. w[u \ {M}] = h[u \ {M}]
          BY <2>2, <4>3
        <4>5. w[u] = RunOp(h[u \ {M}], s[M])
          BY <2>2, <3>1
        <4>6. w[u] = RunOp(w[u \ {M}], s[M])
          BY <4>4, <4>5
        <4> QED
          BY <4>0, <4>2, <4>6 DEF Next
      <3>2. CASE M \notin u
        <4>1. u \in SUBSET (1 .. m)
          BY <2>4, <3>2
        <4>2. w[u] = h[u]
          BY <2>2, <3>2
        <4>3. h[u] = Next(h, u)
          BY <2>1, <4>1
        <4>4. u \ {Max(u)} \in SUBSET (1 .. M) /\ M \notin u \ {Max(u)}
          BY <3>2
        <4>5. w[u \ {Max(u)}] = h[u \ {Max(u)}]
          BY <2>2, <4>4
        <4> QED
          BY <4>2, <4>3, <4>5 DEF Next
      <3> QED
        BY <3>1, <3>2
    <2>6. w = [u \in SUBSET (1 .. M) |-> Next(w, u)]
      BY <2>3, <2>5
    <2> QED
      BY <2>6 DEF M
  <1>4. PICK h : h = [u \in SUBSET (1 .. n) |-> Next(h, u)]
    <2>1. \A m \in Nat : m \in T
      <3> HIDE DEF T
      <3> QED
        BY <1>2, <1>3, Inductive
    <2>2. Folded(n)
      <3> HIDE DEF Folded
      <3> QED
        BY <2>1
    <2> QED
      BY <2>2
  <1>5. h = [u \in SUBSET (DOMAIN s) |->
                IF u = {} THEN x ELSE RunOp(h[u \ {Max(u)}], s[Max(u)])]
    BY <1>4 DEF Next
  <1>6. iter = [u \in SUBSET (DOMAIN s) |->
                IF u = {} THEN x ELSE RunOp(iter[u \ {Max(u)}], s[Max(u)])]
    BY <1>5
  <1>7. \A u \in SUBSET (1 .. n) :
            iter[u] = IF u = {} THEN x ELSE RunOp(iter[u \ {Max(u)}], s[Max(u)])
    BY <1>6
  <1> HIDE DEF iter
  <1>8. iter[1 .. 0] = g[0]
    <2>1. {} \in SUBSET (1 .. n) /\ 1 .. 0 = {}
      OBVIOUS
    <2> QED
      BY <2>1, <1>7 DEF x
  <1>9. ASSUME NEW k \in 1 .. n PROVE iter[1 .. k] = RunOp(iter[1 .. k - 1], s[k])
    <2>1. k \in Nat \ {0} /\ 1 .. k \in SUBSET (1 .. n) /\ 1 .. k # {}
      <3>1. k \in Nat \ {0} /\ k \in 1 .. k /\ \A j \in 1 .. k : j \in 1 .. n
        OBVIOUS
      <3> QED
        BY <3>1
    <2>2. Max(1 .. k) = k /\ (1 .. k) \ {k} = 1 .. k - 1
      BY <2>1, MaxOfFirst
    <2> QED
      BY <2>1, <2>2, <1>7
  <1> DEFINE U == {k \in Nat : k <= n => iter[1 .. k] = g[k]}
  <1>10. 0 \in U
    BY <1>8
  <1>11. ASSUME NEW k \in Nat, k \in U PROVE k + 1 \in U
    <2> SUFFICES ASSUME k + 1 <= n PROVE iter[1 .. k + 1] = g[k + 1]
      OBVIOUS
    <2>1. k + 1 \in 1 .. n /\ (k + 1) - 1 = k /\ k <= n
      OBVIOUS
    <2>2. iter[1 .. k] = g[k]
      BY <1>11, <2>1
    <2>3. g[k + 1] = RunOp(g[(k + 1) - 1], s[k + 1])
      BY <2>1
    <2>4. iter[1 .. k + 1] = RunOp(iter[1 .. (k + 1) - 1], s[k + 1])
      BY <1>9, <2>1
    <2> QED
      BY <2>1, <2>2, <2>3, <2>4
  <1>12. n \in U
    <2> HIDE DEF U
    <2> QED
      BY <1>10, <1>11, Inductive
  <1>13. iter[DOMAIN s] = g[n]
    BY <1>12
  <1> QED
    BY ONLY <1>1, <1>13

LEMMA ThenFold ==
    ASSUME NEW s, NEW n \in Nat, DOMAIN s = 1 .. n, NEW g,
           \A k \in 1 .. n : g[k] = Then(g[k - 1], s[k])
    PROVE  FoldLeft(Then, g[0], s) = g[n]
  <1> DEFINE x == g[0]
             iter[u \in SUBSET (DOMAIN s)] ==
                 IF u = {} THEN x ELSE Then(iter[u \ {Max(u)}], s[Max(u)])
             Next(h, u) == IF u = {} THEN x ELSE Then(h[u \ {Max(u)}], s[Max(u)])
  <1>1. FoldLeft(Then, g[0], s) = iter[DOMAIN s]
    BY DEF FoldLeft, MapThenFoldSet
  <1> HIDE DEF x, Next
  <1> DEFINE Folded(m) == \E h : h = [u \in SUBSET (1 .. m) |-> Next(h, u)]
             T == {m \in Nat : m <= n => Folded(m)}
  <1>2. 0 \in T
    <2> DEFINE h == [u \in SUBSET (1 .. 0) |-> x]
    <2>1. \A u \in SUBSET (1 .. 0) : u = {} /\ Next(h, u) = x
      BY DEF Next
    <2>2. h = [u \in SUBSET (1 .. 0) |-> Next(h, u)]
      BY <2>1
    <2> HIDE DEF h
    <2>3. Folded(0)
      BY <2>2
    <2> HIDE DEF Folded
    <2> QED
      BY <2>3
  <1>3. ASSUME NEW m \in Nat, m \in T PROVE m + 1 \in T
    <2> SUFFICES ASSUME m + 1 <= n PROVE Folded(m + 1)
      <3> HIDE DEF Folded
      <3> QED
        OBVIOUS
    <2>0. Folded(m)
      <3> HIDE DEF Folded
      <3> QED
        BY <1>3
    <2>1. PICK h : h = [u \in SUBSET (1 .. m) |-> Next(h, u)]
      BY <2>0
    <2> DEFINE M == m + 1
               w == [u \in SUBSET (1 .. M) |->
                        IF M \in u THEN Then(h[u \ {M}], s[M]) ELSE h[u]]
    <2>2. \A u \in SUBSET (1 .. M) : w[u] = IF M \in u THEN Then(h[u \ {M}], s[M]) ELSE h[u]
      OBVIOUS
    <2>3. w = [u \in SUBSET (1 .. M) |-> w[u]]
      OBVIOUS
    <2>4. M \in Nat /\ 1 .. m \subseteq 1 .. M /\ (1 .. M) \ {M} = 1 .. m /\ \A k \in 1 .. M : k <= M
      OBVIOUS
    <2> HIDE DEF w, M
    <2>5. ASSUME NEW u \in SUBSET (1 .. M) PROVE w[u] = Next(w, u)
      <3>1. CASE M \in u
        <4>0. u # {}
          BY <3>1
        <4>1. Max(u) \in u /\ M <= Max(u)
          <5>1. M \in Nat /\ u \in SUBSET (1 .. M)
            BY <2>4
          <5>2. Max(u) \in u /\ \A y \in u : y <= Max(u)
            BY <4>0, <5>1, MaxIs
          <5> QED
            BY <3>1, <5>2
        <4>2. Max(u) = M
          <5>1. Max(u) \in 1 .. M /\ Max(u) <= M
            BY <2>4, <4>1
          <5> QED
            BY <2>4, <4>1, <5>1
        <4>3. u \ {M} \in SUBSET (1 .. M) /\ M \notin u \ {M}
          OBVIOUS
        <4>4. w[u \ {M}] = h[u \ {M}]
          BY <2>2, <4>3
        <4>5. w[u] = Then(h[u \ {M}], s[M])
          BY <2>2, <3>1
        <4>6. w[u] = Then(w[u \ {M}], s[M])
          BY <4>4, <4>5
        <4> QED
          BY <4>0, <4>2, <4>6 DEF Next
      <3>2. CASE M \notin u
        <4>1. u \in SUBSET (1 .. m)
          BY <2>4, <3>2
        <4>2. w[u] = h[u]
          BY <2>2, <3>2
        <4>3. h[u] = Next(h, u)
          BY <2>1, <4>1
        <4>4. u \ {Max(u)} \in SUBSET (1 .. M) /\ M \notin u \ {Max(u)}
          BY <3>2
        <4>5. w[u \ {Max(u)}] = h[u \ {Max(u)}]
          BY <2>2, <4>4
        <4> QED
          BY <4>2, <4>3, <4>5 DEF Next
      <3> QED
        BY <3>1, <3>2
    <2>6. w = [u \in SUBSET (1 .. M) |-> Next(w, u)]
      BY <2>3, <2>5
    <2> QED
      BY <2>6 DEF M
  <1>4. PICK h : h = [u \in SUBSET (1 .. n) |-> Next(h, u)]
    <2>1. \A m \in Nat : m \in T
      <3> HIDE DEF T
      <3> QED
        BY <1>2, <1>3, Inductive
    <2>2. Folded(n)
      <3> HIDE DEF Folded
      <3> QED
        BY <2>1
    <2> QED
      BY <2>2
  <1>5. h = [u \in SUBSET (DOMAIN s) |->
                IF u = {} THEN x ELSE Then(h[u \ {Max(u)}], s[Max(u)])]
    BY <1>4 DEF Next
  <1>6. iter = [u \in SUBSET (DOMAIN s) |->
                IF u = {} THEN x ELSE Then(iter[u \ {Max(u)}], s[Max(u)])]
    BY <1>5
  <1>7. \A u \in SUBSET (1 .. n) :
            iter[u] = IF u = {} THEN x ELSE Then(iter[u \ {Max(u)}], s[Max(u)])
    BY <1>6
  <1> HIDE DEF iter
  <1>8. iter[1 .. 0] = g[0]
    <2>1. {} \in SUBSET (1 .. n) /\ 1 .. 0 = {}
      OBVIOUS
    <2> QED
      BY <2>1, <1>7 DEF x
  <1>9. ASSUME NEW k \in 1 .. n PROVE iter[1 .. k] = Then(iter[1 .. k - 1], s[k])
    <2>1. k \in Nat \ {0} /\ 1 .. k \in SUBSET (1 .. n) /\ 1 .. k # {}
      <3>1. k \in Nat \ {0} /\ k \in 1 .. k /\ \A j \in 1 .. k : j \in 1 .. n
        OBVIOUS
      <3> QED
        BY <3>1
    <2>2. Max(1 .. k) = k /\ (1 .. k) \ {k} = 1 .. k - 1
      BY <2>1, MaxOfFirst
    <2> QED
      BY <2>1, <2>2, <1>7
  <1> DEFINE U == {k \in Nat : k <= n => iter[1 .. k] = g[k]}
  <1>10. 0 \in U
    BY <1>8
  <1>11. ASSUME NEW k \in Nat, k \in U PROVE k + 1 \in U
    <2> SUFFICES ASSUME k + 1 <= n PROVE iter[1 .. k + 1] = g[k + 1]
      OBVIOUS
    <2>1. k + 1 \in 1 .. n /\ (k + 1) - 1 = k /\ k <= n
      OBVIOUS
    <2>2. iter[1 .. k] = g[k]
      BY <1>11, <2>1
    <2>3. g[k + 1] = Then(g[(k + 1) - 1], s[k + 1])
      BY <2>1
    <2>4. iter[1 .. k + 1] = Then(iter[1 .. (k + 1) - 1], s[k + 1])
      BY <1>9, <2>1
    <2> QED
      BY <2>1, <2>2, <2>3, <2>4
  <1>12. n \in U
    <2> HIDE DEF U
    <2> QED
      BY <1>10, <1>11, Inductive
  <1>13. iter[DOMAIN s] = g[n]
    BY <1>12
  <1> QED
    BY ONLY <1>1, <1>13

(* Addresses.                                                              *)
IsAddress(a) == a = [of |-> a.of, plus |-> a.plus] /\ a.plus \in Int

LEMMA AddressAdd ==
    ASSUME NEW a, IsAddress(a), NEW n \in Int
    PROVE  /\ Add(a, n) = [of |-> a.of, plus |-> a.plus + n]
           /\ IsAddress(Add(a, n)) /\ Add(a, 0) = a
  <1> DEFINE o == a.of
             p == a.plus
  <1>1. a = [of |-> o, plus |-> p] /\ p \in Int
    BY DEF IsAddress
  <1>2. Add(a, n) = [a EXCEPT !.plus = a.plus + n] /\ Add(a, 0) = [a EXCEPT !.plus = a.plus + 0]
    BY DEF Add
  <1>3. a.plus = p
    OBVIOUS
  <1> HIDE DEF o, p
  <1>4. Add(a, n) = [of |-> o, plus |-> p + n] /\ p + n \in Int
    BY <1>1, <1>2, <1>3
  <1>5. Add(a, 0) = a
    BY <1>1, <1>2, <1>3
  <1>6. IsAddress(Add(a, n))
    BY <1>4 DEF IsAddress
  <1> QED
    BY <1>4, <1>5, <1>6 DEF o, p

LEMMA MatchIs == IsAddress(Match) /\ Match.plus = 0
  BY DEF Match, IsAddress

(* An operation that follows the first dereference does what its element   *)
(* says.                                                                   *)
Fits(e, op) ==
    \/ e.kind = "again" /\ e.size \in Sizes /\ op = Op(10 + e.size, 0, 0)
    \/ e.kind = "plus" /\ e.num \in Offsets /\ op = Op(1, e.num, 0)
    \/ e.kind = "plusDeref" /\ e.size \in Sizes /\ e.num \in Offsets /\ op = Op(10 + e.size, e.num, 0)
    \/ /\ e.kind = "rel" /\ e.size \in Offsets /\ e.num \in Offsets
       /\ op = Op(20 + PointerSize, e.num, e.size)

LEMMA RunRead ==
    ASSUME NEW a, NEW size \in Sizes, NEW n \in Int, NEW v
    PROVE  RunOp(a, Op(10 + size, n, v)) = ReadAt(size, Add(a, n))
  <1>1. size \in {1, 2, 4, 8}
    BY PatternScanAssumption DEF PatternScanAssumption
  <1> DEFINE op == Op(10 + size, n, v)
  <1>2. op.op = 10 + size /\ op.offset = n
    BY DEF Op
  <1>3. op.op - 10 = size /\ op.op # 1 /\ op.op \in {11, 12, 14, 18} /\ op.op \notin {21, 22, 24} /\ op.op # 28
    BY <1>1, <1>2
  <1> HIDE DEF op
  <1>4. RunOp(a, op) = ReadAt(op.op - 10, Add(a, op.offset))
    BY <1>3 DEF RunOp
  <1> QED
    BY <1>2, <1>3, <1>4 DEF op

LEMMA RunAdd ==
    ASSUME NEW a, NEW n \in Int, NEW v
    PROVE  RunOp(a, Op(1, n, v)) = Add(a, n)
  <1> DEFINE op == Op(1, n, v)
  <1>2. op.op = 1 /\ op.offset = n
    BY DEF Op
  <1> HIDE DEF op
  <1>4. RunOp(a, op) = Add(a, op.offset)
    BY <1>2 DEF RunOp
  <1> QED
    BY <1>2, <1>4 DEF op

LEMMA RunRelative ==
    ASSUME NEW a, NEW size \in {1, 2, 4, 8}, NEW n \in Int, NEW v
    PROVE  RunOp(a, Op(20 + size, n, v)) =
              GetAbsoluteAddress(IF size = 8 THEN 4 ELSE size, a, n, v)
  <1> DEFINE op == Op(20 + size, n, v)
  <1>1. op.op = 20 + size /\ op.offset = n /\ op.v1 = v
    BY DEF Op
  <1>2. /\ op.op # 1 /\ op.op \notin {11, 12, 14, 18} /\ op.op - 20 = size
        /\ size # 8 => op.op \in {21, 22, 24} /\ op.op # 28
        /\ size = 8 => op.op = 28 /\ op.op \notin {21, 22, 24}
    BY <1>1
  <1> HIDE DEF op
  <1>3. RunOp(a, op) = GetAbsoluteAddress(IF size = 8 THEN 4 ELSE size, a, op.offset, op.v1)
    <2>1. CASE size = 8
      BY <1>2, <2>1 DEF RunOp
    <2>2. CASE size # 8
      BY <1>2, <2>2 DEF RunOp
    <2> QED
      BY <2>1, <2>2
  <1> QED
    BY <1>1, <1>3 DEF op

LEMMA RunNone == ASSUME NEW a, NEW n, NEW v PROVE RunOp(a, Op(0, n, v)) = a
  <1> DEFINE op == Op(0, n, v)
  <1>1. op.op = 0
    BY DEF Op
  <1> HIDE DEF op
  <1>2. RunOp(a, op) = a
    BY <1>1 DEF RunOp
  <1> QED
    BY <1>2 DEF op

LEMMA FitsThen ==
    ASSUME NEW e, NEW op, Fits(e, op), NEW a, IsAddress(a)
    PROVE  RunOp(a, op) = Then(a, e) /\ IsAddress(Then(a, e))
  <1>0. Offsets \subseteq Int
    BY PatternScanAssumption DEF PatternScanAssumption
  <1>1. \A size, b : IsAddress(ReadAt(size, b))
    BY DEF IsAddress, ReadAt
  <1>2. CASE e.kind = "again" /\ e.size \in Sizes /\ op = Op(10 + e.size, 0, 0)
    <2>1. RunOp(a, op) = ReadAt(e.size, Add(a, 0))
      BY <1>2, RunRead
    <2>2. Then(a, e) = ReadAt(e.size, a)
      BY <1>2 DEF Then
    <2> QED
      BY <1>1, <2>1, <2>2, AddressAdd
  <1>3. CASE e.kind = "plus" /\ e.num \in Offsets /\ op = Op(1, e.num, 0)
    <2>1. RunOp(a, op) = Add(a, e.num)
      BY <1>0, <1>3, RunAdd
    <2>2. Then(a, e) = Add(a, e.num)
      BY <1>3 DEF Then
    <2> QED
      BY <1>0, <1>3, <2>1, <2>2, AddressAdd
  <1>4. CASE e.kind = "plusDeref" /\ e.size \in Sizes /\ e.num \in Offsets /\ op = Op(10 + e.size, e.num, 0)
    <2>1. RunOp(a, op) = ReadAt(e.size, Add(a, e.num))
      BY <1>0, <1>4, RunRead
    <2>2. Then(a, e) = ReadAt(e.size, Add(a, e.num))
      BY <1>4 DEF Then
    <2> QED
      BY <1>1, <2>1, <2>2
  <1>5. CASE /\ e.kind = "rel" /\ e.size \in Offsets /\ e.num \in Offsets
             /\ op = Op(20 + PointerSize, e.num, e.size)
    <2>1. e.num \in Int /\ e.size \in Int /\ op = Op(20 + 8, e.num, e.size)
      BY <1>0, <1>5 DEF PointerSize
    <2>2. RunOp(a, op) = GetAbsoluteAddress(4, a, e.num, e.size)
      BY <2>1, RunRelative
    <2>3. Then(a, e) = GetAbsoluteAddress(4, a, e.num, e.size)
      BY <1>5 DEF Then
    <2>4. a.plus + e.size \in Int
      BY <2>1 DEF IsAddress
    <2>5. IsAddress(GetAbsoluteAddress(4, a, e.num, e.size))
      BY <2>4 DEF IsAddress, GetAbsoluteAddress
    <2> QED
      BY <2>2, <2>3, <2>5
  <1> QED
    BY <1>2, <1>3, <1>4, <1>5 DEF Fits

TailKinds == {"again", "plus", "plusDeref", "rel"}
Kinds == {"byte", "?", "@", "[", "]", "deref"} \union TailKinds
Element == [kind : Kinds, size : Int, num : Int, at : Nat]

NoTail(els) == \A n \in 1 .. Len(els) : els[n].kind \notin TailKinds

(* From the address a, the operations behind the first h come to the same  *)
(* as the elements.                                                        *)
Agree(h, ops, els, a) ==
    \E g, f :
        /\ g[h] = a /\ \A k \in h + 1 .. Len(ops) : g[k] = RunOp(g[k - 1], ops[k])
        /\ f[0] = a /\ \A k \in 1 .. Len(els) : f[k] = Then(f[k - 1], els[k])
        /\ g[Len(ops)] = f[Len(els)] /\ IsAddress(f[Len(els)])

SameFrom(h, ops, els) == \A a : IsAddress(a) => Agree(h, ops, els, a)

LEMMA OtherThen ==
    ASSUME NEW e, e.kind \notin TailKinds, NEW a
    PROVE  Then(a, e) = a
  BY DEF TailKinds, Then

LEMMA SameStart ==
    ASSUME NEW S, NEW ops \in Seq(S), NEW els \in Seq(Element), NoTail(els)
    PROVE  SameFrom(Len(ops), ops, els)
  <1> SUFFICES ASSUME NEW a, IsAddress(a) PROVE Agree(Len(ops), ops, els, a)
    BY DEF SameFrom
  <1> DEFINE L == Len(ops)
             n == Len(els)
  <1>1. L \in Nat /\ n \in Nat
    OBVIOUS
  <1>2. \A k \in 1 .. n : Then(a, els[k]) = a
    BY OtherThen DEF NoTail
  <1> HIDE DEF L, n
  <1> DEFINE g == [k \in {L} |-> a]
             f == [k \in 0 .. n |-> a]
  <1>3. g[L] = a /\ L + 1 .. L = {}
    BY <1>1
  <1>4. f[0] = a /\ f[n] = a /\ \A k \in 1 .. n : f[k] = a /\ f[k - 1] = a
    BY <1>1
  <1> HIDE DEF g, f
  <1>5. /\ g[L] = a /\ \A k \in L + 1 .. L : g[k] = RunOp(g[k - 1], ops[k])
        /\ f[0] = a /\ \A k \in 1 .. n : f[k] = Then(f[k - 1], els[k])
        /\ g[L] = f[n] /\ IsAddress(f[n])
    BY <1>2, <1>3, <1>4
  <1> QED
    BY <1>5 DEF Agree, L, n

LEMMA SameTail ==
    ASSUME NEW S, NEW ops \in Seq(S), NEW els \in Seq(Element), NEW op \in S, NEW e \in Element,
           Fits(e, op), NEW h \in 0 .. Len(ops), SameFrom(h, ops, els)
    PROVE  SameFrom(h, Append(ops, op), Append(els, e))
  <1> SUFFICES ASSUME NEW a, IsAddress(a) PROVE Agree(h, Append(ops, op), Append(els, e), a)
    BY DEF SameFrom
  <1> DEFINE L == Len(ops)
             n == Len(els)
             o == Append(ops, op)
             s == Append(els, e)
  <1>1. /\ L \in Nat /\ n \in Nat /\ Len(o) = L + 1 /\ Len(s) = n + 1 /\ o[L + 1] = op /\ s[n + 1] = e
        /\ h \in 0 .. L
        /\ \A k \in 1 .. L : o[k] = ops[k]
        /\ \A k \in 1 .. n : s[k] = els[k]
    OBVIOUS
  <1>2. PICK g, f :
            /\ g[h] = a /\ \A k \in h + 1 .. L : g[k] = RunOp(g[k - 1], ops[k])
            /\ f[0] = a /\ \A k \in 1 .. n : f[k] = Then(f[k - 1], els[k])
            /\ g[L] = f[n] /\ IsAddress(f[n])
    BY DEF SameFrom, Agree
  <1> HIDE DEF L, n, o, s
  <1> DEFINE v == Then(f[n], e)
  <1>3. v = RunOp(g[L], op) /\ IsAddress(v) /\ v = Then(f[n], e)
    BY <1>2, FitsThen
  <1> HIDE DEF v
  <1> DEFINE w == [k \in h .. L + 1 |-> IF k = L + 1 THEN v ELSE g[k]]
             t == [k \in 0 .. n + 1 |-> IF k = n + 1 THEN v ELSE f[k]]
  <1>4. /\ w[L + 1] = v /\ \A k \in h .. L : w[k] = g[k]
        /\ t[n + 1] = v /\ \A k \in 0 .. n : t[k] = f[k]
    BY <1>1
  <1> HIDE DEF w, t
  <1>5. ASSUME NEW k \in h + 1 .. L + 1 PROVE w[k] = RunOp(w[k - 1], o[k])
    <2>1. CASE k = L + 1
      <3>0. L \in h .. L /\ k - 1 = L
        BY <1>1, <2>1
      <3>1. w[L] = g[L] /\ k - 1 = L
        BY <1>4, <3>0
      <3> QED
        BY <1>1, <1>3, <1>4, <2>1, <3>1
    <2>2. CASE k # L + 1
      <3>1. k \in h + 1 .. L /\ k \in h .. L /\ k - 1 \in h .. L /\ k \in 1 .. L
        BY <1>1, <2>2
      <3> QED
        BY <1>1, <1>2, <1>4, <3>1
    <2> QED
      BY <2>1, <2>2
  <1>6. ASSUME NEW k \in 1 .. n + 1 PROVE t[k] = Then(t[k - 1], s[k])
    <2>1. CASE k = n + 1
      <3>1. t[n] = f[n] /\ k - 1 = n
        BY <1>1, <1>4, <2>1
      <3> QED
        BY <1>1, <1>3, <1>4, <2>1, <3>1
    <2>2. CASE k # n + 1
      <3>1. k \in 1 .. n /\ k \in 0 .. n /\ k - 1 \in 0 .. n
        BY <1>1, <2>2
      <3> QED
        BY <1>1, <1>2, <1>4, <3>1
    <2> QED
      BY <2>1, <2>2
  <1>7. w[h] = a /\ t[0] = a
    <2>1. h \in h .. L /\ 0 \in 0 .. n
      BY <1>1
    <2> QED
      BY <1>2, <1>4, <2>1
  <1>8. /\ w[h] = a /\ \A k \in h + 1 .. Len(o) : w[k] = RunOp(w[k - 1], o[k])
        /\ t[0] = a /\ \A k \in 1 .. Len(s) : t[k] = Then(t[k - 1], s[k])
        /\ w[Len(o)] = t[Len(s)] /\ IsAddress(t[Len(s)])
    BY <1>1, <1>3, <1>4, <1>5, <1>6, <1>7
  <1>9. Agree(h, o, s, a)
    BY <1>8 DEF Agree
  <1> QED
    BY <1>9 DEF o, s

LEMMA SameOther ==
    ASSUME NEW ops, NEW els \in Seq(Element), NEW e \in Element, e.kind \notin TailKinds,
           NEW h, SameFrom(h, ops, els)
    PROVE  SameFrom(h, ops, Append(els, e))
  <1> SUFFICES ASSUME NEW a, IsAddress(a) PROVE Agree(h, ops, Append(els, e), a)
    BY DEF SameFrom
  <1> DEFINE n == Len(els)
             s == Append(els, e)
  <1>1. /\ n \in Nat /\ Len(s) = n + 1 /\ s[n + 1] = e
        /\ \A k \in 1 .. n : s[k] = els[k]
    OBVIOUS
  <1>2. PICK g, f :
            /\ g[h] = a /\ \A k \in h + 1 .. Len(ops) : g[k] = RunOp(g[k - 1], ops[k])
            /\ f[0] = a /\ \A k \in 1 .. n : f[k] = Then(f[k - 1], els[k])
            /\ g[Len(ops)] = f[n] /\ IsAddress(f[n])
    BY DEF SameFrom, Agree
  <1>3. Then(f[n], e) = f[n]
    BY OtherThen
  <1> HIDE DEF n, s
  <1> DEFINE t == [k \in 0 .. n + 1 |-> IF k = n + 1 THEN f[n] ELSE f[k]]
  <1>4. t[n + 1] = f[n] /\ \A k \in 0 .. n : t[k] = f[k]
    BY <1>1
  <1> HIDE DEF t
  <1>6. ASSUME NEW k \in 1 .. n + 1 PROVE t[k] = Then(t[k - 1], s[k])
    <2>1. CASE k = n + 1
      <3>1. t[n] = f[n] /\ k - 1 = n
        BY <1>1, <1>4, <2>1
      <3> QED
        BY <1>1, <1>3, <1>4, <2>1, <3>1
    <2>2. CASE k # n + 1
      <3>1. k \in 1 .. n /\ k \in 0 .. n /\ k - 1 \in 0 .. n
        BY <1>1, <2>2
      <3> QED
        BY <1>1, <1>2, <1>4, <3>1
    <2> QED
      BY <2>1, <2>2
  <1>7. t[0] = a
    <2>1. 0 \in 0 .. n
      BY <1>1
    <2> QED
      BY <1>2, <1>4, <2>1
  <1>8. /\ g[h] = a /\ \A k \in h + 1 .. Len(ops) : g[k] = RunOp(g[k - 1], ops[k])
        /\ t[0] = a /\ \A k \in 1 .. Len(s) : t[k] = Then(t[k - 1], s[k])
        /\ g[Len(ops)] = t[Len(s)] /\ IsAddress(t[Len(s)])
    BY <1>1, <1>2, <1>4, <1>6, <1>7
  <1>9. Agree(h, ops, s, a)
    BY <1>8 DEF Agree
  <1> QED
    BY <1>9 DEF s

LEMMA SameBehind ==
    ASSUME NEW ops, NEW o, NEW els, NEW h, SameFrom(h, ops, els),
           Len(o) = Len(ops), \A k \in h + 1 .. Len(ops) : o[k] = ops[k]
    PROVE  SameFrom(h, o, els)
  <1> SUFFICES ASSUME NEW a, IsAddress(a) PROVE Agree(h, o, els, a)
    BY DEF SameFrom
  <1>1. PICK g, f :
            /\ g[h] = a /\ \A k \in h + 1 .. Len(ops) : g[k] = RunOp(g[k - 1], ops[k])
            /\ f[0] = a /\ \A k \in 1 .. Len(els) : f[k] = Then(f[k - 1], els[k])
            /\ g[Len(ops)] = f[Len(els)] /\ IsAddress(f[Len(els)])
    BY DEF SameFrom, Agree
  <1>2. /\ g[h] = a /\ \A k \in h + 1 .. Len(o) : g[k] = RunOp(g[k - 1], o[k])
        /\ f[0] = a /\ \A k \in 1 .. Len(els) : f[k] = Then(f[k - 1], els[k])
        /\ g[Len(o)] = f[Len(els)] /\ IsAddress(f[Len(els)])
    BY <1>1
  <1> QED
    BY <1>2 DEF Agree

LEMMA SameMeans ==
    ASSUME NEW S, NEW ops \in Seq(S), NEW els \in Seq(Element), NEW h \in 0 .. Len(ops),
           SameFrom(h, ops, els), NEW x, x[0] = Match,
           \A k \in 1 .. h : x[k] = RunOp(x[k - 1], ops[k]), IsAddress(x[h])
    PROVE  FoldLeft(RunOp, Match, ops) = FoldLeft(Then, x[h], els)
  <1> DEFINE L == Len(ops)
             n == Len(els)
             a == x[h]
  <1>1. L \in Nat /\ n \in Nat /\ DOMAIN ops = 1 .. L /\ DOMAIN els = 1 .. n /\ h \in 0 .. L
    OBVIOUS
  <1>2. PICK g, f :
            /\ g[h] = a /\ \A k \in h + 1 .. L : g[k] = RunOp(g[k - 1], ops[k])
            /\ f[0] = a /\ \A k \in 1 .. n : f[k] = Then(f[k - 1], els[k])
            /\ g[L] = f[n] /\ IsAddress(f[n])
    BY DEF SameFrom, Agree
  <1> HIDE DEF L, n
  <1> DEFINE w == [k \in 0 .. L |-> IF k < h THEN x[k] ELSE g[k]]
  <1>3. \A k \in 0 .. L : w[k] = IF k < h THEN x[k] ELSE g[k]
    OBVIOUS
  <1> HIDE DEF w
  <1>4. w[0] = Match
    BY <1>1, <1>2, <1>3
  <1>5. w[L] = f[n]
    BY <1>1, <1>2, <1>3
  <1>6. ASSUME NEW k \in 1 .. L PROVE w[k] = RunOp(w[k - 1], ops[k])
    <2>1. k \in 0 .. L /\ k - 1 \in 0 .. L
      BY <1>1
    <2>2. CASE k < h
      <3>1. w[k] = x[k] /\ w[k - 1] = x[k - 1] /\ k \in 1 .. h
        BY <1>1, <1>3, <2>1, <2>2
      <3> QED
        BY <3>1
    <2>3. CASE k = h
      <3>1. w[k] = g[k] /\ w[k - 1] = x[k - 1] /\ k \in 1 .. h /\ g[k] = x[k]
        BY <1>1, <1>2, <1>3, <2>1, <2>3
      <3> QED
        BY <3>1
    <2>4. CASE k > h
      <3>0. ~(k < h) /\ ~(k - 1 < h) /\ k \in h + 1 .. L
        BY <1>1, <2>4
      <3>1. w[k] = g[k] /\ w[k - 1] = g[k - 1]
        BY <1>3, <2>1, <3>0
      <3> QED
        BY <1>2, <3>0, <3>1
    <2> QED
      BY <1>1, <2>2, <2>3, <2>4
  <1>7. FoldLeft(RunOp, w[0], ops) = w[L]
    BY <1>1, <1>6, RunFold
  <1>8. FoldLeft(Then, f[0], els) = f[n]
    BY <1>1, <1>2, ThenFold
  <1> QED
    BY <1>2, <1>4, <1>5, <1>7, <1>8

NoneOf(kind, els) == \A n \in 1 .. Len(els) : els[n].kind # kind

Only(kind, e, els) ==
    \E n \in 1 .. Len(els) :
        els[n] = e /\ \A m \in 1 .. Len(els) : els[m].kind = kind <=> m = n

LEMMA OnlyIs ==
    ASSUME NEW kind, NEW e, elements \in Seq(Element), Only(kind, e, elements)
    PROVE  Has(kind) /\ The(kind) = e /\ e.kind = kind /\ e \in Element
  <1>1. DOMAIN elements = 1 .. Len(elements) /\ \A k \in 1 .. Len(elements) : elements[k] \in Element
    OBVIOUS
  <1>2. PICK n \in 1 .. Len(elements) :
            elements[n] = e /\ \A m \in 1 .. Len(elements) : elements[m].kind = kind <=> m = n
    BY DEF Only
  <1>3. (CHOOSE k \in DOMAIN elements : elements[k].kind = kind) = n
    BY <1>1, <1>2
  <1> QED
    BY <1>1, <1>2, <1>3 DEF Has, The

LEMMA NoneIs == ASSUME NEW kind, elements \in Seq(Element), NoneOf(kind, elements) PROVE ~Has(kind)
  <1>1. DOMAIN elements = 1 .. Len(elements)
    OBVIOUS
  <1> QED
    BY <1>1 DEF NoneOf, Has

LEMMA ElementAdded ==
    ASSUME NEW els \in Seq(Element), NEW x \in Element
    PROVE  /\ \A kind : NoneOf(kind, els) /\ x.kind # kind => NoneOf(kind, Append(els, x))
           /\ \A kind, e : Only(kind, e, els) /\ x.kind # kind => Only(kind, e, Append(els, x))
           /\ \A kind : NoneOf(kind, els) /\ x.kind = kind => Only(kind, x, Append(els, x))
           /\ NoTail(els) /\ x.kind \notin TailKinds => NoTail(Append(els, x))
  <1> DEFINE n == Len(els)
             s == Append(els, x)
  <1>1. /\ n \in Nat /\ Len(s) = n + 1 /\ s[n + 1] = x
        /\ \A k \in 1 .. n : s[k] = els[k]
        /\ \A k \in 1 .. n + 1 : k \in 1 .. n \/ k = n + 1
    OBVIOUS
  <1> HIDE DEF n, s
  <1>2. ASSUME NEW kind, NoneOf(kind, els), x.kind # kind PROVE NoneOf(kind, s)
    BY <1>1, <1>2 DEF NoneOf, n
  <1>3. ASSUME NEW kind, NEW e, Only(kind, e, els), x.kind # kind PROVE Only(kind, e, s)
    <2>1. PICK i \in 1 .. n : els[i] = e /\ \A m \in 1 .. n : els[m].kind = kind <=> m = i
      BY <1>3 DEF Only, n
    <2>2. i \in 1 .. n + 1 /\ s[i] = e /\ i # n + 1
      BY <1>1, <2>1
    <2>3. ASSUME NEW m \in 1 .. n + 1 PROVE s[m].kind = kind <=> m = i
      BY <1>1, <1>3, <2>1, <2>2
    <2> QED
      BY <1>1, <2>2, <2>3 DEF Only
  <1>4. ASSUME NEW kind, NoneOf(kind, els), x.kind = kind PROVE Only(kind, x, s)
    <2>1. n + 1 \in 1 .. n + 1
      BY <1>1
    <2>2. ASSUME NEW m \in 1 .. n + 1 PROVE s[m].kind = kind <=> m = n + 1
      <3>1. m \in 1 .. n => m # n + 1 /\ els[m].kind # kind
        BY <1>1, <1>4 DEF NoneOf, n
      <3> QED
        BY <1>1, <1>4, <3>1
    <2> QED
      BY <1>1, <2>1, <2>2 DEF Only
  <1>5. ASSUME NoTail(els), x.kind \notin TailKinds PROVE NoTail(s)
    BY <1>1, <1>5 DEF NoTail, n
  <1> QED
    BY <1>2, <1>3, <1>4, <1>5 DEF s

Ops == [op : 0 .. 28, offset : Int, v1 : Int]

(* The operation that @ or a bracket stands for.                           *)
Moves(n) == IF n = 0 THEN <<>> ELSE <<Op(1, n, 0)>>

Typed ==
    /\ patternBytes \in Seq(ByteValues \union {AnyByte})
    /\ operations \in Seq(Ops)
    /\ elements \in Seq(Element)
    /\ ByteCount <= Len(elements) /\ Len(elements) <= MaxElements
    /\ relIdx \in 0 .. MaxElements /\ relStartIdx \in 0 .. MaxElements
    /\ initDerefIdx \in 0 .. MaxElements
    /\ inRelDeref \in BOOLEAN /\ derefDone \in BOOLEAN /\ inTail \in BOOLEAN
    /\ inTail => ~NoneOf("deref", elements)

Unread == NoneOf("deref", elements) /\ NoTail(elements)

IsRead(d, h) ==
    /\ derefDone
    /\ Only("deref", d, elements) /\ d.size \in Sizes
    /\ SameFrom(h, operations, elements)

Plain ==
    /\ Unread /\ ~derefDone /\ ~inRelDeref
    /\ NoneOf("@", elements) /\ NoneOf("[", elements) /\ NoneOf("]", elements)
    /\ operations = <<>> /\ relIdx = 0

Placed ==
    /\ Unread /\ derefDone /\ ~inRelDeref
    /\ \E e \in Element :
          /\ Only("@", e, elements)
          /\ operations = Moves(e.at)

AtRead ==
    /\ ~inRelDeref /\ NoneOf("@", elements) /\ NoneOf("[", elements)
    /\ Len(operations) >= 1
    /\ \E d \in Element : IsRead(d, 1) /\ operations[1] = Op(10 + d.size, d.at, 0)

Opened(b) ==
    /\ Only("[", b, elements) /\ NoneOf("@", elements)
    /\ relStartIdx = b.at /\ relIdx = Len(Moves(b.at))
    /\ Len(operations) >= relIdx + 1
    /\ \A k \in 1 .. relIdx : operations[k] = Op(1, b.at, 0)

(* The operation of the brackets.                                          *)
Inner == operations[relIdx + 1]

Nothing ==
    /\ Unread /\ Len(operations) = relIdx + 1 /\ Inner.op = 0
    /\ inRelDeref = ~derefDone

Reading(d) ==
    /\ inRelDeref /\ initDerefIdx = d.at /\ Inner.op = 20 + d.size

Closed(b, d) ==
    /\ ~inRelDeref
    /\ \E c \in Element :
          /\ Only("]", c, elements)
          /\ Inner = Op(20 + d.size, d.at - b.at, c.at - b.at)

Bracketed ==
    \E b \in Element :
        /\ Opened(b)
        /\ inRelDeref => NoneOf("]", elements)
        /\ \/ Nothing
           \/ \E d \in Element : IsRead(d, relIdx + 1) /\ (Reading(d) \/ Closed(b, d))

ScanInv == Typed /\ (Plain \/ Placed \/ AtRead \/ Bracketed)

(* The element that was consumed.                                          *)
Taken(x, kind, size, num) ==
    /\ x \in Element /\ x.kind = kind /\ x.size = size /\ x.num = num /\ x.at = ByteCount
    /\ elements' = Append(elements, x)
    /\ elements' \in Seq(Element) /\ Len(elements') = Len(elements) + 1
    /\ Len(elements') <= MaxElements
    /\ inTail' \in BOOLEAN /\ (inTail' => kind = "deref" \/ kind \in TailKinds)

LEMMA Consumes ==
    ASSUME Typed, NEW kind \in Kinds, NEW size \in Int, NEW num \in Int, Consume(kind, size, num)
    PROVE  \E x : Taken(x, kind, size, num)
  <1> DEFINE x == [kind |-> kind, size |-> size, num |-> num, at |-> ByteCount]
  <1>1. ByteCount \in Nat /\ MaxElements \in Nat /\ elements \in Seq(Element)
    BY PatternScanAssumption DEF PatternScanAssumption, Typed, ByteCount
  <1>2. x \in Element /\ x.kind = kind /\ x.size = size /\ x.num = num /\ x.at = ByteCount
    BY <1>1 DEF Element
  <1>3. elements' = Append(elements, x) /\ Len(elements) < MaxElements
    BY DEF Consume
  <1>4. inTail' \in BOOLEAN /\ (inTail' => kind = "deref" \/ kind \in TailKinds)
    <2> DEFINE B == kind \in {"deref", "again", "plus", "plusDeref", "rel"}
    <2>1. inTail' = B
      BY DEF Consume
    <2>2. B \in BOOLEAN
      OBVIOUS
    <2>3. B => kind = "deref" \/ kind \in TailKinds
      BY DEF TailKinds
    <2> HIDE DEF B
    <2> QED
      BY <2>1, <2>2, <2>3
  <1> HIDE DEF x
  <1>5. elements' \in Seq(Element) /\ Len(elements') = Len(elements) + 1 /\ Len(elements) \in Nat
    BY <1>1, <1>2, <1>3
  <1> QED
    BY <1>1, <1>2, <1>3, <1>4, <1>5 DEF Taken

Special == {"@", "[", "]", "deref"}

(* What is kept if no operation changes.                                   *)
LEMMA OtherKeeps ==
    ASSUME Typed, Plain \/ Placed \/ AtRead \/ Bracketed,
           NEW x, NEW kind, kind \notin Special \union TailKinds, Taken(x, kind, 0, 0),
           UNCHANGED <<operations, derefDone, initDerefIdx, relVars>>
    PROVE  (Plain \/ Placed \/ AtRead \/ Bracketed)'
  <1>1. /\ elements \in Seq(Element) /\ x \in Element /\ elements' = Append(elements, x)
        /\ x.kind = kind
        /\ x.kind # "@" /\ x.kind # "[" /\ x.kind # "]" /\ x.kind # "deref" /\ x.kind \notin TailKinds
    BY DEF Typed, Taken, Special
  <1>2. /\ operations' = operations /\ derefDone' = derefDone /\ initDerefIdx' = initDerefIdx
        /\ inRelDeref' = inRelDeref /\ relIdx' = relIdx /\ relStartIdx' = relStartIdx
    BY DEF relVars
  <1>3. \A k \in Special : NoneOf(k, elements) => NoneOf(k, elements')
    BY <1>1, ElementAdded DEF Special
  <1>4. \A k \in Special : \A e : Only(k, e, elements) => Only(k, e, elements')
    BY <1>1, ElementAdded DEF Special
  <1>5. NoTail(elements) => NoTail(elements')
    BY <1>1, ElementAdded
  <1>6. \A h : SameFrom(h, operations, elements) => SameFrom(h, operations, elements')
    BY <1>1, SameOther
  <1>7. Unread => Unread'
    BY <1>3, <1>5 DEF Unread, Special
  <1>8. \A d, h : IsRead(d, h) => IsRead(d, h)'
    BY <1>2, <1>4, <1>6 DEF IsRead, Special
  <1>9. CASE Plain
    BY <1>2, <1>3, <1>7, <1>9 DEF Plain, Special
  <1>10. CASE Placed
    BY <1>2, <1>4, <1>7, <1>10 DEF Placed, Special
  <1>11. CASE AtRead
    <2>1. PICK d \in Element : IsRead(d, 1) /\ operations[1] = Op(10 + d.size, d.at, 0)
      BY <1>11 DEF AtRead
    <2>2. IsRead(d, 1)' /\ operations'[1] = Op(10 + d.size, d.at, 0)
      BY <1>2, <1>8, <2>1
    <2> QED
      BY <1>2, <1>3, <1>11, <2>2 DEF AtRead, Special
  <1>12. CASE Bracketed
    <2>1. PICK b \in Element :
              /\ Opened(b)
              /\ inRelDeref => NoneOf("]", elements)
              /\ \/ Nothing
                 \/ \E d \in Element : IsRead(d, relIdx + 1) /\ (Reading(d) \/ Closed(b, d))
      BY <1>12 DEF Bracketed
    <2>2. Opened(b)' /\ (inRelDeref => NoneOf("]", elements))'
      BY <1>2, <1>3, <1>4, <2>1 DEF Opened, Special
    <2>3. CASE Nothing
      <3>1. Nothing'
        BY <1>2, <1>7, <2>3 DEF Nothing, Inner
      <3> QED
        BY <2>2, <3>1 DEF Bracketed
    <2>4. CASE \E d \in Element : IsRead(d, relIdx + 1) /\ (Reading(d) \/ Closed(b, d))
      <3>1. PICK d \in Element : IsRead(d, relIdx + 1) /\ (Reading(d) \/ Closed(b, d))
        BY <2>4
      <3>2. IsRead(d, relIdx + 1)'
        BY <1>2, <1>8, <3>1
      <3>3. Reading(d) => Reading(d)'
        BY <1>2 DEF Reading, Inner
      <3>4. Closed(b, d) => Closed(b, d)'
        BY <1>2, <1>4 DEF Closed, Inner, Special
      <3> QED
        BY <2>2, <3>1, <3>2, <3>3, <3>4 DEF Bracketed
    <2> QED
      BY <2>1, <2>3, <2>4
  <1> QED
    BY <1>9, <1>10, <1>11, <1>12

(* Types are kept by every step.                                           *)
LEMMA BytesTyped == Typed => ByteCount \in 0 .. MaxElements /\ ByteCount \in Nat
  BY PatternScanAssumption DEF PatternScanAssumption, Typed, ByteCount

LEMMA MovesAre ==
    ASSUME NEW n \in Nat
    PROVE  /\ Moves(n) \in Seq(Ops) /\ Len(Moves(n)) \in 0 .. 1
           /\ (n = 0 <=> Len(Moves(n)) = 0)
           /\ \A k \in 1 .. Len(Moves(n)) : Moves(n)[k] = Op(1, n, 0)
           /\ Moves(n) = <<>> <=> n = 0
  <1>1. Op(1, n, 0) \in Ops
    BY DEF Op, Ops
  <1>2. CASE n = 0
    BY <1>2 DEF Moves
  <1>3. CASE n # 0
    <2> DEFINE p == Op(1, n, 0)
    <2>1. p \in Ops /\ Moves(n) = <<p>> /\ p = Op(1, n, 0)
      BY <1>1, <1>3 DEF Moves
    <2> HIDE DEF p
    <2> QED
      BY <1>3, <2>1
  <1> QED
    BY <1>2, <1>3

LEMMA MoveToIs == MoveTo = Moves(ByteCount)
  BY DEF MoveTo, Moves

LEMMA ByteKeeps ==
    ASSUME ScanInv, NEW byte \in ByteValues \union {AnyByte}, ParseByte(byte)
    PROVE  ScanInv'
  <1> DEFINE kind == IF byte = AnyByte THEN "?" ELSE "byte"
  <1>0. kind \in Kinds /\ kind \notin Special \union TailKinds /\ kind # "deref"
    BY DEF Kinds, TailKinds, Special
  <1>1. Typed /\ Consume(kind, 0, 0)
    BY DEF ScanInv, ParseByte
  <1> HIDE DEF kind
  <1>2. PICK x : Taken(x, kind, 0, 0)
    BY <1>0, <1>1, Consumes
  <1>3. (Plain \/ Placed \/ AtRead \/ Bracketed)'
    <2>1. Plain \/ Placed \/ AtRead \/ Bracketed
      BY DEF ScanInv
    <2>2. UNCHANGED <<operations, derefDone, initDerefIdx, relVars>>
      BY DEF ParseByte
    <2> QED
      BY <1>0, <1>1, <1>2, <2>1, <2>2, OtherKeeps
  <1>4. /\ patternBytes' \in Seq(ByteValues \union {AnyByte}) /\ Len(patternBytes') = Len(patternBytes) + 1
        /\ Len(patternBytes) \in Nat
    BY <1>1 DEF ParseByte, Typed
  <1>5. ByteCount' <= Len(elements') /\ Len(elements') <= MaxElements /\ elements' \in Seq(Element)
    <2>1. /\ Len(elements') = Len(elements) + 1 /\ Len(elements') <= MaxElements
          /\ elements' \in Seq(Element) /\ elements \in Seq(Element)
          /\ Len(patternBytes) <= Len(elements)
      BY <1>1, <1>2 DEF Taken, Typed, ByteCount
    <2> QED
      BY <1>4, <2>1 DEF ByteCount
  <1>6. inTail' \in BOOLEAN /\ ~inTail'
    BY <1>0, <1>2 DEF Taken
  <1>7. Typed'
    BY <1>1, <1>4, <1>5, <1>6 DEF Typed, ParseByte, relVars
  <1> QED
    BY <1>3, <1>7 DEF ScanInv

(* What an element other than a byte leaves as it was.                     *)
LEMMA ElementTyped ==
    ASSUME Typed, NEW x, NEW kind, NEW size, NEW num, Taken(x, kind, size, num), patternBytes' = patternBytes
    PROVE  /\ patternBytes' \in Seq(ByteValues \union {AnyByte}) /\ ByteCount' = ByteCount
           /\ ByteCount' <= Len(elements') /\ Len(elements') <= MaxElements
           /\ elements' \in Seq(Element) /\ inTail' \in BOOLEAN
           /\ 1 \in 0 .. MaxElements /\ 0 \in 0 .. MaxElements /\ ByteCount \in 0 .. MaxElements
  <1>1. /\ Len(elements') = Len(elements) + 1 /\ Len(elements') <= MaxElements
        /\ elements' \in Seq(Element) /\ elements \in Seq(Element) /\ inTail' \in BOOLEAN
        /\ ByteCount <= Len(elements) /\ Len(elements) \in Nat /\ MaxElements \in Nat
        /\ ByteCount \in Nat /\ ByteCount' = ByteCount
    BY BytesTyped, PatternScanAssumption DEF PatternScanAssumption, Taken, Typed, ByteCount
  <1> QED
    BY <1>1 DEF Typed

LEMMA AtKeeps == ASSUME ScanInv, ParseAt PROVE ScanInv'
  <1>1. Typed /\ Consume("@", 0, 0) /\ "@" \in Kinds /\ patternBytes' = patternBytes
    BY DEF ScanInv, ParseAt, Kinds
  <1>2. PICK x : Taken(x, "@", 0, 0)
    BY <1>1, Consumes
  <1>3. Plain
    <2>1. ~inRelDeref /\ ~derefDone /\ operations = <<>>
      BY DEF ParseAt
    <2>2. ~Placed /\ ~AtRead
      BY <2>1 DEF Placed, AtRead, IsRead
    <2>3. ASSUME Bracketed PROVE FALSE
      <3>1. \E b \in Element : Nothing
        BY <2>1, <2>3 DEF Bracketed, IsRead
      <3> QED
        BY <2>1, <3>1 DEF Nothing
    <2> QED
      BY <2>2, <2>3 DEF ScanInv
  <1>4. operations' = Moves(ByteCount) /\ derefDone' = TRUE /\ ByteCount \in Nat
    BY <1>1, MoveToIs, BytesTyped DEF ParseAt
  <1>5. x.at = ByteCount /\ x \in Element /\ x.kind = "@" /\ "@" \notin TailKinds /\ elements \in Seq(Element)
        /\ elements' = Append(elements, x)
    BY <1>1, <1>2 DEF Taken, Typed, TailKinds
  <1>6. Unread' /\ Only("@", x, elements')
    BY <1>3, <1>5, ElementAdded DEF Plain, Unread
  <1>7. Placed'
    BY <1>4, <1>5, <1>6 DEF ParseAt, Placed, relVars
  <1>8. operations' \in Seq(Ops)
    BY <1>4, MovesAre
  <1>9. ~inTail'
    BY <1>2 DEF Taken, TailKinds
  <1>10. Typed'
    BY <1>1, <1>2, <1>4, <1>8, <1>9, ElementTyped DEF Typed, ParseAt, relVars
  <1> QED
    BY <1>7, <1>10 DEF ScanInv

LEMMA OpenKeeps == ASSUME ScanInv, ParseOpen PROVE ScanInv'
  <1>1. Typed /\ Consume("[", 0, 0) /\ "[" \in Kinds /\ patternBytes' = patternBytes
    BY DEF ScanInv, ParseOpen, Kinds
  <1>2. PICK x : Taken(x, "[", 0, 0)
    BY <1>1, Consumes
  <1>3. Plain
    <2>1. ~inRelDeref /\ ~derefDone
      BY DEF ParseOpen
    <2>2. ~Placed /\ ~AtRead
      BY <2>1 DEF Placed, AtRead, IsRead
    <2>3. ~Bracketed
      BY <2>1 DEF Bracketed, IsRead, Nothing
    <2> QED
      BY <2>2, <2>3 DEF ScanInv
  <1> DEFINE m == Moves(ByteCount)
  <1>4. /\ ByteCount \in Nat /\ m \in Seq(Ops) /\ Len(m) \in 0 .. 1 /\ m = MoveTo
        /\ \A k \in 1 .. Len(m) : m[k] = Op(1, ByteCount, 0)
    BY <1>1, MoveToIs, BytesTyped, MovesAre
  <1>5. x.at = ByteCount /\ x \in Element /\ x.kind = "[" /\ "[" \notin TailKinds /\ elements \in Seq(Element)
        /\ elements' = Append(elements, x)
    BY <1>1, <1>2 DEF Taken, Typed, TailKinds
  <1>6. /\ Unread' /\ Only("[", x, elements')
        /\ NoneOf("@", elements)' /\ NoneOf("]", elements)'
    BY <1>3, <1>5, ElementAdded DEF Plain, Unread
  <1>7. relIdx' = Len(m) /\ relStartIdx' = x.at /\ inRelDeref' = TRUE /\ derefDone' = FALSE
    <2>1. relIdx' = 0 + Len(m) /\ derefDone' = derefDone
      BY <1>3, <1>4 DEF ParseOpen, Plain
    <2> QED
      BY <1>3, <1>4, <1>5, <2>1 DEF ParseOpen, Plain
  <1>8. operations' = m \o <<NoOp>>
    <2>1. operations' = <<>> \o m \o <<NoOp>>
      BY <1>3, <1>4 DEF ParseOpen, Plain
    <2> HIDE DEF m
    <2> QED
      BY <1>4, <2>1
  <1>9. NoOp \in Ops /\ NoOp.op = 0
    BY DEF NoOp, Op, Ops
  <1> DEFINE p == NoOp
  <1>10. m = Moves(x.at)
    BY <1>5
  <1> HIDE DEF m, p
  <1>11. /\ operations' \in Seq(Ops) /\ Len(operations') = Len(m) + 1
         /\ operations'[Len(m) + 1] = p
         /\ \A k \in 1 .. Len(m) : operations'[k] = m[k]
    <2>1. operations' = m \o <<p>> /\ p \in Ops
      BY <1>8, <1>9 DEF p
    <2> QED
      BY <1>4, <2>1
  <1>12. Opened(x)'
    BY <1>4, <1>5, <1>6, <1>7, <1>10, <1>11 DEF Opened
  <1>13. Nothing'
    <2>1. Inner' = p
      BY <1>7, <1>11 DEF Inner
    <2> QED
      BY <1>6, <1>7, <1>9, <1>11, <2>1 DEF Nothing, p
  <1>14. Bracketed'
    BY <1>5, <1>6, <1>12, <1>13 DEF Bracketed
  <1>15. ~inTail'
    BY <1>2 DEF Taken, TailKinds
  <1>16. relIdx' \in 0 .. MaxElements /\ relStartIdx' \in 0 .. MaxElements /\ initDerefIdx' = initDerefIdx
    <2>1. 1 \in 0 .. MaxElements /\ ByteCount \in 0 .. MaxElements /\ MaxElements \in Nat
      BY <1>1, <1>2, ElementTyped, PatternScanAssumption DEF PatternScanAssumption
    <2> QED
      BY <1>4, <1>5, <1>7, <2>1 DEF ParseOpen
  <1>17. Typed'
    BY <1>1, <1>2, <1>7, <1>11, <1>15, <1>16, ElementTyped DEF Typed
  <1> QED
    BY <1>14, <1>17 DEF ScanInv

LEMMA CloseKeeps == ASSUME ScanInv, ParseClose PROVE ScanInv'
  <1>1. Typed /\ Consume("]", 0, 0) /\ "]" \in Kinds /\ patternBytes' = patternBytes /\ inRelDeref
    BY DEF ScanInv, ParseClose, Kinds
  <1>2. PICK x : Taken(x, "]", 0, 0)
    BY <1>1, Consumes
  <1>3. PICK b \in Element :
            /\ Opened(b)
            /\ NoneOf("]", elements)
            /\ \/ Nothing
               \/ \E d \in Element : IsRead(d, relIdx + 1) /\ (Reading(d) \/ Closed(b, d))
    BY <1>1 DEF ScanInv, Plain, Placed, AtRead, Bracketed
  <1> DEFINE i == relIdx + 1
             v == operations[i]
             off == initDerefIdx - relStartIdx
             len == ByteCount - relStartIdx
             w == [v EXCEPT !.offset = off, !.v1 = len]
  <1>4. /\ operations' = [operations EXCEPT ![i].offset = off, ![i].v1 = len]
        /\ inRelDeref' = FALSE /\ derefDone' = TRUE
        /\ relIdx' = relIdx /\ relStartIdx' = relStartIdx /\ initDerefIdx' = initDerefIdx
    BY DEF ParseClose
  <1>5. /\ i \in 1 .. Len(operations) /\ relIdx \in Nat /\ operations \in Seq(Ops)
        /\ off \in Int /\ len \in Int /\ ByteCount \in Nat
    <2>1. /\ relIdx \in Nat /\ relStartIdx \in Nat /\ initDerefIdx \in Nat /\ ByteCount \in Nat
          /\ operations \in Seq(Ops) /\ MaxElements \in Nat
      BY <1>1, BytesTyped, PatternScanAssumption DEF PatternScanAssumption, Typed
    <2>2. Len(operations) >= relIdx + 1
      BY <1>3 DEF Opened
    <2> QED
      BY <2>1, <2>2
  <1>6. v \in Ops
    BY <1>5
  <1> HIDE DEF v, off, len
  <1>7. w \in Ops /\ w.op = v.op /\ w = Op(v.op, off, len)
    <2>1. w \in Ops /\ w.op = v.op
      BY <1>5, <1>6 DEF Ops
    <2>2. w.offset = off /\ w.v1 = len
      BY <1>5, <1>6 DEF Ops
    <2> HIDE DEF w
    <2>3. w = [op |-> w.op, offset |-> w.offset, v1 |-> w.v1]
      BY <2>1 DEF Ops
    <2> QED
      BY <2>1, <2>2, <2>3 DEF Op
  <1>8. operations' = [operations EXCEPT ![i] = w]
    BY <1>4, <1>5, <1>6 DEF v, Ops
  <1> HIDE DEF w, i
  <1>9. /\ operations' \in Seq(Ops) /\ Len(operations') = Len(operations)
        /\ operations'[i] = w
        /\ \A k \in 1 .. Len(operations) : k # i => operations'[k] = operations[k]
    BY <1>5, <1>7, <1>8
  <1>10. x.at = ByteCount /\ x \in Element /\ x.kind = "]" /\ "]" \notin TailKinds /\ elements \in Seq(Element)
         /\ elements' = Append(elements, x)
    BY <1>1, <1>2 DEF Taken, Typed, TailKinds
  <1>11. /\ \A e : Only("[", e, elements) => Only("[", e, elements')
         /\ \A e : Only("deref", e, elements) => Only("deref", e, elements')
         /\ NoneOf("@", elements) => NoneOf("@", elements')
         /\ NoneOf("deref", elements) => NoneOf("deref", elements')
         /\ NoTail(elements) => NoTail(elements')
         /\ Only("]", x, elements')
    BY <1>3, <1>10, ElementAdded
  <1>12. Opened(b)'
    <2>1. \A k \in 1 .. relIdx : operations'[k] = operations[k]
      BY <1>5, <1>9 DEF i
    <2> QED
      BY <1>3, <1>4, <1>9, <1>11, <2>1 DEF Opened
  <1>13. Inner' = w /\ Inner = v
    BY <1>4, <1>9 DEF Inner, i, v
  <1>14. ASSUME Nothing PROVE Bracketed'
    <2>1. Nothing'
      BY <1>4, <1>7, <1>9, <1>11, <1>13, <1>14 DEF Nothing, Unread
    <2> QED
      BY <1>3, <1>4, <1>12, <2>1 DEF Bracketed
  <1>15. ASSUME \E d \in Element : IsRead(d, relIdx + 1) /\ (Reading(d) \/ Closed(b, d))
         PROVE  Bracketed'
    <2>1. PICK d \in Element : IsRead(d, i) /\ (Reading(d) \/ Closed(b, d))
      BY <1>15 DEF i
    <2>2. Reading(d)
      BY <1>1, <2>1 DEF Closed
    <2>3. SameFrom(i, operations', elements')
      <3>1. SameFrom(i, operations, elements')
        BY <1>10, <2>1, SameOther DEF IsRead
      <3>2. \A k \in i + 1 .. Len(operations) : operations'[k] = operations[k]
        BY <1>5, <1>9
      <3> QED
        BY <1>9, <3>1, <3>2, SameBehind
    <2>4. IsRead(d, i)'
      BY <1>4, <1>11, <2>1, <2>3 DEF IsRead, i
    <2>5. w = Op(20 + d.size, d.at - b.at, x.at - b.at)
      BY <1>3, <1>7, <1>10, <1>13, <2>2 DEF Reading, Opened, off, len
    <2>6. Closed(b, d)'
      BY <1>4, <1>10, <1>11, <1>13, <2>5 DEF Closed
    <2> QED
      BY <1>3, <1>4, <1>12, <2>1, <2>4, <2>6 DEF Bracketed, i
  <1>16. Bracketed'
    <2>1. Nothing \/ \E d \in Element : IsRead(d, relIdx + 1) /\ (Reading(d) \/ Closed(b, d))
      BY <1>3
    <2> QED
      BY <1>14, <1>15, <2>1
  <1>17. ~inTail'
    BY <1>2 DEF Taken, TailKinds
  <1>18. Typed'
    BY <1>1, <1>2, <1>4, <1>9, <1>17, ElementTyped DEF Typed
  <1> QED
    BY <1>16, <1>18 DEF ScanInv

LEMMA DerefKeeps == ASSUME ScanInv, NEW size \in Sizes, ParseDeref(size) PROVE ScanInv'
  <1>1. Typed /\ Consume("deref", size, 0) /\ "deref" \in Kinds /\ patternBytes' = patternBytes
        /\ size \in {1, 2, 4, 8} /\ size \in Int
    BY PatternScanAssumption DEF PatternScanAssumption, ScanInv, ParseDeref, Kinds
  <1>2. PICK x : Taken(x, "deref", size, 0)
    BY <1>1, Consumes
  <1>3. /\ x.at = ByteCount /\ x \in Element /\ x.kind = "deref" /\ x.size = size
        /\ "deref" \notin TailKinds /\ elements \in Seq(Element) /\ elements' = Append(elements, x)
        /\ elements' \in Seq(Element)
    BY <1>1, <1>2 DEF Taken, Typed, TailKinds
  <1>4. /\ derefDone' = TRUE /\ initDerefIdx' = ByteCount /\ ~derefDone
        /\ inRelDeref' = inRelDeref /\ relIdx' = relIdx /\ relStartIdx' = relStartIdx
    BY DEF ParseDeref, relVars
  <1>5. /\ \A e : Only("[", e, elements) => Only("[", e, elements')
        /\ NoneOf("@", elements) => NoneOf("@", elements')
        /\ NoneOf("[", elements) => NoneOf("[", elements')
        /\ NoneOf("]", elements) => NoneOf("]", elements')
        /\ NoTail(elements) => NoTail(elements')
        /\ NoneOf("deref", elements) => Only("deref", x, elements')
    BY <1>3, ElementAdded
  <1>6. ~NoneOf("deref", elements')
    <2>1. x = elements'[Len(elements) + 1] /\ Len(elements) + 1 \in 1 .. Len(elements')
      BY <1>3
    <2> QED
      BY <1>3, <2>1 DEF NoneOf
  <1>7. ByteCount \in 0 .. MaxElements /\ ByteCount \in Nat /\ operations \in Seq(Ops)
    BY <1>1, BytesTyped DEF Typed
  <1>8. CASE Plain
    <2> DEFINE p == Op(10 + size, ByteCount, 0)
    <2>1. operations' = Append(operations, p) /\ operations = <<>>
      BY <1>8 DEF ParseDeref, Plain
    <2>2. p \in Ops /\ p = Op(10 + size, x.at, 0)
      <3>1. 10 + size \in 0 .. 28 /\ ByteCount \in Int /\ 0 \in Int
        BY <1>1, <1>7
      <3>2. p \in Ops
        BY <3>1 DEF Op, Ops
      <3> QED
        BY <1>3, <3>2
    <2> HIDE DEF p
    <2>3. operations' \in Seq(Ops) /\ Len(operations') = 1 /\ operations'[1] = p
      BY <2>1, <2>2
    <2>4. NoTail(elements') /\ Only("deref", x, elements') /\ NoneOf("@", elements') /\ NoneOf("[", elements')
      BY <1>5, <1>8 DEF Plain, Unread
    <2>5. SameFrom(1, operations', elements')
      BY <1>3, <2>3, <2>4, SameStart
    <2>6. IsRead(x, 1)'
      BY <1>3, <1>4, <2>4, <2>5 DEF IsRead
    <2>7. AtRead'
      BY <1>3, <1>4, <1>8, <2>2, <2>3, <2>4, <2>6 DEF AtRead, Plain
    <2>8. Typed'
      BY <1>1, <1>2, <1>4, <1>6, <1>7, <2>3, ElementTyped DEF Typed
    <2> QED
      BY <2>7, <2>8 DEF ScanInv
  <1>9. CASE ~Plain
    <2>1. PICK b \in Element : Opened(b) /\ (inRelDeref => NoneOf("]", elements)) /\ Nothing
      BY <1>4, <1>9 DEF ScanInv, Placed, AtRead, Bracketed, IsRead
    <2>2. inRelDeref /\ NoneOf("]", elements) /\ Unread
      BY <1>4, <2>1 DEF Nothing
    <2> DEFINE i == relIdx + 1
               v == operations[i]
               w == [v EXCEPT !.op = 20 + size]
    <2>3. i \in 1 .. Len(operations) /\ Len(operations) = i /\ relIdx \in Nat
      <3>1. relIdx \in Nat /\ Len(operations) = relIdx + 1
        BY <1>1, <2>1, PatternScanAssumption DEF PatternScanAssumption, Typed, Nothing
      <3> QED
        BY <3>1
    <2>4. v \in Ops
      BY <1>7, <2>3
    <2>5. operations' = [operations EXCEPT ![i].op = 20 + size]
      BY <2>2 DEF ParseDeref
    <2> HIDE DEF v
    <2>6. w \in Ops /\ w.op = 20 + size
      BY <1>1, <2>4 DEF Ops
    <2>7. operations' = [operations EXCEPT ![i] = w]
      BY <1>7, <2>3, <2>5 DEF v
    <2> HIDE DEF w, i
    <2>8. /\ operations' \in Seq(Ops) /\ Len(operations') = i /\ operations'[i] = w
          /\ \A k \in 1 .. Len(operations) : k # i => operations'[k] = operations[k]
      BY <1>7, <2>3, <2>6, <2>7
    <2>9. Opened(b)'
      <3>1. \A k \in 1 .. relIdx : operations'[k] = operations[k]
        BY <2>3, <2>8 DEF i
      <3> QED
        BY <1>4, <1>5, <2>1, <2>3, <2>8, <3>1 DEF Opened
    <2>10. NoTail(elements') /\ Only("deref", x, elements') /\ NoneOf("]", elements')
      BY <1>5, <2>2 DEF Unread
    <2>11. SameFrom(i, operations', elements')
      BY <1>3, <2>8, <2>10, SameStart
    <2>12. IsRead(x, i)'
      BY <1>3, <1>4, <2>10, <2>11 DEF IsRead, i
    <2>13. Reading(x)'
      BY <1>3, <1>4, <2>2, <2>6, <2>8 DEF Reading, Inner, i
    <2>14. Bracketed'
      BY <1>3, <2>9, <2>10, <2>12, <2>13 DEF Bracketed, i
    <2>15. Typed'
      BY <1>1, <1>2, <1>4, <1>6, <1>7, <2>8, ElementTyped DEF Typed
    <2> QED
      BY <2>14, <2>15 DEF ScanInv
  <1> QED
    BY <1>8, <1>9

LEMMA TailStep ==
    ASSUME ScanInv, inTail, NEW x, NEW kind, NEW size, NEW num, Taken(x, kind, size, num),
           NEW op \in Ops, Fits(x, op),
           operations' = Append(operations, op),
           UNCHANGED <<patternBytes, derefDone, initDerefIdx, relVars>>
    PROVE  ScanInv'
  <1>1. Typed /\ ~Unread /\ operations \in Seq(Ops) /\ elements \in Seq(Element)
    BY DEF ScanInv, Typed, Unread
  <1>2. /\ patternBytes' = patternBytes /\ derefDone' = derefDone /\ initDerefIdx' = initDerefIdx
        /\ inRelDeref' = inRelDeref /\ relIdx' = relIdx /\ relStartIdx' = relStartIdx
    BY DEF relVars
  <1>3. x.kind \in TailKinds /\ x \in Element /\ elements' = Append(elements, x)
    BY DEF Fits, TailKinds, Taken
  <1>4. x.kind # "@" /\ x.kind # "[" /\ x.kind # "]" /\ x.kind # "deref"
    BY <1>3 DEF TailKinds
  <1>5. \A k \in Special : NoneOf(k, elements) => NoneOf(k, elements')
    BY <1>1, <1>3, <1>4, ElementAdded DEF Special
  <1>6. \A k \in Special : \A e : Only(k, e, elements) => Only(k, e, elements')
    BY <1>1, <1>3, <1>4, ElementAdded DEF Special
  <1>7. \A h \in 0 .. Len(operations) :
            SameFrom(h, operations, elements) => SameFrom(h, operations', elements')
    BY <1>1, <1>3, SameTail
  <1>8. \A d : \A h \in 0 .. Len(operations) : IsRead(d, h) => IsRead(d, h)'
    BY <1>2, <1>6, <1>7 DEF IsRead, Special
  <1>9. /\ Len(operations) \in Nat /\ Len(operations') = Len(operations) + 1
        /\ operations' \in Seq(Ops)
        /\ \A k \in 1 .. Len(operations) : operations'[k] = operations[k]
    BY <1>1
  <1>10. ~NoneOf("deref", elements')
    <2>1. PICK n \in 1 .. Len(elements) : elements[n].kind = "deref"
      BY <1>1 DEF Typed, NoneOf
    <2>2. n \in 1 .. Len(elements') /\ elements'[n] = elements[n]
      BY <1>1, <1>3
    <2> QED
      BY <2>1, <2>2 DEF NoneOf
  <1>11. Typed'
    BY <1>1, <1>2, <1>9, <1>10, ElementTyped DEF Typed
  <1>12. ASSUME AtRead PROVE AtRead'
    <2>1. PICK d \in Element : IsRead(d, 1) /\ operations[1] = Op(10 + d.size, d.at, 0)
      BY <1>12 DEF AtRead
    <2>2. 1 \in 0 .. Len(operations) /\ 1 \in 1 .. Len(operations)
      BY <1>9, <1>12 DEF AtRead
    <2>3. IsRead(d, 1)' /\ operations'[1] = Op(10 + d.size, d.at, 0)
      BY <1>8, <1>9, <2>1, <2>2
    <2>4. Len(operations') >= 1
      BY <1>9
    <2> QED
      BY <1>2, <1>5, <1>12, <2>3, <2>4 DEF AtRead, Special
  <1>13. ASSUME Bracketed PROVE Bracketed'
    <2>1. PICK b \in Element :
              /\ Opened(b)
              /\ inRelDeref => NoneOf("]", elements)
              /\ \/ Nothing
                 \/ \E d \in Element : IsRead(d, relIdx + 1) /\ (Reading(d) \/ Closed(b, d))
      BY <1>13 DEF Bracketed
    <2>2. PICK d \in Element : IsRead(d, relIdx + 1) /\ (Reading(d) \/ Closed(b, d))
      BY <1>1, <2>1 DEF Nothing
    <2>3. relIdx \in Nat /\ relIdx + 1 \in 1 .. Len(operations) /\ relIdx + 1 \in 0 .. Len(operations)
      <3>1. relIdx \in Nat /\ relIdx + 1 <= Len(operations)
        BY <1>1, <2>1 DEF Typed, Opened
      <3> QED
        BY <1>9, <3>1
    <2>4. Opened(b)'
      <3>1. \A k \in 1 .. relIdx : operations'[k] = operations[k]
        BY <1>9, <2>3
      <3>2. Len(operations') >= relIdx + 1
        BY <1>9, <2>3
      <3> QED
        BY <1>2, <1>5, <1>6, <2>1, <3>1, <3>2 DEF Opened, Special
    <2>5. IsRead(d, relIdx + 1)'
      BY <1>2, <1>8, <2>2, <2>3
    <2>6. Inner' = Inner
      BY <1>2, <1>9, <2>3 DEF Inner
    <2>7. Reading(d) => Reading(d)'
      BY <1>2, <2>6 DEF Reading
    <2>8. Closed(b, d) => Closed(b, d)'
      BY <1>2, <1>6, <2>6 DEF Closed, Special
    <2>9. (inRelDeref => NoneOf("]", elements))'
      BY <1>2, <1>5, <2>1 DEF Special
    <2> QED
      BY <2>2, <2>4, <2>5, <2>7, <2>8, <2>9 DEF Bracketed
  <1>14. AtRead \/ Bracketed
    BY <1>1 DEF ScanInv, Plain, Placed
  <1> QED
    BY <1>11, <1>12, <1>13, <1>14 DEF ScanInv

LEMMA MoreKeeps ==
    ASSUME ScanInv, NEW kind \in TailKinds, NEW size \in Int, NEW num \in Int, NEW op \in Ops,
           ParseMore(kind, size, num, op),
           \A x : Taken(x, kind, size, num) => Fits(x, op)
    PROVE  ScanInv'
  <1>1. Typed /\ Consume(kind, size, num) /\ inTail /\ kind \in Kinds
    BY DEF ScanInv, ParseMore, Kinds
  <1>2. PICK x : Taken(x, kind, size, num)
    BY <1>1, Consumes
  <1>3. /\ operations' = Append(operations, op)
        /\ UNCHANGED <<patternBytes, derefDone, initDerefIdx, relVars>>
    BY DEF ParseMore
  <1> QED
    BY <1>1, <1>2, <1>3, TailStep

LEMMA TailKeeps == ASSUME ScanInv, ParseTail PROVE ScanInv'
  <1>1. Sizes \subseteq {1, 2, 4, 8} /\ Sizes \subseteq Int /\ Offsets \subseteq Int
    BY PatternScanAssumption DEF PatternScanAssumption
  <1>2. {"again", "plus", "plusDeref", "rel"} \subseteq TailKinds
    BY DEF TailKinds
  <1>3. ASSUME NEW size \in Sizes, ParseMore("again", size, 0, Op(10 + size, 0, 0)) PROVE ScanInv'
    <2>1. Op(10 + size, 0, 0) \in Ops
      BY <1>1 DEF Op, Ops
    <2>2. \A x : Taken(x, "again", size, 0) => Fits(x, Op(10 + size, 0, 0))
      BY DEF Taken, Fits
    <2> QED
      BY <1>1, <1>2, <1>3, <2>1, <2>2, MoreKeeps
  <1>4. ASSUME NEW num \in Offsets, ParseMore("plus", 0, num, Op(1, num, 0)) PROVE ScanInv'
    <2>1. Op(1, num, 0) \in Ops
      BY <1>1 DEF Op, Ops
    <2>2. \A x : Taken(x, "plus", 0, num) => Fits(x, Op(1, num, 0))
      BY DEF Taken, Fits
    <2> QED
      BY <1>1, <1>2, <1>4, <2>1, <2>2, MoreKeeps
  <1>5. ASSUME NEW num \in Offsets, NEW size \in Sizes,
               ParseMore("plusDeref", size, num, Op(10 + size, num, 0))
        PROVE  ScanInv'
    <2>1. Op(10 + size, num, 0) \in Ops
      BY <1>1 DEF Op, Ops
    <2>2. \A x : Taken(x, "plusDeref", size, num) => Fits(x, Op(10 + size, num, 0))
      BY DEF Taken, Fits
    <2> QED
      BY <1>1, <1>2, <1>5, <2>1, <2>2, MoreKeeps
  <1>6. ASSUME NEW off \in Offsets, NEW size \in Offsets,
               ParseMore("rel", size, off, Op(20 + PointerSize, off, size))
        PROVE  ScanInv'
    <2>1. Op(20 + PointerSize, off, size) \in Ops
      BY <1>1 DEF Op, Ops, PointerSize
    <2>2. \A x : Taken(x, "rel", size, off) => Fits(x, Op(20 + PointerSize, off, size))
      BY DEF Taken, Fits
    <2> QED
      BY <1>1, <1>2, <1>6, <2>1, <2>2, MoreKeeps
  <1> QED
    BY <1>3, <1>4, <1>5, <1>6 DEF ParseTail

LEMMA ParseStarts == ParseInit => ScanInv
  <1> SUFFICES ASSUME ParseInit PROVE ScanInv
    OBVIOUS
  <1>1. Len(elements) = 0 /\ Len(patternBytes) = 0 /\ elements \in Seq(Element)
        /\ operations \in Seq(Ops) /\ patternBytes \in Seq(ByteValues \union {AnyByte})
        /\ 1 .. Len(elements) = {}
    BY DEF ParseInit
  <1>2. 0 \in 0 .. MaxElements /\ 0 <= MaxElements
    BY PatternScanAssumption DEF PatternScanAssumption
  <1>3. Typed
    <2>1. inRelDeref \in BOOLEAN /\ derefDone \in BOOLEAN /\ inTail \in BOOLEAN /\ ~inTail
      BY DEF ParseInit
    <2>2. relIdx = 0 /\ relStartIdx = 0 /\ initDerefIdx = 0
      BY DEF ParseInit
    <2>3. ByteCount <= Len(elements) /\ Len(elements) <= MaxElements
      BY <1>1, <1>2 DEF ByteCount
    <2> QED
      BY <1>1, <1>2, <2>1, <2>2, <2>3 DEF Typed
  <1>4. Plain
    BY <1>1 DEF ParseInit, Plain, Unread, NoneOf, NoTail
  <1> QED
    BY <1>3, <1>4 DEF ScanInv

LEMMA ParseHolds == ParseSpec => []ScanInv
  <1>1. ASSUME ScanInv, ParseNext PROVE ScanInv'
    BY <1>1, ByteKeeps, AtKeeps, OpenKeeps, CloseKeeps, DerefKeeps, TailKeeps DEF ParseNext
  <1>2. ScanInv /\ UNCHANGED scanVars => ScanInv'
    BY DEF scanVars, ScanInv, Typed, Plain, Placed, AtRead, Bracketed, Unread, IsRead, Opened, Inner,
           Nothing, Reading, Closed, ByteCount
  <1> QED
    BY <1>1, <1>2, ParseStarts, PTL DEF ParseSpec

(* What the operations come to, from the address the first of them reach.  *)
LEMMA ResultIs ==
    ASSUME Typed, NEW h \in 0 .. Len(operations), SameFrom(h, operations, elements), NEW x,
           x[0] = Match, \A k \in 1 .. h : x[k] = RunOp(x[k - 1], operations[k]),
           x[h] = FirstAddress, IsAddress(FirstAddress)
    PROVE  OperationsMean
  <1>1. operations \in Seq(Ops) /\ elements \in Seq(Element)
    BY DEF Typed
  <1>2. FoldLeft(RunOp, Match, operations) = FoldLeft(Then, x[h], elements)
    BY <1>1, SameMeans
  <1> QED
    BY <1>2 DEF OperationsMean, Result

LEMMA PlainMeans == ASSUME Typed, Plain PROVE OperationsMean
  <1>1. ~Has("@") /\ ~Has("[") /\ ~Has("deref")
    BY NoneIs DEF Typed, Plain, Unread
  <1>2. FirstAddress = Match
    BY <1>1 DEF FirstAddress
  <1>3. operations \in Seq(Ops) /\ elements \in Seq(Element) /\ Len(operations) = 0
    BY DEF Typed, Plain
  <1>4. SameFrom(0, operations, elements)
    BY <1>3, SameStart DEF Plain, Unread
  <1> DEFINE x == [k \in {0} |-> Match]
  <1>5. x[0] = Match /\ 1 .. 0 = {} /\ 0 \in 0 .. Len(operations)
    BY <1>3
  <1> HIDE DEF x
  <1>6. \A k \in 1 .. 0 : x[k] = RunOp(x[k - 1], operations[k])
    BY <1>5
  <1> QED
    BY <1>2, <1>4, <1>5, <1>6, MatchIs, ResultIs

LEMMA PlacedMeans == ASSUME Typed, Placed PROVE OperationsMean
  <1>1. PICK e \in Element : Only("@", e, elements) /\ operations = Moves(e.at)
    BY DEF Placed
  <1>2. e.at \in Nat /\ operations \in Seq(Ops) /\ elements \in Seq(Element)
    BY DEF Element, Typed
  <1>3. FirstAddress = Add(Match, e.at) /\ IsAddress(FirstAddress)
    <2>1. Has("@") /\ The("@") = e
      BY <1>1, <1>2, OnlyIs
    <2> QED
      BY <1>2, <2>1, MatchIs, AddressAdd DEF FirstAddress
  <1> DEFINE h == Len(operations)
  <1>4. h \in 0 .. 1 /\ (e.at = 0 <=> h = 0) /\ \A k \in 1 .. h : operations[k] = Op(1, e.at, 0)
    BY <1>1, <1>2, MovesAre
  <1>5. SameFrom(h, operations, elements)
    BY <1>2, SameStart DEF Placed, Unread
  <1> HIDE DEF h
  <1> DEFINE x == [k \in 0 .. 1 |-> IF k = 0 THEN Match ELSE Add(Match, e.at)]
  <1>6. x[0] = Match /\ x[1] = Add(Match, e.at)
    OBVIOUS
  <1> HIDE DEF x
  <1>7. \A k \in 1 .. h : x[k] = RunOp(x[k - 1], operations[k])
    <2> SUFFICES ASSUME NEW k \in 1 .. h PROVE x[k] = RunOp(x[k - 1], operations[k])
      OBVIOUS
    <2>1. k = 1 /\ k - 1 = 0 /\ operations[k] = Op(1, e.at, 0)
      BY <1>4
    <2>2. RunOp(Match, Op(1, e.at, 0)) = Add(Match, e.at)
      BY <1>2, RunAdd
    <2> QED
      BY <1>6, <2>1, <2>2
  <1>8. x[h] = Add(Match, e.at)
    <2>1. CASE h = 0
      BY <1>4, <1>6, <2>1, MatchIs, AddressAdd
    <2>2. CASE h = 1
      BY <1>6, <2>2
    <2> QED
      BY <1>4, <2>1, <2>2
  <1>9. h \in 0 .. Len(operations)
    BY <1>4 DEF h
  <1> QED
    BY <1>3, <1>5, <1>6, <1>7, <1>8, <1>9, ResultIs

LEMMA AtReadMeans == ASSUME Typed, AtRead PROVE OperationsMean
  <1>1. PICK d \in Element : IsRead(d, 1) /\ operations[1] = Op(10 + d.size, d.at, 0)
    BY DEF AtRead
  <1>2. d.at \in Nat /\ d.at \in Int /\ d.size \in Sizes /\ elements \in Seq(Element) /\ operations \in Seq(Ops)
    BY <1>1 DEF Element, Typed, IsRead
  <1>3. FirstAddress = ReadAt(d.size, Add(Match, d.at))
    <2>1. Has("deref") /\ The("deref") = d
      BY <1>1, <1>2, OnlyIs DEF IsRead
    <2>2. ~Has("@") /\ ~Has("[")
      BY <1>2, NoneIs DEF AtRead
    <2> QED
      BY <2>1, <2>2 DEF FirstAddress
  <1>4. IsAddress(FirstAddress)
    BY <1>3 DEF ReadAt, IsAddress
  <1> DEFINE x == [k \in 0 .. 1 |-> IF k = 0 THEN Match ELSE FirstAddress]
  <1>5. x[0] = Match /\ x[1] = FirstAddress
    OBVIOUS
  <1> HIDE DEF x
  <1>6. RunOp(Match, operations[1]) = FirstAddress
    BY <1>1, <1>2, <1>3, RunRead
  <1>7. \A k \in 1 .. 1 : x[k] = RunOp(x[k - 1], operations[k])
    <2>1. \A k \in 1 .. 1 : k = 1 /\ k - 1 = 0
      OBVIOUS
    <2> QED
      BY <1>5, <1>6, <2>1
  <1>8. 1 \in 0 .. Len(operations)
    BY <1>2 DEF AtRead
  <1> QED
    BY <1>1, <1>4, <1>5, <1>7, <1>8, ResultIs DEF IsRead

(* The operation of brackets is behind the one that moves to where they    *)
(* start.                                                                  *)
LEMMA OpenedRuns ==
    ASSUME Typed, NEW b \in Element, Opened(b), NEW a, RunOp(Add(Match, b.at), Inner) = a
    PROVE  \E x : /\ x[0] = Match /\ x[relIdx + 1] = a
                  /\ \A k \in 1 .. relIdx + 1 : x[k] = RunOp(x[k - 1], operations[k])
  <1>1. b.at \in Nat /\ b.at \in Int
    BY DEF Element
  <1>2. relIdx \in 0 .. 1 /\ (b.at = 0 <=> relIdx = 0) /\ \A k \in 1 .. relIdx : operations[k] = Op(1, b.at, 0)
    BY <1>1, MovesAre DEF Opened
  <1> DEFINE m == Add(Match, b.at)
             x == [k \in 0 .. 2 |-> IF k = relIdx + 1 THEN a ELSE IF k = 0 THEN Match ELSE m]
  <1>3. /\ RunOp(Match, Op(1, b.at, 0)) = m /\ (b.at = 0 => m = Match)
        /\ a = RunOp(m, operations[relIdx + 1])
    <2>1. RunOp(Match, Op(1, b.at, 0)) = m
      BY <1>1, RunAdd
    <2>2. ASSUME b.at = 0 PROVE m = Match
      <3>1. m = [of |-> Match.of, plus |-> Match.plus + b.at]
        BY <1>1, MatchIs, AddressAdd
      <3>2. Match = [of |-> Match.of, plus |-> Match.plus] /\ Match.plus + b.at = Match.plus
        BY <2>2, MatchIs DEF IsAddress
      <3> QED
        BY <3>1, <3>2
    <2>3. a = RunOp(m, operations[relIdx + 1])
      BY DEF Inner
    <2> QED
      BY <2>1, <2>2, <2>3
  <1> HIDE DEF m
  <1>4. \A k \in 0 .. 2 : x[k] = IF k = relIdx + 1 THEN a ELSE IF k = 0 THEN Match ELSE m
    OBVIOUS
  <1> HIDE DEF x
  <1>5. CASE relIdx = 0
    <2>1. x[0] = Match /\ x[1] = a /\ m = Match
      BY <1>2, <1>3, <1>4, <1>5
    <2>2. \A k \in 1 .. relIdx + 1 : k = 1 /\ k - 1 = 0 /\ k = relIdx + 1
      BY <1>5
    <2>3. \A k \in 1 .. relIdx + 1 : x[k] = RunOp(x[k - 1], operations[k])
      BY <1>3, <2>1, <2>2
    <2> QED
      BY <1>5, <2>1, <2>3
  <1>6. CASE relIdx = 1
    <2>1. x[0] = Match /\ x[1] = m /\ x[2] = a
      BY <1>4, <1>6
    <2>2. operations[1] = Op(1, b.at, 0)
      BY <1>2, <1>6
    <2>3. ASSUME NEW k \in 1 .. relIdx + 1 PROVE x[k] = RunOp(x[k - 1], operations[k])
      <3>1. CASE k = 1
        BY <1>3, <2>1, <2>2, <3>1
      <3>2. CASE k = 2
        BY <1>3, <1>6, <2>1, <3>2
      <3> QED
        BY <1>6, <3>1, <3>2
    <2>4. relIdx + 1 = 2
      BY <1>6
    <2> QED
      BY <2>1, <2>3, <2>4
  <1> QED
    BY <1>2, <1>5, <1>6

LEMMA BracketedMeans == ASSUME Typed, Bracketed PROVE OperationsMean
  <1> SUFFICES ASSUME ~inRelDeref PROVE OperationsMean
    BY DEF OperationsMean
  <1>1. PICK b \in Element :
            /\ Opened(b)
            /\ inRelDeref => NoneOf("]", elements)
            /\ \/ Nothing
               \/ \E d \in Element : IsRead(d, relIdx + 1) /\ (Reading(d) \/ Closed(b, d))
    BY DEF Bracketed
  <1>2. /\ b.at \in Nat /\ b.at \in Int /\ elements \in Seq(Element) /\ operations \in Seq(Ops)
        /\ relIdx \in Nat /\ relIdx + 1 \in 0 .. Len(operations) /\ relIdx + 1 \in 1 .. Len(operations)
    <2>1. relIdx \in Nat /\ relIdx + 1 <= Len(operations)
      BY <1>1 DEF Typed, Opened
    <2> QED
      BY <2>1 DEF Element, Typed
  <1>3. ~Has("@") /\ Has("[") /\ The("[") = b
    BY <1>1, <1>2, NoneIs, OnlyIs DEF Opened
  <1> DEFINE m == Add(Match, b.at)
  <1>4. m = [of |-> Match.of, plus |-> b.at] /\ IsAddress(m)
    <2>1. Add(Match, b.at) = [of |-> Match.of, plus |-> Match.plus + b.at] /\ IsAddress(Add(Match, b.at))
      BY <1>2, MatchIs, AddressAdd
    <2>2. Match.plus + b.at = b.at
      BY <1>2, MatchIs
    <2> QED
      BY <2>1, <2>2
  <1>5. ASSUME NEW a, RunOp(m, Inner) = a, a = FirstAddress, IsAddress(a),
               SameFrom(relIdx + 1, operations, elements)
        PROVE  OperationsMean
    <2>1. PICK x : /\ x[0] = Match /\ x[relIdx + 1] = a
                   /\ \A k \in 1 .. relIdx + 1 : x[k] = RunOp(x[k - 1], operations[k])
      BY <1>1, <1>5, OpenedRuns
    <2> QED
      BY <1>2, <1>5, <2>1, ResultIs
  <1>6. Inner \in Ops
    BY <1>2 DEF Inner
  <1>7. CASE Nothing
    <2>1. SameFrom(relIdx + 1, operations, elements)
      BY <1>2, <1>7, SameStart DEF Nothing, Unread
    <2>2. ~Has("deref")
      BY <1>2, <1>7, NoneIs DEF Nothing, Unread
    <2>3. FirstAddress = m
      BY <1>3, <2>2 DEF FirstAddress
    <2>4. RunOp(m, Inner) = m
      <3>1. Inner = Op(0, Inner.offset, Inner.v1)
        BY <1>6, <1>7 DEF Nothing, Ops, Op
      <3> QED
        BY <3>1, RunNone
    <2> QED
      BY <1>4, <1>5, <2>1, <2>3, <2>4
  <1>8. CASE ~Nothing
    <2>1. PICK d \in Element : IsRead(d, relIdx + 1) /\ (Reading(d) \/ Closed(b, d))
      BY <1>1, <1>8
    <2>2. PICK c \in Element :
              Only("]", c, elements) /\ Inner = Op(20 + d.size, d.at - b.at, c.at - b.at)
      BY <2>1 DEF Reading, Closed
    <2>3. /\ d.at \in Int /\ c.at \in Int /\ d.size \in {1, 2, 4, 8}
          /\ d.at - b.at \in Int /\ c.at - b.at \in Int
      <3>1. d.at \in Nat /\ c.at \in Nat
        BY DEF Element
      <3>2. d.size \in Sizes
        BY <2>1, <1>2, OnlyIs DEF IsRead, Element
      <3>3. d.size \in {1, 2, 4, 8}
        BY <3>2, PatternScanAssumption DEF PatternScanAssumption
      <3>4. d.at \in Int /\ c.at \in Int /\ b.at \in Int
        BY <1>2, <3>1
      <3>5. d.at - b.at \in Int /\ c.at - b.at \in Int
        BY <3>4
      <3> QED
        BY <3>3, <3>4, <3>5
    <2> DEFINE size == IF d.size = 8 THEN 4 ELSE d.size
               a == [of |-> <<"sum", Match.of, "signed", size, Add(Match, d.at)>>, plus |-> c.at]
    <2>4. Has("deref") /\ The("deref") = d /\ The("]") = c
      BY <1>2, <2>1, <2>2, OnlyIs DEF IsRead
    <2>5. FirstAddress = a
      BY <1>3, <2>4 DEF FirstAddress
    <2>6. IsAddress(a)
      BY <2>3 DEF IsAddress
    <2>7. RunOp(m, Inner) = GetAbsoluteAddress(size, m, d.at - b.at, c.at - b.at)
      BY <2>2, <2>3, RunRelative
    <2>8. Add(m, d.at - b.at) = Add(Match, d.at)
      <3>1. /\ Add(m, d.at - b.at) = [of |-> m.of, plus |-> m.plus + (d.at - b.at)]
            /\ Add(Match, d.at) = [of |-> Match.of, plus |-> Match.plus + d.at]
        BY <1>4, <2>3, MatchIs, AddressAdd
      <3>2. m.of = Match.of /\ m.plus = b.at
        BY <1>4
      <3>3. m.plus + (d.at - b.at) = Match.plus + d.at
        BY <1>2, <2>3, <3>2, MatchIs
      <3> QED
        BY <3>1, <3>2, <3>3
    <2>9. GetAbsoluteAddress(size, m, d.at - b.at, c.at - b.at) = a
      <3>1. m.of = Match.of /\ m.plus = b.at
        BY <1>4
      <3>2. m.plus + (c.at - b.at) = c.at
        BY <1>2, <2>3, <3>1
      <3> HIDE DEF m, size
      <3>3. GetAbsoluteAddress(size, m, d.at - b.at, c.at - b.at)
                = [of |-> <<"sum", m.of, "signed", size, Add(m, d.at - b.at)>>,
                   plus |-> m.plus + (c.at - b.at)]
        BY DEF GetAbsoluteAddress
      <3> QED
        BY <2>8, <3>1, <3>2, <3>3
    <2> HIDE DEF a, m, size
    <2> QED
      BY <1>5, <2>1, <2>5, <2>6, <2>7, <2>9 DEF IsRead
  <1> QED
    BY <1>7, <1>8

(* What is compared of the n-th byte, and its word.                        *)
Meets(memory, i, n) == MaskAt(n) \/ patternBytes[n + 1] = ByteAt(memory, i + n)
WordAt(o) == o * WordSize .. (o + 1) * WordSize - 1

LEMMA HitIs ==
    ASSUME NEW memory, NEW i \in Int
    PROVE  Hit(memory, i) <=> \A o \in 0 .. WordCount - 1 : \A n \in WordAt(o) : Meets(memory, i, n)
  <1>1. ASSUME NEW o \in 0 .. WordCount - 1
        PROVE  [n \in WordAt(o) |-> DataAt(n)] =
                   [n \in WordAt(o) |-> IF MaskAt(n) THEN Masked ELSE ByteAt(memory, i + n)]
               <=> \A n \in WordAt(o) : Meets(memory, i, n)
    <2> DEFINE W == WordAt(o)
               f == [n \in W |-> DataAt(n)]
               g == [n \in W |-> IF MaskAt(n) THEN Masked ELSE ByteAt(memory, i + n)]
    <2>1. \A n \in W : f[n] = g[n] <=> Meets(memory, i, n)
      BY DEF DataAt, Meets
    <2>2. f = g <=> \A n \in W : f[n] = g[n]
      OBVIOUS
    <2> QED
      BY <2>1, <2>2
  <1> QED
    BY <1>1 DEF Hit, WordAt

(* The words cover the bytes.                                              *)
LEMMA WordsCover ==
    ASSUME ByteCount \in Nat, NEW k \in 0 .. ByteCount - 1
    PROVE  \E o \in 0 .. WordCount - 1 : k \in WordAt(o)
  <1> DEFINE w == WordSize
             o == k \div w
             q == (ByteCount - 1) \div w
  <1>1. w \in Nat \ {0} /\ k \in Nat /\ ByteCount - 1 \in Nat /\ k <= ByteCount - 1
    BY PatternScanAssumption DEF PatternScanAssumption
  <1>2. /\ o \in Nat /\ k % w \in 0 .. w - 1 /\ k = w * o + (k % w)
        /\ q \in Nat /\ (ByteCount - 1) % w \in 0 .. w - 1
        /\ ByteCount - 1 = w * q + ((ByteCount - 1) % w)
    <2>1. k \in Int /\ ByteCount - 1 \in Int
      BY <1>1
    <2> QED
      BY <1>1, <2>1, DivMod
  <1>3. WordCount = q + 1
    BY DEF WordCount
  <1> DEFINE r == k % w
             s == (ByteCount - 1) % w
             last == ByteCount - 1
  <1>4. r \in 0 .. w - 1 /\ s \in 0 .. w - 1 /\ k = w * o + r /\ last = w * q + s
    BY <1>2
  <1> HIDE DEF o, q, r, s, last, w
  <1>5. k <= last
    BY <1>1 DEF last
  <1>6. ~(o >= q + 1)
    <2> SUFFICES ASSUME o >= q + 1 PROVE FALSE
      OBVIOUS
    <2>1. w * o >= w * (q + 1)
      BY <1>1, <1>2
    <2>2. w * (q + 1) = w * q + w
      BY <1>1, <1>2
    <2>3. w * o \in Int /\ w * q \in Int
      BY <1>1, <1>2
    <2> QED
      BY <1>1, <1>4, <1>5, <2>1, <2>2, <2>3
  <1>7. o \in 0 .. WordCount - 1
    BY <1>2, <1>3, <1>6
  <1>8. k \in o * w .. (o + 1) * w - 1
    <2>1. o * w = w * o /\ (o + 1) * w = w * o + w /\ w * o \in Int
      BY <1>1, <1>2
    <2> QED
      BY <1>1, <1>4, <2>1
  <1> QED
    BY <1>7, <1>8 DEF WordAt, w

LEMMA WordsStart ==
    ASSUME NEW o \in Nat, NEW n \in WordAt(o) PROVE n \in Nat
  <1>1. WordSize \in Nat \ {0}
    BY PatternScanAssumption DEF PatternScanAssumption
  <1>2. o * WordSize \in Nat
    BY <1>1
  <1> QED
    BY <1>1, <1>2 DEF WordAt

(* A word hits where all of the pattern's bytes are.                       *)
LEMMA HitFits ==
    ASSUME ByteCount \in Nat, NEW memory, NEW i \in Int
    PROVE  Hit(memory, i) <=> \A n \in 1 .. ByteCount :
                                  patternBytes[n] \in {AnyByte, ByteAt(memory, i + n - 1)}
  <1>1. \A k \in 0 .. ByteCount - 1 :
            Meets(memory, i, k) <=> patternBytes[k + 1] \in {AnyByte, ByteAt(memory, i + k)}
    BY DEF Meets, MaskAt
  <1>2. ASSUME Hit(memory, i), NEW n \in 1 .. ByteCount
        PROVE  patternBytes[n] \in {AnyByte, ByteAt(memory, i + n - 1)}
    <2>1. n - 1 \in 0 .. ByteCount - 1 /\ (n - 1) + 1 = n /\ i + (n - 1) = i + n - 1
      OBVIOUS
    <2>2. Meets(memory, i, n - 1)
      BY <1>2, <2>1, HitIs, WordsCover
    <2> QED
      BY <1>1, <2>1, <2>2
  <1>3. ASSUME \A n \in 1 .. ByteCount : patternBytes[n] \in {AnyByte, ByteAt(memory, i + n - 1)},
               NEW o \in 0 .. WordCount - 1, NEW n \in WordAt(o)
        PROVE  Meets(memory, i, n)
    <2>1. n \in Nat
      BY WordsStart
    <2>2. CASE n >= ByteCount
      BY <2>2 DEF Meets, MaskAt
    <2>3. CASE n < ByteCount
      <3>1. n \in 0 .. ByteCount - 1 /\ n + 1 \in 1 .. ByteCount /\ i + (n + 1) - 1 = i + n
        BY <2>1, <2>3
      <3> QED
        BY <1>1, <1>3, <3>1
    <2> QED
      BY <2>1, <2>2, <2>3
  <1> QED
    BY <1>2, <1>3, HitIs

LEMMA ScanFinds == ASSUME ByteCount \in Nat PROVE ScanFindsFirst
  <1>1. ASSUME NEW memory \in [1 .. MemorySize -> ByteValues]
        PROVE  {i \in 1 .. (MemorySize + 1) - Length - 1 : Hit(memory, i)} =
               {i \in 1 .. (MemorySize + 1) - Length - 1 :
                   \A n \in 1 .. ByteCount :
                       patternBytes[n] \in {AnyByte, ByteAt(memory, i + n - 1)}}
    <2>1. \A i \in 1 .. (MemorySize + 1) - Length - 1 : i \in Int
      OBVIOUS
    <2> QED
      BY <2>1, HitFits
  <1> QED
    BY <1>1 DEF ScanFindsFirst, ScanPattern

LEMMA OpsAreTyped == ASSUME Typed PROVE ParseTypeOK
  <1>1. ASSUME NEW n \in DOMAIN operations
        PROVE  operations[n].offset \in Int /\ operations[n].op \in 0 .. 28
    <2>1. operations[n] \in Ops
      BY DEF Typed
    <2> QED
      BY <2>1 DEF Ops
  <1>2. {relIdx, relStartIdx, initDerefIdx} \subseteq 0 .. MaxElements
    BY DEF Typed
  <1>3. patternBytes \in Seq(ByteValues \union {AnyByte})
    BY DEF Typed
  <1> QED
    BY <1>1, <1>2, <1>3 DEF ParseTypeOK

(* The operations ParsePattern makes of a pattern do what pattern_scan.h   *)
(* says of its elements, in whatever order the client wrote them as far as *)
(* the asserts let it, and ScanPattern returns the first place where every *)
(* byte of the pattern is found: for every size of word and of memory.     *)
THEOREM PatternsAlwaysMean == ParseSpec => [](ParseTypeOK /\ PatternsMean)
  <1>1. ASSUME ScanInv PROVE ParseTypeOK /\ PatternsMean
    <2>1. Typed
      BY <1>1 DEF ScanInv
    <2>2. OperationsMean
      BY <1>1, <2>1, PlainMeans, PlacedMeans, AtReadMeans, BracketedMeans DEF ScanInv
    <2>3. ByteCount \in Nat
      BY <2>1 DEF Typed, ByteCount
    <2> QED
      BY <2>1, <2>2, <2>3, OpsAreTyped, ScanFinds DEF PatternsMean
  <1> QED
    BY <1>1, ParseHolds, PTL
==============================================================================
