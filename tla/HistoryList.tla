---------------------------- MODULE HistoryList ----------------------------
(***************************************************************************)
(* src/utils/history_list.h: HistoryList keeps the last C items pushed in  *)
(* a ring, and UndoPush takes the newest one back.                         *)
(*                                                                         *)
(* The counter is a size_t that no program pushes often enough to wrap;    *)
(* the bound MaxCounter stands for the end of a history's use.             *)
(***************************************************************************)
EXTENDS Integers, Sequences, FiniteSets

CONSTANTS
    C,              \* how many items are kept
    Items,          \* the items pushed,
    Default,        \* and what a new item is before it is filled in
    MaxCounter

ASSUME HistoryListAssumption ==
    C \in Nat \ {0} /\ MaxCounter \in Nat /\ Default \notin Items

VARIABLES
    list, counter,
    pushed,     \* history: the items pushed since Reset and not undone
    peak        \* history: the largest counter since Reset

historyVars == <<list, counter, pushed, peak>>

(* T list[C] constructs every slot.                                        *)
HistoryInit ==
    /\ list = [i \in 0 .. C - 1 |-> Default]
    /\ counter = 0
    /\ pushed = <<>> /\ peak = 0

(* Mutant: off by one.                                                     *)
LastIdxBefore(id) == (counter - id - 1) % C

LastIdx(id) == (counter - id) % C

GetLastItem(id) == list[LastIdx(id)]

Count == IF counter < C THEN counter ELSE C

Place(item) ==
    /\ counter < MaxCounter
    /\ counter' = counter + 1
    /\ list' = [list EXCEPT ![(counter + 1) % C] = item]
    /\ pushed' = Append(pushed, item)
    /\ peak' = IF counter' > peak THEN counter' ELSE peak

(* Push() makes a new item in place, which the caller fills in through the *)
(* reference it got;  Push(item) copies one.                               *)
PushNew == Place(Default)

PushItem(item) == Place(item)

FillIn(id, item) ==
    /\ id < Count
    /\ list' = [list EXCEPT ![LastIdx(id)] = item]
    /\ pushed' = [pushed EXCEPT ![counter - id] = item]
    /\ UNCHANGED <<counter, peak>>

UndoPush ==
    /\ counter > 0
    /\ counter' = counter - 1
    /\ pushed' = SubSeq(pushed, 1, counter - 1)
    /\ UNCHANGED <<list, peak>>

ResetHistory ==
    /\ counter' = 0 /\ pushed' = <<>> /\ peak' = 0
    /\ UNCHANGED list

HistoryNext ==
    \/ PushNew
    \/ \E item \in Items : PushItem(item)
    \/ \E id \in 0 .. C - 1, item \in Items : FillIn(id, item)
    \/ UndoPush
    \/ ResetHistory

HistorySpec == HistoryInit /\ [][HistoryNext]_historyVars

-----------------------------------------------------------------------------

HistoryTypeOK ==
    /\ list \in [0 .. C - 1 -> Items \union {Default}]
    /\ counter \in 0 .. MaxCounter /\ peak \in counter .. MaxCounter

(* GetLastItem(0) is the newest item and higher ids are the ones before    *)
(* it, for every id below Count whose item no push has overwritten: after  *)
(* UndoPush the C slots no longer hold the last C items, since the pushes  *)
(* that were undone took the slots of the oldest ones.                     *)
KeepsTheLast ==
    /\ Len(pushed) = counter
    /\ \A id \in 0 .. Count - 1 :
          counter - id > peak - C => GetLastItem(id) = pushed[counter - id]
=============================================================================
