---------------------------- MODULE PackedHeapL ----------------------------
(***************************************************************************)
(* PackedHeapL<T> (utils/packed_heap.h): a vector of slots, `buf`, handed  *)
(* out one at a time by 1-based index, and a vector of inclusive regions   *)
(* of slots that were given back, `freeRegions`.                           *)
(*                                                                         *)
(* Only the number of slots of buf is kept: what a slot holds is up to     *)
(* the client (module LList).  `live`, `dropped` and `peak` are history    *)
(* variables: the slots a client holds, the slots Free(T* ) forgot, and    *)
(* the largest number of slots held at one time since the last FreeAll.    *)
(***************************************************************************)
EXTENDS Integers, Sequences, FiniteSets, SequencesExt

CONSTANTS
    MaxSize,    \* bound: buf is never grown beyond this many slots
    PtrFree     \* whether the client frees by pointer as well as by index

ASSUME PackedHeapLAssumption == MaxSize \in Nat /\ PtrFree \in BOOLEAN

VARIABLES size, freeRegions, live, dropped, peak

heapVars == <<size, freeRegions, live, dropped, peak>>

Regions == [start : Nat, end : Nat]

Slots(r) == r.start .. r.end

FreeSlots == UNION {Slots(freeRegions[k]) : k \in DOMAIN freeRegions}

HeapInit ==
    /\ size = 0
    /\ freeRegions = <<>>
    /\ live = {}
    /\ dropped = {}
    /\ peak = 0

-----------------------------------------------------------------------------

(* Mutant of ReuseSlot: the region keeps the slot.                         *)
ReuseSlotKept(ret) ==
    /\ freeRegions # <<>>
    /\ ret = Last(freeRegions).end
    /\ UNCHANGED <<size, freeRegions>>

(* The last slot of the last region is reused.                             *)
ReuseSlot(ret) ==
    LET n == Len(freeRegions)
        last == freeRegions[n]
    IN  /\ n > 0
        /\ ret = last.end
        /\ freeRegions' = IF last.start = last.end
                          THEN SubSeq(freeRegions, 1, n - 1)
                          ELSE [freeRegions EXCEPT ![n].end = @ - 1]
        /\ UNCHANGED size

(* Mutant of GrowBuf: buf does not grow.                                   *)
GrowBufNot(ret) ==
    /\ freeRegions = <<>>
    /\ size < MaxSize
    /\ ret = size + 1
    /\ UNCHANGED <<size, freeRegions>>

(* buf grows by one slot when there is no region.                          *)
GrowBuf(ret) ==
    /\ freeRegions = <<>>
    /\ size < MaxSize
    /\ ret = size + 1
    /\ size' = size + 1
    /\ UNCHANGED freeRegions

Alloc(ret) ==
    /\ ReuseSlot(ret) \/ GrowBuf(ret)
    /\ live' = live \union {ret}
    /\ peak' = IF Cardinality(live') > peak THEN Cardinality(live') ELSE peak
    /\ UNCHANGED dropped

-----------------------------------------------------------------------------

(* std::lower_bound over the regions with MemRegion::operator<(idx_t): a   *)
(* position whose region does not start below idx while the one before it  *)
(* does, Len + 1 standing for end().  On a sorted vector there is exactly  *)
(* one; on an unsorted one the standard leaves the result open, and every  *)
(* binary search ends at one of these.                                     *)
LowerBound(idx) ==
    {p \in 1 .. Len(freeRegions) + 1 :
        /\ p <= Len(freeRegions) => freeRegions[p].start >= idx
        /\ p > 1 => freeRegions[p - 1].start < idx}

(* The test below the comment "Double free!".                              *)
DoubleFreeSeen(idx, upper) ==
    /\ upper <= Len(freeRegions)
    /\ freeRegions[upper].start <= idx
    /\ freeRegions[upper].end <= idx

(* Mutant of Joined: idx joins the regions below and above it, and the one *)
(* above stays.                                                            *)
JoinedUpperStays(idx, upper) ==
    LET lower == IF upper = 1 THEN upper ELSE upper - 1
        above == upper <= Len(freeRegions) /\ freeRegions[upper].start = idx + 1
        below == lower <= Len(freeRegions) /\ freeRegions[lower].end = idx - 1
    IN  CASE below           -> [freeRegions EXCEPT
                                    ![lower].end = IF above THEN freeRegions[upper].end
                                                            ELSE idx]
          [] above /\ ~below -> [freeRegions EXCEPT ![upper].start = @ - 1]
          [] OTHER           -> Append(freeRegions, [start |-> idx, end |-> idx])

(* The regions once idx has joined the one above it, the one below it,     *)
(* both, or none of them, in which case it is pushed at the back.          *)
Joined(idx, upper) ==
    LET lower == IF upper = 1 THEN upper ELSE upper - 1
        above == upper <= Len(freeRegions) /\ freeRegions[upper].start = idx + 1
        below == lower <= Len(freeRegions) /\ freeRegions[lower].end = idx - 1
    IN  CASE above /\ below  -> RemoveAt([freeRegions EXCEPT
                                    ![lower].end = freeRegions[upper].end], upper)
          [] above /\ ~below -> [freeRegions EXCEPT ![upper].start = @ - 1]
          [] ~above /\ below -> [freeRegions EXCEPT ![lower].end = @ + 1]
          [] OTHER           -> Append(freeRegions, [start |-> idx, end |-> idx])

FreeIdx(idx) ==
    /\ \E upper \in LowerBound(idx) :
          freeRegions' = IF DoubleFreeSeen(idx, upper)
                         THEN freeRegions
                         ELSE Joined(idx, upper)
    /\ live' = live \ {idx}
    /\ UNCHANGED <<size, dropped, peak>>

(* Free(T* ) forgets the slot at the top of buf: `++idx < buf.size()`      *)
(* lets every index through but the last.                                  *)
FreePtr(idx) ==
    \/ /\ idx < size
       /\ FreeIdx(idx)
    \/ /\ idx >= size
       /\ live' = live \ {idx}
       /\ dropped' = dropped \union {idx}
       /\ UNCHANGED <<size, freeRegions, peak>>

FreeAll ==
    /\ size' = 0
    /\ freeRegions' = <<>>
    /\ live' = {}
    /\ dropped' = {}
    /\ peak' = 0

-----------------------------------------------------------------------------

HeapNext ==
    \/ \E ret \in 1 .. MaxSize : Alloc(ret)
    \/ \E idx \in live : FreeIdx(idx)
    \/ PtrFree /\ \E idx \in live : FreePtr(idx)
    \/ FreeAll

HeapSpec == HeapInit /\ [][HeapNext]_heapVars

-----------------------------------------------------------------------------

HeapTypeOK ==
    /\ size \in 0 .. MaxSize
    /\ freeRegions \in Seq(Regions)
    /\ live \subseteq 1 .. size
    /\ dropped \subseteq 1 .. size
    /\ peak \in Nat

(* No region is empty, leaves buf, or shares a slot with another region,   *)
(* in whatever order the frees came and the regions were joined.           *)
RegionsApart ==
    /\ \A k \in DOMAIN freeRegions :
          /\ 1 <= freeRegions[k].start
          /\ freeRegions[k].start <= freeRegions[k].end
          /\ freeRegions[k].end <= size
    /\ \A j, k \in DOMAIN freeRegions :
          j # k => \/ freeRegions[j].end < freeRegions[k].start
                   \/ freeRegions[k].end < freeRegions[j].start

(* A slot a client holds is in no region, so that Alloc never hands it out *)
(* a second time; nor does a slot Free(T* ) forgot ever come back.         *)
NoSlotTwice ==
    /\ FreeSlots \intersect live = {}
    /\ FreeSlots \intersect dropped = {}
    /\ live \intersect dropped = {}

HeapInv == HeapTypeOK /\ RegionsApart /\ NoSlotTwice

(* Every slot of buf is held by the client, in a region, or was forgotten  *)
(* by Free(T* ): no join and no pop of a region loses one.                 *)
AllAccounted == 1 .. size = live \union FreeSlots \union dropped

(* buf is never longer than the largest number of slots held at one time   *)
(* plus the slots Free(T* ) forgot: it grows only when every other slot is *)
(* in use.                                                                 *)
SizeIsPeak == size <= peak + Cardinality(dropped)
=============================================================================
