------------------------------- MODULE LList -------------------------------
(***************************************************************************)
(* LList<Job> (utils/threading.h): a doubly linked list threaded through   *)
(* the slots of a PackedHeapL.  0 is the null index.  `prev` leads from    *)
(* the front, where jobs are popped, towards the back; `next` leads the    *)
(* other way.                                                              *)
(*                                                                         *)
(* Enqueue and DoPopFront run under the list's lock from the first line    *)
(* that reads the list to the last that changes it, so each is one action; *)
(* the semaphore around them belongs to ThreadPool.                        *)
(*                                                                         *)
(* `popped` is what the last pop returned.  `order`, the slots of the list *)
(* from the front, is a history variable.                                  *)
(***************************************************************************)
EXTENDS PackedHeapL

CONSTANTS
    Jobs, NoJob,
    MaxID       \* bound: jobs are numbered below MaxID

ASSUME LListAssumption == NoJob \notin Jobs /\ MaxID \in Nat

VARIABLES slots, front, back, lastID, popped, order

linkVars == <<slots, front, back, lastID, popped, order>>

listVars == <<linkVars, heapVars>>

Item(job, id) == [job |-> job, id |-> id]

(* Job(), which is also what a slot of buf holds before it is first used.  *)
Nothing == Item(NoJob, -1)

Entry(item, prev, next) == [item |-> item, prev |-> prev, next |-> next]

ListInit ==
    /\ HeapInit
    /\ slots = [i \in 1 .. MaxSize |-> Entry(Nothing, 0, 0)]
    /\ front = 0
    /\ back = 0
    /\ lastID = 0
    /\ popped = Nothing
    /\ order = <<>>

-----------------------------------------------------------------------------

(* Mutant of EnqueueFront: front only moves when the list was empty.       *)
EnqueueFrontLost(job) ==
    \E entry \in 1 .. MaxSize :
        LET new == Entry(Item(job, lastID), front, 0)
        IN  /\ lastID < MaxID
            /\ Alloc(entry)
            /\ slots' = [i \in DOMAIN slots |->
                            CASE i = entry              -> new
                              [] i # entry /\ i = front -> [slots[i] EXCEPT !.next = entry]
                              [] OTHER                  -> slots[i]]
            /\ back' = IF back = 0 THEN entry ELSE back
            /\ front' = IF front = 0 THEN entry ELSE front
            /\ lastID' = lastID + 1
            /\ order' = <<entry>> \o order
            /\ UNCHANGED popped

(* Enqueue(data, true): the entry goes before the front.                   *)
EnqueueFront(job) ==
    \E entry \in 1 .. MaxSize :
        LET new == Entry(Item(job, lastID), front, 0)
        IN  /\ lastID < MaxID
            /\ Alloc(entry)
            /\ slots' = [i \in DOMAIN slots |->
                            CASE i = entry              -> new
                              [] i # entry /\ i = front -> [slots[i] EXCEPT !.next = entry]
                              [] OTHER                  -> slots[i]]
            /\ back' = IF back = 0 THEN entry ELSE back
            /\ front' = entry
            /\ lastID' = lastID + 1
            /\ order' = <<entry>> \o order
            /\ UNCHANGED popped

(* Enqueue(data, false): the entry goes behind the back.                   *)
EnqueueBack(job) ==
    \E entry \in 1 .. MaxSize :
        LET new == Entry(Item(job, lastID), 0, back)
        IN  /\ lastID < MaxID
            /\ Alloc(entry)
            /\ slots' = [i \in DOMAIN slots |->
                            CASE i = entry             -> new
                              [] i # entry /\ i = back -> [slots[i] EXCEPT !.prev = entry]
                              [] OTHER                 -> slots[i]]
            /\ front' = IF front = 0 THEN entry ELSE front
            /\ back' = entry
            /\ lastID' = lastID + 1
            /\ order' = Append(order, entry)
            /\ UNCHANGED popped

(* DoPopFront on a list that is not empty.  The freed slot keeps what it   *)
(* held.                                                                   *)
DoPopFront ==
    LET after == slots[front].prev
    IN  /\ front # 0
        /\ popped' = slots[front].item
        /\ front' = after
        /\ back' = IF after = 0 THEN 0 ELSE back
        /\ slots' = [i \in DOMAIN slots |->
                        IF i = after THEN [slots[i] EXCEPT !.next = 0]
                                     ELSE slots[i]]
        /\ FreePtr(front)
        /\ order' = Tail(order)
        /\ UNCHANGED lastID

(* DoPopFront on an empty list returns Job().                              *)
PopNothing ==
    /\ front = 0
    /\ popped' = Nothing
    /\ UNCHANGED <<slots, front, back, lastID, order, heapVars>>

ListNext ==
    \/ \E job \in Jobs : EnqueueFront(job) \/ EnqueueBack(job)
    \/ DoPopFront
    \/ PopNothing

ListSpec == ListInit /\ [][ListNext]_listVars

-----------------------------------------------------------------------------

ListTypeOK ==
    /\ HeapTypeOK
    /\ slots \in [1 .. MaxSize -> [item : [job : Jobs \union {NoJob}, id : -1 .. MaxID],
                                   prev : 0 .. MaxSize, next : 0 .. MaxSize]]
    /\ front \in 0 .. size
    /\ back \in 0 .. size
    /\ lastID \in 0 .. MaxID
    /\ popped \in [job : Jobs \union {NoJob}, id : -1 .. MaxID]
    /\ order \in Seq(1 .. MaxSize)

(* The indices make one list: following prev from front visits the slots   *)
(* of the list in order and ends, following next from back visits them the *)
(* other way round, no slot is on it twice, and the slots on it are the    *)
(* slots the list holds.  Stale links in freed slots are never followed.   *)
Linked ==
    LET n == Len(order)
        at(k) == IF k \in 1 .. n THEN order[k] ELSE 0
    IN  /\ front = at(1)
        /\ back = at(n)
        /\ \A k \in 1 .. n : /\ slots[order[k]].prev = at(k + 1)
                             /\ slots[order[k]].next = at(k - 1)
        /\ \A j, k \in 1 .. n : order[j] = order[k] => j = k
        /\ live = {order[k] : k \in 1 .. n}

(* The list implements the deque: every operation gives the same job the   *)
(* same number and returns the same job as JobDeque's.                     *)
Deque == INSTANCE JobDeque WITH
            queue <- [k \in DOMAIN order |-> slots[order[k]].item]

ImplementsDeque == Deque!DequeSpec
=============================================================================
