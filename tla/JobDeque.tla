------------------------------ MODULE JobDeque ------------------------------
(***************************************************************************)
(* What LList<Job> (utils/threading.h) promises the thread pool: a deque   *)
(* of jobs.  A job enters at the back, or at the front when it is queued   *)
(* with priority, and is given the next number; jobs leave at the front.   *)
(***************************************************************************)
EXTENDS Integers, Sequences

CONSTANTS Jobs, NoJob

VARIABLES queue, lastID, popped

dequeVars == <<queue, lastID, popped>>

Item(job, id) == [job |-> job, id |-> id]

(* Job(): the number ~0 marks that there was nothing to pop.               *)
Nothing == Item(NoJob, -1)

DequeInit ==
    /\ queue = <<>>
    /\ lastID = 0
    /\ popped = Nothing

PutBack(job) ==
    /\ queue' = Append(queue, Item(job, lastID))
    /\ lastID' = lastID + 1
    /\ UNCHANGED popped

PutFront(job) ==
    /\ queue' = <<Item(job, lastID)>> \o queue
    /\ lastID' = lastID + 1
    /\ UNCHANGED popped

Take ==
    /\ queue # <<>>
    /\ popped' = Head(queue)
    /\ queue' = Tail(queue)
    /\ UNCHANGED lastID

TakeNothing ==
    /\ queue = <<>>
    /\ popped' = Nothing
    /\ UNCHANGED <<queue, lastID>>

DequeNext ==
    \/ \E job \in Jobs : PutBack(job) \/ PutFront(job)
    \/ Take
    \/ TakeNothing

DequeSpec == DequeInit /\ [][DequeNext]_dequeVars
=============================================================================
