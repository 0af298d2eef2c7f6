------------------------------ MODULE JobPool ------------------------------
(***************************************************************************)
(* What the thread pool promises its clients.  A job that is submitted is  *)
(* started once by someone, and finishes, or is dropped when the pool is   *)
(* told to quit before it ran.  A client that waits for the pool (calls    *)
(* FinishQueue) stays there until every job it submitted has left the      *)
(* pool.                                                                   *)
(***************************************************************************)
CONSTANTS Clients, Jobs

VARIABLES
    state,      \* of each job: "new", "queued", "running", "done" or "dropped"
    mine,       \* the jobs each client submitted
    waiting     \* the clients that wait for the pool

jobPoolVars == <<state, mine, waiting>>

JobPoolInit ==
    /\ state = [j \in Jobs |-> "new"]
    /\ mine = [c \in Clients |-> {}]
    /\ waiting = {}

Move(j, from, to) == state[j] = from /\ state' = [state EXCEPT ![j] = to]

(* A client submits a job,                                                 *)
Submit(c, j) ==
    /\ c \notin waiting
    /\ Move(j, "new", "queued")
    /\ mine' = [mine EXCEPT ![c] = @ \union {j}]
    /\ UNCHANGED waiting

(* or a job that runs does.                                                *)
SubmitFrom(parent, j) ==
    /\ state[parent] = "running"
    /\ Move(j, "new", "queued")
    /\ UNCHANGED <<mine, waiting>>

Start(j) == Move(j, "queued", "running") /\ UNCHANGED <<mine, waiting>>

Finish(j) == Move(j, "running", "done") /\ UNCHANGED <<mine, waiting>>

Drop(j) == Move(j, "running", "dropped") /\ UNCHANGED <<mine, waiting>>

Wait(c) ==
    /\ c \notin waiting
    /\ waiting' = waiting \union {c}
    /\ UNCHANGED <<state, mine>>

Return(c) ==
    /\ c \in waiting
    /\ \A j \in mine[c] : state[j] \in {"done", "dropped"}
    /\ waiting' = waiting \ {c}
    /\ UNCHANGED <<state, mine>>

JobPoolNext ==
    \/ \E c \in Clients, j \in Jobs : Submit(c, j)
    \/ \E parent, j \in Jobs : SubmitFrom(parent, j)
    \/ \E j \in Jobs : Start(j) \/ Finish(j) \/ Drop(j)
    \/ \E c \in Clients : Wait(c) \/ Return(c)

JobPoolSpec == JobPoolInit /\ [][JobPoolNext]_jobPoolVars
=============================================================================
