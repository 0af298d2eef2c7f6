------------------------------ MODULE MCLList ------------------------------
(* The list, and its heap under other clients: both on the same slots.  A  *)
(* list frees in the order it pops; other clients free in any order, by    *)
(* index or by pointer.                                                    *)
EXTENDS LList

VARIABLE client

Init == ListInit /\ client \in {"list", "any"}

Next ==
    \/ client = "list" /\ ListNext /\ UNCHANGED client
    \/ client = "any" /\ HeapNext /\ UNCHANGED <<linkVars, client>>

Spec == Init /\ [][Next]_<<listVars, client>>

(* The heap's memory, and the list threaded through it: no two free        *)
(* regions overlap or touch the end, every slot is held, free or known     *)
(* to be forgotten, the buffer is as long as the most slots ever held, and *)
(* the links lead through the slots the list holds in both directions.     *)
SlotsSound ==
    /\ RegionsApart /\ AllAccounted /\ SizeIsPeak
    /\ client = "list" => Linked
=============================================================================
