------------------------------ MODULE Handles ------------------------------
(***************************************************************************)
(* src/utils/handles.cpp, Linux: GetModuleHandle and GetModuleInfo look a  *)
(* library up by a part of its name in a list that the first of them makes *)
(* by dl_iterate_phdr, one call of DlIterateCallback for each library.     *)
(* GetModuleHandle leaves the lock before it looks through the list.       *)
(*                                                                         *)
(* Libraries are loaded at any time and stay (the list keeps pointers into *)
(* the loader's data).  A library's name is longer than the part looked    *)
(* for by a number of characters, or does not contain it.                  *)
(***************************************************************************)
EXTENDS Integers, Sequences, FiniteSets, FiniteSetsExt, SequencesExt

CONSTANTS
    Threads,
    Libraries,      \* functions from the names looked for to a number,
    Names,          \* where the library's name contains them
    NoLibrary,
    MaxLookups      \* bound on the lookups of a thread

Far == 1000000      \* the first lendist

(* No path is that long: the loader's names are below PATH_MAX.            *)
ASSUME HandlesAssumption ==
    /\ MaxLookups \in Nat /\ NoLibrary \notin Libraries
    /\ \A l \in Libraries : DOMAIN l \subseteq Names /\ \A n \in DOMAIN l : l[n] \in 0 .. Far - 1

VARIABLES
    loaded,         \* the loader's list,
    snapshot,       \* history: as it was when the last lookup began to read it
    libraries,      \* and the one made of it
    lInfoLock,      \* the thread that holds it, or {}
    lookup,         \* each thread's [at, info, module, pos, bestMatch, lendist]
    lookups         \* how many lookups each thread made

handleVars == <<loaded, snapshot, libraries, lInfoLock, lookup, lookups>>

Start(info, module) ==
    [at |-> "lock", info |-> info, module |-> module, pos |-> 0,
     bestMatch |-> NoLibrary, lendist |-> Far]

HandlesInit ==
    /\ loaded = <<>> /\ snapshot = <<>> /\ libraries = <<>>
    /\ lInfoLock = {}
    /\ lookup = [t \in Threads |-> [Start(FALSE, CHOOSE n \in Names : TRUE) EXCEPT !.at = "out"]]
    /\ lookups = [t \in Threads |-> 0]

GoTo(t, at) == lookup' = [lookup EXCEPT ![t].at = at]

(* dlopen waits for dl_iterate_phdr, which holds the loader's lock.        *)
LoadLibrary(l) ==
    /\ \A t \in Threads : lookup[t].at # "iterate"
    /\ \A n \in DOMAIN loaded : loaded[n] # l
    /\ loaded' = Append(loaded, l)
    /\ UNCHANGED <<snapshot, libraries, lInfoLock, lookup, lookups>>

(* A program has itself loaded before it looks anything up.                *)
Enter(t, info, module) ==
    /\ lookup[t].at = "out" /\ lookups[t] < MaxLookups /\ loaded # <<>>
    /\ lookup' = [lookup EXCEPT ![t] = Start(info, module)]
    /\ lookups' = [lookups EXCEPT ![t] = @ + 1]
    /\ UNCHANGED <<loaded, snapshot, libraries, lInfoLock>>

TakeLock(t) ==
    /\ lookup[t].at = "lock" /\ lInfoLock = {}
    /\ lInfoLock' = {t}
    /\ IF libraries = <<>>
       THEN GoTo(t, "iterate") /\ snapshot' = loaded
       ELSE GoTo(t, "made") /\ UNCHANGED snapshot
    /\ UNCHANGED <<loaded, libraries, lookups>>

(* Mutant of DlIterateCallback: it stops the iteration.                    *)
DlIterateStops(t) ==
    /\ lookup[t].at = "iterate"
    /\ libraries' = Append(libraries, loaded[Len(libraries) + 1])
    /\ GoTo(t, "made")
    /\ UNCHANGED <<loaded, snapshot, lInfoLock, lookups>>

DlIterateCallback(t) ==
    /\ lookup[t].at = "iterate"
    /\ libraries' = Append(libraries, loaded[Len(libraries) + 1])
    /\ IF Len(libraries') = Len(loaded) THEN GoTo(t, "made") ELSE UNCHANGED lookup
    /\ UNCHANGED <<loaded, snapshot, lInfoLock, lookups>>

(* GetModuleHandle unlocks here, GetModuleInfo at the end.                 *)
ListMade(t) ==
    /\ lookup[t].at = "made"
    /\ lInfoLock' = IF lookup[t].info THEN lInfoLock ELSE {}
    /\ GoTo(t, "scan")
    /\ UNCHANGED <<loaded, snapshot, libraries, lookups>>

Scan(t) ==
    LET me == lookup[t]
        i == libraries[me.pos + 1]
        nearer == me.module \in DOMAIN i /\ i[me.module] < me.lendist
    IN  /\ me.at = "scan" /\ me.pos < Len(libraries) /\ me.lendist # 0
        /\ lookup' = [lookup EXCEPT ![t].pos = @ + 1,
                                    ![t].bestMatch = IF nearer THEN i ELSE @,
                                    ![t].lendist = IF nearer THEN i[me.module] ELSE @]
        /\ UNCHANGED <<loaded, snapshot, libraries, lInfoLock, lookups>>

Leave(t) ==
    /\ lookup[t].at = "scan" /\ (lookup[t].pos = Len(libraries) \/ lookup[t].lendist = 0)
    /\ GoTo(t, "out")
    /\ lInfoLock' = IF lookup[t].info THEN {} ELSE lInfoLock
    /\ UNCHANGED <<loaded, snapshot, libraries, lookups>>

HandlesNext ==
    \/ \E l \in Libraries : LoadLibrary(l)
    \/ \E t \in Threads :
          \/ \E info \in BOOLEAN, module \in Names : Enter(t, info, module)
          \/ TakeLock(t) \/ DlIterateCallback(t) \/ ListMade(t) \/ Scan(t) \/ Leave(t)

HandlesSpec == HandlesInit /\ [][HandlesNext]_handleVars

-----------------------------------------------------------------------------

HandlesTypeOK ==
    /\ libraries \in Seq(Libraries) /\ Len(libraries) <= Cardinality(Libraries)
    /\ lInfoLock \subseteq Threads /\ Cardinality(lInfoLock) <= 1
    /\ \A t \in Threads : lookup[t].bestMatch \in Libraries \union {NoLibrary}
                          /\ lookup[t].pos \in 0 .. Len(libraries)

(* A thread that looks through the list without the lock sees all of it,   *)
(* each library once, and it does not grow any more: a lookup ends with a  *)
(* library whose name has the fewest characters besides the part looked    *)
(* for, of those loaded when the list was made, whichever thread made it.  *)
LookupsSeeAll ==
    \A t \in Threads :
        lookup[t].at = "scan" =>
            LET me == lookup[t]
                seen == {n \in 1 .. me.pos : me.module \in DOMAIN snapshot[n]}
                least == Min({snapshot[n][me.module] : n \in seen} \union {Far})
            IN  /\ libraries = snapshot
                /\ me.lendist = least
                /\ me.bestMatch # NoLibrary => me.bestMatch[me.module] = least
                /\ me.lendist = 0 \/ me.pos = Len(libraries) =>
                      \A n \in DOMAIN snapshot :
                          me.module \in DOMAIN snapshot[n] =>
                              me.bestMatch # NoLibrary /\ snapshot[n][me.module] >= least
=============================================================================
