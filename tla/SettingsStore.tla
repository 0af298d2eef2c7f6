--------------------------- MODULE SettingsStore ---------------------------
(***************************************************************************)
(* What settings groups promise: each group holds at most one value per    *)
(* name, whoever writes it; what was saved of a group, and only that, is   *)
(* what a later load puts over another group's values.                     *)
(***************************************************************************)
EXTENDS Naturals, Sequences

CONSTANTS Groups, Names, Values, Default

VARIABLES
    store,      \* store[g]: a function from some of the names to values
    saves,      \* what was saved, in the order it was written to the file
    loaded      \* how many of the saves were read since the file was opened

storeVars == <<store, saves, loaded>>

(* f with the values of e put over its own.                                *)
Over(e, f) == [n \in DOMAIN e \union DOMAIN f |-> IF n \in DOMAIN e THEN e[n] ELSE f[n]]
One(n, v) == [m \in {n} |-> v]

Contents == UNION {[N -> Values] : N \in SUBSET Names}

StoreInit ==
    /\ store = [g \in Groups |-> [n \in {} |-> Default]]
    /\ saves \in Seq(Contents)      \* a file from elsewhere
    /\ loaded = 0

(* Groups may get a name they lack.                                        *)
Gains(g, n, v) ==
    n \notin DOMAIN store[g] /\ store'[g] = Over(One(n, v), store[g])

Fill(n, v) ==
    /\ \A g \in Groups : store'[g] = store[g] \/ Gains(g, n, v)
    /\ UNCHANGED <<saves, loaded>>

(* One group has a name written, and others may get it on the way.         *)
Put(g, n, v) ==
    /\ store'[g] = Over(One(n, v), store[g])
    /\ \A h \in Groups \ {g} : store'[h] = store[h] \/ Gains(h, n, Default)
    /\ UNCHANGED <<saves, loaded>>

Save(g) == saves' = Append(saves, store[g]) /\ UNCHANGED <<store, loaded>>

Load(g) ==
    /\ loaded < Len(saves)
    /\ store' = [store EXCEPT ![g] = Over(saves[loaded + 1], @)]
    /\ loaded' = loaded + 1
    /\ UNCHANGED saves

StoreNext ==
    \/ \E n \in Names, v \in Values : Fill(n, v)
    \/ \E g \in Groups, n \in Names, v \in Values : Put(g, n, v)
    \/ \E g \in Groups : Save(g) \/ Load(g)

StoreSpec == StoreInit /\ [][StoreNext]_storeVars
=============================================================================
