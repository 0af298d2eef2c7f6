----------------------------- MODULE VFuncHook -----------------------------
(***************************************************************************)
(* src/utils/vfhook.h, vfhook.cpp: VFuncHook replaces virtual functions of *)
(* an object.  By default the object gets a copy of its table, which the   *)
(* hook then writes; in override mode the table itself is written, which   *)
(* all objects of the class share, and the copy keeps what it held.        *)
(*                                                                         *)
(* Objects of one class, several hooks on them.  Clients unhook and        *)
(* destroy the newest hook only (what an older one restores may be a       *)
(* function of a newer one), and hook a function at one index of one hook. *)
(* A table ends with a zero, also a copy: the word after it is taken to be *)
(* one.                                                                    *)
(***************************************************************************)
EXTENDS Integers, Sequences, FiniteSets, SequencesExt

CONSTANTS
    Objects,
    Functions,      \* the functions clients put in place of virtual ones
    VTableLength,   \* what EstimateVTableLength finds
    MaxHooks        \* how many hooks exist at a time

ASSUME VFuncHookAssumption ==
    /\ VTableLength \in Nat \ {0} /\ MaxHooks \in Nat
    /\ Objects # {} /\ IsFiniteSet(Functions)

Hooks == 1 .. MaxHooks
Slots == 0 .. VTableLength - 1
ClassTable == 0         \* hook h allocates table h
Original(i) == <<i>>
NoTable == <<>>

VARIABLES
    vptr,       \* the table an object points to
    table,      \* what each table holds; NoTable when it is not allocated
    hook,       \* [classBase, overridePointers, curVTable, oldVTable, indexes] of each
    made        \* the hooks that exist, oldest first

hookVars == <<vptr, table, hook, made>>

ClassFunctions == [i \in Slots |-> Original(i)]

(* What clients put in is no function of the class.                        *)
ASSUME FunctionsAreNew == \A i \in Slots : Original(i) \notin Functions

NoHook == [classBase |-> CHOOSE o \in Objects : TRUE, overridePointers |-> FALSE,
           curVTable |-> ClassTable, oldVTable |-> ClassTable, indexes |-> <<>>]

HookInit ==
    /\ vptr = [o \in Objects |-> ClassTable]
    /\ table = [t \in Hooks \union {ClassTable} |->
                    IF t = ClassTable THEN ClassFunctions ELSE NoTable]
    /\ hook = [h \in Hooks |-> NoHook]
    /\ made = <<>>

Exists(h) == \E n \in DOMAIN made : made[n] = h

Newest(h) == made # <<>> /\ made[Len(made)] = h

MakeHook(h, o, overrideMode) ==
    /\ ~Exists(h) /\ \A g \in Hooks : g < h => Exists(g)
    /\ table' = [table EXCEPT ![h] = table[vptr[o]]]
    /\ vptr' = IF overrideMode THEN vptr ELSE [vptr EXCEPT ![o] = h]
    /\ hook' = [hook EXCEPT ![h] =
                    [classBase |-> o, overridePointers |-> overrideMode,
                     curVTable |-> IF overrideMode THEN vptr[o] ELSE h,
                     oldVTable |-> IF overrideMode THEN h ELSE vptr[o],
                     indexes |-> <<>>]]
    /\ made' = Append(made, h)

(* Writes an entry of the table in use.                                    *)
SetEntry(h, i, f) == table' = [table EXCEPT ![hook[h].curVTable][i] = f]

OldEntry(h, i) == table[hook[h].oldVTable][i]

(* insert keeps the index of a function that is there already.             *)
Inserted(indexes, f, i) ==
    [g \in DOMAIN indexes \union {f} |-> IF g \in DOMAIN indexes THEN indexes[g] ELSE i]

Hook(h, i, f) ==
    /\ Exists(h)
    /\ \A g \in Hooks : Exists(g) /\ f \in DOMAIN hook[g].indexes => g = h /\ hook[g].indexes[f] = i
    /\ hook' = [hook EXCEPT ![h].indexes = Inserted(@, f, i)]
    /\ SetEntry(h, i, f)
    /\ UNCHANGED <<vptr, made>>

Unhook(h, f) ==
    /\ Newest(h) /\ f \in DOMAIN hook[h].indexes
    /\ SetEntry(h, hook[h].indexes[f], OldEntry(h, hook[h].indexes[f]))
    /\ UNCHANGED <<vptr, hook, made>>

UnhookID(h, i) ==
    /\ Newest(h)
    /\ SetEntry(h, i, OldEntry(h, i))
    /\ UNCHANGED <<vptr, hook, made>>

(* Mutant of Restored: whatever the mode, the object gets the old table.   *)
RestoredPointer(h) ==
    [table |-> table, vptr |-> [vptr EXCEPT ![hook[h].classBase] = hook[h].oldVTable]]

(* What UnhookAll does to the tables and the objects.                      *)
Restored(h) ==
    IF hook[h].overridePointers
    THEN [table |-> [table EXCEPT ![hook[h].curVTable] = table[hook[h].oldVTable]],
          vptr |-> vptr]
    ELSE [table |-> table,
          vptr |-> [vptr EXCEPT ![hook[h].classBase] = hook[h].oldVTable]]

UnhookAll(h) ==
    /\ Newest(h)
    /\ table' = Restored(h).table /\ vptr' = Restored(h).vptr
    /\ UNCHANGED <<hook, made>>

(* The destructor restores only what still points to the hook's table.     *)
DestroyHook(h) ==
    LET inPlace == vptr[hook[h].classBase] = hook[h].curVTable
        r == IF inPlace THEN Restored(h) ELSE [table |-> table, vptr |-> vptr]
    IN  /\ Newest(h)
        /\ table' = [r.table EXCEPT ![h] = NoTable]
        /\ vptr' = r.vptr
        /\ hook' = [hook EXCEPT ![h] = NoHook]
        /\ made' = Front(made)

(* An object that no hook is on is replaced by one that hooks are on,      *)
(* moved there, and their owners tell them.                                *)
UpdateBase(o, p) ==
    /\ o # p /\ \A h \in Hooks : Exists(h) => hook[h].classBase # p
    /\ vptr' = [vptr EXCEPT ![p] = vptr[o], ![o] = ClassTable]
    /\ hook' = [h \in Hooks |-> IF Exists(h) /\ hook[h].classBase = o
                                THEN [hook[h] EXCEPT !.classBase = p]
                                ELSE hook[h]]
    /\ UNCHANGED <<table, made>>

HookNext ==
    \/ \E h \in Hooks, o \in Objects, mode \in BOOLEAN : MakeHook(h, o, mode)
    \/ \E h \in Hooks, i \in Slots, f \in Functions : Hook(h, i, f)
    \/ \E h \in Hooks, f \in Functions : Unhook(h, f)
    \/ \E h \in Hooks, i \in Slots : UnhookID(h, i)
    \/ \E h \in Hooks : UnhookAll(h) \/ DestroyHook(h)
    \/ \E o, p \in Objects : UpdateBase(o, p)

HookSpec == HookInit /\ [][HookNext]_hookVars

-----------------------------------------------------------------------------

AllFunctions == Functions \union {Original(i) : i \in Slots}

HookTypeOK ==
    /\ vptr \in [Objects -> Hooks \union {ClassTable}]
    /\ \A t \in DOMAIN table : table[t] # NoTable =>
          \A i \in Slots : table[t][i] \in AllFunctions
    /\ \A h \in Hooks : DOMAIN hook[h].indexes \subseteq Functions

GetOriginal(h, f) == OldEntry(h, hook[h].indexes[f])

(* The functions a call comes to when each calls what GetOriginal returns  *)
(* to it; the owner of a function is the hook it was given to.             *)
OwnedBy(h, f) == Exists(h) /\ f \in DOMAIN hook[h].indexes

CallEndsIn(f) ==
    LET call[n \in 0 .. Cardinality(Functions)] ==
            [g \in AllFunctions |->
                IF n = 0 \/ ~ \E h \in Hooks : OwnedBy(h, g)
                THEN g
                ELSE call[n - 1][GetOriginal(CHOOSE h \in Hooks : OwnedBy(h, g), g)]]
    IN  call[Cardinality(Functions)][f]

(* Whatever is hooked, unhooked and destroyed, with tables copied while    *)
(* others are hooked on top or below: an object never points to a table    *)
(* that was freed, the functions in it belong to hooks that exist, and     *)
(* calling the original of each one in turn ends in the function the class *)
(* has at that index.  With the last hook gone every object and the        *)
(* class's table are as they were.                                         *)
CallsReachTheClass ==
    /\ \A o \in Objects :
          /\ table[vptr[o]] # NoTable
          /\ \A i \in Slots : CallEndsIn(table[vptr[o]][i]) = Original(i)
    /\ made = <<>> => /\ \A o \in Objects : vptr[o] = ClassTable
                      /\ table[ClassTable] = ClassFunctions
=============================================================================
