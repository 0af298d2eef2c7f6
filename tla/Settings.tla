------------------------------ MODULE Settings ------------------------------
(***************************************************************************)
(* src/utils/settings.h: SettingsGroup_t keeps options by name in blocks   *)
(* of memory, is written to and read from a file, and Option looks one     *)
(* name up through a chain of groups.  An Option keeps, for each layer of  *)
(* its chain, the pointer it found last, and must notice when it no longer *)
(* holds: the layer points to another group, or the group was reloaded.    *)
(*                                                                         *)
(* All layers but the last are OptionDataPtr (a pointer to a group that    *)
(* the program moves), the last one is OptionDataRef (one group).          *)
(***************************************************************************)
EXTENDS Integers, Sequences, FiniteSets, SequencesExt

CONSTANTS
    Groups,         \* the groups a pointer may point to,
    Global,         \* and the group of the last layer
    NumPtrs,        \* how many layers are pointers
    Opt, Other,     \* the name the option looks up, and one it does not
    MaxValue,       \* the largest value of an option
    MaxBlocks, MaxReloads, MaxSaves     \* bounds

ASSUME SettingsAssumption ==
    /\ Global \notin Groups /\ Groups # {}
    /\ Opt # Other
    /\ NumPtrs \in Nat /\ MaxValue \in Nat \ {0} /\ MaxBlocks \in Nat
    /\ MaxReloads \in Nat /\ MaxSaves \in Nat

AllGroups == Groups \union {Global}
OptionNames == {Opt, Other}
Blocks == 1 .. MaxBlocks
NoPtr == 0
Layers == 1 .. NumPtrs + 1
Bottom == NumPtrs + 1

(* What memory holds that nobody wrote, or that was given back.            *)
Junk == -1
Magic == "0xde"

VARIABLES
    map,            \* map[g]: from names to their entries [ptr, size]
    block,          \* what each block of memory holds; <<>> when it is free
    reloadCount,
    pointsTo,       \* the group each pointer layer points to
    cache,          \* the Option's [g, allocID, reloadCnt] per layer; <<>> before it exists
    buf,            \* the file, a sequence of sizes, names and bytes
    pos,            \* where the next Initialize starts to read
    saved,          \* history: what the groups held when they were saved,
    read,           \* history: how many of those were read back,
    mine            \* history: what the option was set to last, while nothing else changed

settingsVars == <<map, block, reloadCount, pointsTo, cache, buf, pos, saved, read, mine>>

(* An option takes one byte.  The file the program starts with is from one *)
(* in which Other was wider.                                               *)
Data(v) == <<v>>
WideData(v) == <<v, v>>

(* What f maps to, and n to v.                                             *)
With(f, n, v) == [m \in DOMAIN f \union {n} |-> IF m = n THEN v ELSE f[m]]

NoEntries == [n \in {} |-> NoPtr]

SettingsInit ==
    /\ map = [g \in AllGroups |-> NoEntries]
    /\ block = [b \in Blocks |-> <<>>]
    /\ reloadCount = [g \in AllGroups |-> 0]
    /\ pointsTo = [l \in 1 .. NumPtrs |-> CHOOSE g \in Groups : TRUE]
    /\ cache = <<>>
    /\ buf = <<Magic, 6, 2, Other>> \o WideData(1) /\ pos = 0
    /\ saved = <<With(NoEntries, Other, 1)>> /\ read = 0
    /\ mine = Junk

-----------------------------------------------------------------------------
(* The groups.  Operations are operators on s, the contents of the groups, *)
(* the memory and the option's caches, as one handler makes several.       *)

Now == [map |-> map, block |-> block, cache |-> cache]

FreeBlocks(s) == {b \in Blocks : s.block[b] = <<>>}
Fresh(s) == IF FreeBlocks(s) = {} THEN NoPtr ELSE Min(FreeBlocks(s))
Room(n) == Cardinality(FreeBlocks(Now)) >= n

TryGetAlloc(s, g, n) == IF n \in DOMAIN s.map[g] THEN s.map[g][n].ptr ELSE NoPtr

(* memcpy to the start of a block; writes to freed memory are lost here.   *)
WriteBlock(s, b, data) ==
    IF s.block[b] = <<>>
    THEN s
    ELSE [s EXCEPT !.block[b] = data \o SubSeq(@, Len(data) + 1, Len(@))]

(* s with an entry for n, and data in its block.                           *)
Placed(s, g, n, b, sz, data) ==
    [map |-> [s.map EXCEPT ![g] = With(@, n, [ptr |-> b, size |-> sz])],
     block |-> [s.block EXCEPT ![b] = data], cache |-> s.cache]

(* Without memory the allocator throws.                                    *)
ReserveOption(s, g, n, v) ==
    IF n \in DOMAIN s.map[g] \/ Fresh(s) = NoPtr
    THEN s
    ELSE Placed(s, g, n, Fresh(s), 1, Data(v))

RegisterOption(s, g, n, v) ==
    LET r == ReserveOption(s, g, n, 0)
    IN  WriteBlock(r, TryGetAlloc(r, g, n), Data(v))

(* Mutant of LoadEntry: a block that is large enough keeps what it holds.  *)
LoadEntryKept(s, g, e) ==
    IF e.crc \in DOMAIN s.map[g]
    THEN s
    ELSE Placed(s, g, e.crc, Fresh(s), Len(e.data), e.data)

(* One entry of a file.  A block that is too small is given back; one that *)
(* is large enough is forgotten and another of its size allocated.  The    *)
(* entry keeps the size it had.  Without memory the entry is skipped.      *)
LoadEntry(s, g, e) ==
    LET known == e.crc \in DOMAIN s.map[g]
        old == s.map[g][e.crc]
        origSz == IF known THEN old.size ELSE Len(e.data)
        tooSmall == known /\ old.size < Len(e.data)
        allocSz == IF known /\ ~tooSmall THEN old.size ELSE Len(e.data)
        r == IF tooSmall THEN [s EXCEPT !.block[old.ptr] = <<>>] ELSE s
        rest == [o \in 1 .. allocSz - Len(e.data) |-> Junk]
    IN  IF Fresh(r) = NoPtr
        THEN r
        ELSE Placed(r, g, e.crc, Fresh(r), origSz, e.data \o rest)

(* Where the loop over the entries of a file up to bsz is after k rounds.  *)
AfterRounds(start, bsz) ==
    LET idx[k \in 0 .. bsz] ==
            IF k = 0
            THEN start
            ELSE LET i == idx[k - 1] IN IF i >= bsz THEN i ELSE i + 2 + buf[i + 1]
    IN  idx

EntryAt(idx) == [crc |-> buf[idx + 2], data |-> SubSeq(buf, idx + 3, idx + 2 + buf[idx + 1])]

Entries(start) ==
    LET bsz == buf[start + 2]
        idx == AfterRounds(start + 2, bsz)
    IN  [k \in 1 .. Min({n \in 0 .. bsz : idx[n] >= bsz}) |-> EntryAt(idx[k - 1])]

Initialized(g, idx) ==
    LET load(s, e) == LoadEntry(s, g, e) IN FoldLeft(load, Now, Entries(idx))

(* The entries of a group as bytes, in some order of the hash map.         *)
Bytes(g, order) ==
    LET entry(n) == LET e == map[g][n]
                    IN  <<e.size, n>> \o SubSeq(block[e.ptr], 1, e.size)
    IN  FlattenSeq([i \in DOMAIN order |-> entry(order[i])])

-----------------------------------------------------------------------------
(* The option's layers.                                                    *)

TargetOf(l) == IF l = Bottom THEN Global ELSE pointsTo[l]

Cached(l, b) == [g |-> TargetOf(l), allocID |-> b, reloadCnt |-> reloadCount[TargetOf(l)]]

CheckReloadCnt(s, l) ==
    Cached(l, IF s.cache[l].reloadCnt # reloadCount[TargetOf(l)]
              THEN NoPtr
              ELSE s.cache[l].allocID)

TryRefresh(s, l) ==
    IF s.cache[l].g # TargetOf(l)
    THEN Cached(l, TryGetAlloc(s, TargetOf(l), Opt))
    ELSE CheckReloadCnt(s, l)

(* Reserve the option in a layer's group and remember where it is.         *)
Claim(s, l, v) ==
    LET r == ReserveOption(s, TargetOf(l), Opt, v)
    IN  [r EXCEPT !.cache[l] = Cached(l, TryGetAlloc(r, TargetOf(l), Opt))]

Refresh(s, l) ==
    IF s.cache[l].g = TargetOf(l) /\ CheckReloadCnt(s, l).allocID # NoPtr
    THEN [s EXCEPT !.cache[l] = CheckReloadCnt(s, l)]
    ELSE Claim(s, l, 0)

(* Get asks layer after layer until one has the option; the last one       *)
(* reserves it.                                                            *)
Answering(s) ==
    CHOOSE l \in Layers :
        /\ l = Bottom \/ TryRefresh(s, l).allocID # NoPtr
        /\ \A k \in 1 .. l - 1 : TryRefresh(s, k).allocID = NoPtr

GetChain(s) ==
    LET l == Answering(s)
        asked == [s EXCEPT !.cache = [k \in Layers |->
                        IF k <= l /\ k # Bottom THEN TryRefresh(s, k) ELSE s.cache[k]]]
    IN  IF l = Bottom THEN Refresh(asked, Bottom) ELSE asked

(* The value GetChain ends with; freed memory reads as anything.           *)
ValueOf(s) ==
    LET data == GetChain(s).block[GetChain(s).cache[Answering(s)].allocID]
    IN  IF data = <<>> THEN Junk ELSE data[1]

(* Mutant of SetChain: Set writes the last layer.                          *)
SetChainLast(s, v) ==
    LET r == Refresh(s, Bottom) IN WriteBlock(r, r.cache[Bottom].allocID, Data(v))

SetChain(s, v) ==
    LET r == Refresh(s, 1) IN WriteBlock(r, r.cache[1].allocID, Data(v))

(* Option(v) reserves the option in every layer.                           *)
ConstructedWith(v) ==
    LET empty == [Now EXCEPT !.cache = [l \in Layers |-> Cached(l, NoPtr)]]
        claim(s, l) == Claim(s, l, v)
    IN  FoldLeft(claim, empty, [l \in Layers |-> l])

-----------------------------------------------------------------------------
(* The steps of the program.                                               *)

Become(s) == map' = s.map /\ block' = s.block /\ cache' = s.cache

FilesStay == UNCHANGED <<buf, pos, saved, read>>

Construct(v) ==
    /\ cache = <<>> /\ Room(Bottom)
    /\ Become(ConstructedWith(v))
    /\ mine' = Junk
    /\ FilesStay /\ UNCHANGED <<reloadCount, pointsTo>>

ConstructDefault ==
    /\ cache = <<>>
    /\ cache' = [l \in Layers |-> [g |-> TargetOf(l), allocID |-> NoPtr, reloadCnt |-> 0]]
    /\ FilesStay /\ UNCHANGED <<map, block, reloadCount, pointsTo, mine>>

GetOption ==
    /\ cache # <<>> /\ Room(1)
    /\ Become(GetChain(Now))
    /\ FilesStay /\ UNCHANGED <<reloadCount, pointsTo, mine>>

SetOption(v) ==
    /\ cache # <<>> /\ Room(1)
    /\ Become(SetChain(Now, v))
    /\ mine' = v
    /\ FilesStay /\ UNCHANGED <<reloadCount, pointsTo>>

(* option += 1                                                             *)
AddToOption ==
    /\ cache # <<>> /\ Room(2)
    /\ ValueOf(Now) \in 0 .. MaxValue - 1
    /\ Become(SetChain(GetChain(Now), ValueOf(Now) + 1))
    /\ mine' = ValueOf(Now) + 1
    /\ FilesStay /\ UNCHANGED <<reloadCount, pointsTo>>

SetRuntime(g, n, v) ==
    /\ Room(1)
    /\ Become(RegisterOption(Now, g, n, v))
    /\ mine' = IF n = Opt THEN Junk ELSE mine
    /\ FilesStay /\ UNCHANGED <<reloadCount, pointsTo>>

GetRuntime(g, n) ==
    /\ Room(1)
    /\ Become(ReserveOption(Now, g, n, 0))
    /\ FilesStay /\ UNCHANGED <<reloadCount, pointsTo, mine>>

SwitchGroup(l, g) ==
    /\ pointsTo' = [pointsTo EXCEPT ![l] = g]
    /\ mine' = Junk
    /\ FilesStay /\ UNCHANGED <<map, block, reloadCount, cache>>

(* The values of a group.                                                  *)
Held(s, g) == [n \in DOMAIN s.map[g] |-> s.block[s.map[g][n].ptr][1]]

Serialize(g, order) ==
    /\ Len(saved) < MaxSaves
    /\ buf' = buf \o <<Magic, Len(buf) + 2 + Len(Bytes(g, order))>> \o Bytes(g, order)
    /\ saved' = Append(saved, Held(Now, g))
    /\ UNCHANGED <<map, block, reloadCount, pointsTo, cache, pos, read, mine>>

(* Mutant: the caches are not told.                                        *)
ReloadedUnseen(g) == reloadCount

Reloaded(g) == [reloadCount EXCEPT ![g] = @ + 1]

(* Initialize on a group that is in use,                                   *)
Initialize(g) ==
    /\ pos < Len(buf) /\ buf[pos + 1] = Magic
    /\ reloadCount[g] < MaxReloads /\ Room(Len(Entries(pos)))
    /\ Become(Initialized(g, pos))
    /\ reloadCount' = Reloaded(g)
    /\ pos' = buf[pos + 2]
    /\ read' = read + 1
    /\ mine' = Junk
    /\ UNCHANGED <<pointsTo, buf, saved>>

(* and from the constructor of a new one, which nobody has used yet.       *)
InitializeNew(g) ==
    /\ map[g] = NoEntries /\ reloadCount[g] = 0
    /\ pos < Len(buf) /\ buf[pos + 1] = Magic /\ Room(Len(Entries(pos)))
    /\ Become(Initialized(g, pos))
    /\ pos' = buf[pos + 2]
    /\ read' = read + 1
    /\ mine' = Junk
    /\ UNCHANGED <<reloadCount, pointsTo, buf, saved>>

SettingsNext ==
    \/ \E v \in 0 .. MaxValue : Construct(v) \/ SetOption(v)
    \/ ConstructDefault
    \/ GetOption
    \/ AddToOption
    \/ \E g \in AllGroups : GetRuntime(g, Opt)
    \/ \E g \in AllGroups, n \in OptionNames, v \in 1 .. MaxValue : SetRuntime(g, n, v)
    \/ \E l \in 1 .. NumPtrs, g \in Groups : SwitchGroup(l, g)
    \/ \E g \in AllGroups : \E order \in SetToSeqs(DOMAIN map[g]) : Serialize(g, order)
    \/ \E g \in AllGroups : Initialize(g) \/ InitializeNew(g)

SettingsSpec == SettingsInit /\ [][SettingsNext]_settingsVars

-----------------------------------------------------------------------------

SettingsTypeOK ==
    /\ \A g \in AllGroups : \A n \in DOMAIN map[g] : n \in OptionNames /\ map[g][n] \in [ptr : Blocks, size : 1 .. 2]
    /\ \A b \in Blocks : block[b] \in Seq(Junk .. MaxValue) /\ Len(block[b]) <= 2
    /\ reloadCount \in [AllGroups -> 0 .. MaxReloads]
    /\ pointsTo \in [1 .. NumPtrs -> Groups]
    /\ cache # <<>> => cache \in [Layers -> [g : AllGroups, allocID : 0 .. MaxBlocks,
                                             reloadCnt : 0 .. MaxReloads]]
    /\ pos \in 0 .. Len(buf) /\ read \in 0 .. Len(saved)
    /\ mine \in Junk .. MaxValue

(* A pointer the option goes on using is the one its group has for the     *)
(* name now, and no two entries share a block: after any switching of      *)
(* groups and any reload, with blocks given back, forgotten and reused, no *)
(* layer reads or writes memory that is not the option's.                  *)
CachesCurrent ==
    /\ cache # <<>> =>
          \A l \in Layers :
              LET b == TryRefresh(Now, l).allocID
              IN  b # NoPtr => b = TryGetAlloc(Now, TargetOf(l), Opt)
    /\ \A g, h \in AllGroups : \A n \in DOMAIN map[g], m \in DOMAIN map[h] :
          /\ map[g][n].ptr = map[h][m].ptr => g = h /\ n = m
          /\ Len(block[map[g][n].ptr]) >= map[g][n].size

(* What the option was set to is what it reads as, until something else    *)
(* than the option is written, switched or loaded: Set writes the layer    *)
(* that Get asks first, also when that layer had lost the option.          *)
ReadsOwnWrites == mine # Junk => ValueOf(Now) = mine

(* Groups, their blocks and the file's bytes implement SettingsStore:      *)
(* every write changes the one value it is about, and loading a file gives *)
(* each group the values that were saved, whichever groups were saved      *)
(* before it in the file, in whatever order the map yields its entries.    *)
Store == INSTANCE SettingsStore WITH
            Groups <- AllGroups, Names <- OptionNames,
            Values <- 0 .. MaxValue, Default <- 0,
            store <- [g \in AllGroups |-> Held(Now, g)],
            saves <- saved, loaded <- read

ImplementsStore == Store!StoreSpec
=============================================================================
