------------------------------ MODULE Players ------------------------------
(***************************************************************************)
(* src/players.h: the data of all players is one block from malloc, cut    *)
(* into an array for every field, and two tables that lead from the number *)
(* a player has in the game to its place in the arrays and back.  The      *)
(* order of the players is made by code of the game.                       *)
(***************************************************************************)
EXTENDS Integers, Sequences, FiniteSets, Functions

CONSTANTS
    Worlds,         \* the objects of type Players
    SizeOf, AlignOf,\* of an element of each array, in the order of the block
    ExtraFor,       \* what each array adds to extraAlignmentNeeds
    MallocAlign, Memory,    \* malloc gives multiples of MallocAlign below Memory
    MaxPlayers, MaxCount    \* MAX_PLAYERS; the bound of Allocate's argument

Fields == 1 .. Len(SizeOf)

(* What an array adds is the alignment of its elements or a stricter one,  *)
(* and the first array needs none that malloc does not give.               *)
ASSUME PlayersAssumption ==
    /\ SizeOf \in Seq(Nat \ {0}) /\ AlignOf \in Seq(Nat \ {0}) /\ ExtraFor \in Seq(Nat)
    /\ Fields # {} /\ Len(AlignOf) = Len(SizeOf) /\ Len(ExtraFor) = Len(SizeOf)
    /\ \A f \in Fields : ExtraFor[f] >= AlignOf[f]
    /\ MallocAlign \in Nat \ {0} /\ MallocAlign % AlignOf[1] = 0
    /\ Memory \in Nat /\ MaxPlayers \in Nat /\ MaxCount \in 0 .. MaxPlayers

None == -1

VARIABLES
    array,      \* [Worlds -> the address of every array, NULL (0) before Allocate]
    count,
    sortIDs, unsortIDs,
    mallocs     \* the blocks of the heap: [at, size]

playersVars == <<array, count, sortIDs, unsortIDs, mallocs>>

NoIDs == [n \in 0 .. MaxPlayers - 1 |-> None]
NoArrays == [f \in Fields |-> 0]

PlayersInit ==
    /\ array = [w \in Worlds |-> NoArrays] /\ count = [w \in Worlds |-> 0]
    /\ sortIDs = [w \in Worlds |-> NoIDs] /\ unsortIDs = [w \in Worlds |-> NoIDs]
    /\ mallocs = {}

(* Mutant: no room for what AlignUp skips.                                 *)
BlockSizeTight(cnt) == SumFunction(SizeOf) * cnt

BlockSizeFor(cnt) == SumFunction(SizeOf) * cnt + SumFunction(ExtraFor)      \* sizePerPlayer, extraAlignmentNeeds

AlignUp(address, align) == ((address + align - 1) \div align) * align

(* Each array starts behind the one before it, aligned for its elements.   *)
ArrayAt(base, cnt, f) ==
    LET start[g \in Fields] ==
            IF g = 1 THEN base ELSE AlignUp(start[g - 1] + SizeOf[g - 1] * cnt, AlignOf[g])
    IN  start[f]

BytesOf(at, size) == at .. at + size - 1

(* free, of the block the first array starts.                              *)
AfterFreeAll(w) ==
    IF count[w] # 0 /\ array[w][1] # 0
    THEN {m \in mallocs : m.at # array[w][1]} ELSE mallocs

FreeAll(w) ==
    /\ mallocs' = AfterFreeAll(w)
    /\ array' = [array EXCEPT ![w] = NoArrays] /\ count' = [count EXCEPT ![w] = 0]
    /\ sortIDs' = [sortIDs EXCEPT ![w] = NoIDs] /\ unsortIDs' = [unsortIDs EXCEPT ![w] = NoIDs]

AllocatePlayers(w, cnt, base) ==
    LET block == [at |-> base, size |-> BlockSizeFor(cnt)]
    IN  /\ base % MallocAlign = 0 /\ base + block.size <= Memory
        /\ \A m \in AfterFreeAll(w) : BytesOf(m.at, m.size) \cap BytesOf(base, block.size) = {}
        /\ mallocs' = AfterFreeAll(w) \cup {block}
        /\ array' = [array EXCEPT ![w] = [f \in Fields |-> ArrayAt(base, cnt, f)]]
        /\ count' = [count EXCEPT ![w] = cnt]
        /\ sortIDs' = [sortIDs EXCEPT ![w] = NoIDs] /\ unsortIDs' = [unsortIDs EXCEPT ![w] = NoIDs]

(* The game puts the players of this tick into the arrays in some order.   *)
Order(w, order) ==
    /\ unsortIDs[w] = NoIDs /\ Len(order) = count[w] /\ count[w] # 0
    /\ \A m, n \in 1 .. Len(order) : order[m] = order[n] => m = n
    /\ sortIDs' = [sortIDs EXCEPT ![w] =
                      [uid \in DOMAIN NoIDs |->
                          IF \E n \in 1 .. Len(order) : order[n] = uid
                          THEN (CHOOSE n \in 1 .. Len(order) : order[n] = uid) - 1 ELSE None]]
    /\ unsortIDs' = [unsortIDs EXCEPT ![w] =
                        [sid \in DOMAIN NoIDs |-> IF sid < Len(order) THEN order[sid + 1] ELSE None]]
    /\ UNCHANGED <<array, count, mallocs>>

Resort(w, target, id) ==
    LET uid == unsortIDs[w][id]
        sid == IF uid \in 0 .. MaxPlayers - 1 THEN sortIDs[target][uid] ELSE None
    IN  IF sid \in 0 .. MaxPlayers - 1 /\ sid < count[target] THEN sid ELSE MaxPlayers

PlayersNext ==
    \E w \in Worlds :
        \/ FreeAll(w)
        \/ \E cnt \in 1 .. MaxCount, base \in 1 .. Memory : AllocatePlayers(w, cnt, base)
        \/ \E n \in 1 .. MaxCount : \E order \in [1 .. n -> 0 .. MaxPlayers - 1] : Order(w, order)

PlayersSpec == PlayersInit /\ [][PlayersNext]_playersVars

-----------------------------------------------------------------------------

PlayersTypeOK ==
    /\ count \in [Worlds -> 0 .. MaxCount]
    /\ array \in [Worlds -> [Fields -> 0 .. Memory]]
    /\ \A w \in Worlds : \A n \in DOMAIN NoIDs :
        sortIDs[w][n] \in None .. MaxPlayers - 1 /\ unsortIDs[w][n] \in None .. MaxPlayers - 1

ArrayBytes(w, f) == BytesOf(array[w][f], SizeOf[f] * count[w])

(* Every array of every world is aligned for its elements, lies in a block *)
(* that is still allocated, and shares no byte with another array:         *)
(* extraAlignmentNeeds covers what AlignUp skips, whatever malloc returned *)
(* and however many players there are.                                     *)
LayoutApart ==
    \A w \in Worlds : count[w] # 0 =>
        \A f \in Fields :
            /\ array[w][f] % AlignOf[f] = 0
            /\ \E m \in mallocs : ArrayBytes(w, f) \subseteq BytesOf(m.at, m.size)
            /\ \A v \in Worlds, g \in Fields : <<v, g>> # <<w, f>> =>
                   ArrayBytes(w, f) \cap ArrayBytes(v, g) = {}

(* Resort finds the same player in another world, and nothing when the     *)
(* player is not there.                                                    *)
ResortFindsSame ==
    \A w, v \in Worlds : \A id \in 0 .. MaxPlayers - 1 :
        LET uid == unsortIDs[w][id]
            sid == Resort(w, v, id)
        IN  IF uid # None /\ \E n \in 0 .. MaxPlayers - 1 : unsortIDs[v][n] = uid
            THEN unsortIDs[v][sid] = uid
            ELSE sid = MaxPlayers

(* Both: what players.h promises of the arrays, and of the two tables.     *)
PlayersSound == LayoutApart /\ ResortFindsSame
=============================================================================
