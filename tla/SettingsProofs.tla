-------------------------- MODULE SettingsProofs --------------------------
(***************************************************************************)
(* src/utils/settings.h: options never use memory that is not theirs, read *)
(* what they wrote, and groups with their blocks and files implement       *)
(* SettingsStore.                                                          *)
(***************************************************************************)
EXTENDS Settings, Recursion, SequenceTheorems

-----------------------------------------------------------------------------
(* Types                                                                   *)

(* What memory and files consist of.                                       *)
Things == Int \union {Magic} \union OptionNames

Places == [ptr : Blocks, size : Nat \ {0}]
Maps == UNION {[N -> Places] : N \in SUBSET OptionNames}
Memories == [Blocks -> Seq(Things)]
Chain == [Layers -> [g : AllGroups, allocID : Blocks \union {NoPtr}, reloadCnt : Nat]]
States == [map : [AllGroups -> Maps], block : Memories, cache : Chain \union {<<>>}]
Contents == UNION {[N -> Things] : N \in SUBSET OptionNames}

LEMMA Facts ==
    /\ Global \in AllGroups /\ Groups \subseteq AllGroups /\ Groups # {}
    /\ Opt # Other /\ Opt \in OptionNames /\ Other \in OptionNames
    /\ NumPtrs \in Nat /\ MaxValue \in Nat /\ MaxValue >= 1 /\ MaxBlocks \in Nat
    /\ Blocks \subseteq Nat \ {0} /\ IsFiniteSet(Blocks) /\ NoPtr \notin Blocks
    /\ 1 \in Layers /\ Bottom \in Layers /\ Layers \subseteq Nat \ {0} /\ Bottom \in Nat
    /\ Int \subseteq Things /\ Magic \in Things /\ OptionNames \subseteq Things
  <1>1. IsFiniteSet(Blocks)
    BY SettingsAssumption, FS_Interval DEF SettingsAssumption, Blocks
  <1> QED
    BY <1>1, SettingsAssumption
    DEF SettingsAssumption, AllGroups, OptionNames, Blocks, NoPtr, Layers, Bottom, Things

-----------------------------------------------------------------------------
(* Entries and their blocks                                                *)

(* An entry's block is no other entry's,                                   *)
Apart(s) ==
    \A g, h \in AllGroups : \A n \in DOMAIN s.map[g], m \in DOMAIN s.map[h] :
        s.map[g][n].ptr = s.map[h][m].ptr => g = h /\ n = m

(* and large enough, except perhaps that of name n in group g.             *)
FitsBut(s, g, n) ==
    \A h \in AllGroups : \A m \in DOMAIN s.map[h] :
        h # g \/ m # n => Len(s.block[s.map[h][m].ptr]) >= s.map[h][m].size

Fits(s) ==
    \A h \in AllGroups : \A m \in DOMAIN s.map[h] :
        Len(s.block[s.map[h][m].ptr]) >= s.map[h][m].size

Housed(s) == s \in States /\ Apart(s) /\ Fits(s)

LEMMA StateFacts ==
    ASSUME NEW s \in States
    PROVE  /\ s = [map |-> s.map, block |-> s.block, cache |-> s.cache]
           /\ s.map \in [AllGroups -> Maps] /\ s.block \in Memories
           /\ s.cache \in Chain \union {<<>>}
           /\ \A g \in AllGroups :
                 /\ DOMAIN s.map[g] \subseteq OptionNames
                 /\ s.map[g] \in [DOMAIN s.map[g] -> Places]
                 /\ \A n \in DOMAIN s.map[g] :
                       s.map[g][n].ptr \in Blocks /\ s.map[g][n].size \in Nat \ {0}
           /\ \A b \in Blocks : s.block[b] \in Seq(Things) /\ Len(s.block[b]) \in Nat
  <1>1. /\ s = [map |-> s.map, block |-> s.block, cache |-> s.cache]
        /\ s.map \in [AllGroups -> Maps] /\ s.block \in Memories
        /\ s.cache \in Chain \union {<<>>}
    BY DEF States
  <1>2. ASSUME NEW g \in AllGroups
        PROVE  /\ DOMAIN s.map[g] \subseteq OptionNames
               /\ s.map[g] \in [DOMAIN s.map[g] -> Places]
    <2>1. s.map[g] \in Maps
      BY <1>1
    <2>2. PICK N \in SUBSET OptionNames : s.map[g] \in [N -> Places]
      BY <2>1 DEF Maps
    <2> QED
      BY <2>2
  <1>3. \A g \in AllGroups : \A n \in DOMAIN s.map[g] :
                       s.map[g][n].ptr \in Blocks /\ s.map[g][n].size \in Nat \ {0}
    <2> SUFFICES ASSUME NEW g \in AllGroups, NEW n \in DOMAIN s.map[g]
                 PROVE  s.map[g][n].ptr \in Blocks /\ s.map[g][n].size \in Nat \ {0}
      OBVIOUS
    <2>1. s.map[g][n] \in Places
      BY <1>2
    <2> QED
      BY <2>1 DEF Places
  <1>4. \A b \in Blocks : s.block[b] \in Seq(Things) /\ Len(s.block[b]) \in Nat
    <2>1. \A b \in Blocks : s.block[b] \in Seq(Things)
      BY <1>1 DEF Memories
    <2> QED
      BY <2>1
  <1> QED
    BY <1>1, <1>2, <1>3, <1>4

(* What a group with f has, and one more name.                             *)
LEMMA WithIs ==
    ASSUME NEW S, NEW N, NEW f \in [N -> S], NEW n, NEW v \in S
    PROVE  /\ With(f, n, v) \in [N \union {n} -> S]
           /\ With(f, n, v)[n] = v
           /\ \A m \in N : m # n => With(f, n, v)[m] = f[m]
  BY DEF With

(* An entry that is put in free memory, or over one of the same name.      *)
Puts(s, g, n, b, sz, data) ==
    /\ s \in States /\ Apart(s) /\ FitsBut(s, g, n)
    /\ g \in AllGroups /\ n \in OptionNames /\ b \in Blocks /\ sz \in Nat \ {0}
    /\ data \in Seq(Things) /\ Len(data) >= sz
    /\ \A h \in AllGroups : \A m \in DOMAIN s.map[h] :
          s.map[h][m].ptr = b => h = g /\ m = n

(* t has what s has, and an entry for n.                                   *)
HasPut(s, t, g, n, b, sz, data) ==
    /\ t.cache = s.cache
    /\ t.map[g] = With(s.map[g], n, [ptr |-> b, size |-> sz])
    /\ \A h \in AllGroups : h # g => t.map[h] = s.map[h]
    /\ t.block[b] = data
    /\ \A c \in Blocks : c # b => t.block[c] = s.block[c]

LEMMA PlacedHasPut ==
    ASSUME NEW s, NEW g, NEW n, NEW b, NEW sz, NEW data, Puts(s, g, n, b, sz, data)
    PROVE  /\ Placed(s, g, n, b, sz, data) \in States
           /\ HasPut(s, Placed(s, g, n, b, sz, data), g, n, b, sz, data)
  <1> DEFINE e == [ptr |-> b, size |-> sz]
             t == [map |-> [s.map EXCEPT ![g] = With(s.map[g], n, e)],
                   block |-> [s.block EXCEPT ![b] = data], cache |-> s.cache]
  <1>1. /\ s \in States /\ g \in AllGroups /\ n \in OptionNames /\ b \in Blocks
        /\ sz \in Nat \ {0} /\ data \in Seq(Things)
    BY DEF Puts
  <1>2. /\ s = [map |-> s.map, block |-> s.block, cache |-> s.cache]
        /\ s.map \in [AllGroups -> Maps] /\ s.block \in Memories
        /\ s.cache \in Chain \union {<<>>}
        /\ DOMAIN s.map[g] \subseteq OptionNames
        /\ s.map[g] \in [DOMAIN s.map[g] -> Places]
    BY <1>1, StateFacts
  <1>3. Placed(s, g, n, b, sz, data) = t
    BY <1>1, <1>2 DEF Placed
  <1>4. With(s.map[g], n, e) \in Maps
    <2>1. e \in Places
      BY <1>1 DEF Places
    <2>2. With(s.map[g], n, e) \in [DOMAIN s.map[g] \union {n} -> Places]
      BY <1>2, <2>1, WithIs
    <2>3. DOMAIN s.map[g] \union {n} \in SUBSET OptionNames
      BY <1>1, <1>2
    <2> QED
      BY <2>2, <2>3 DEF Maps
  <1>5. t \in States
    <2>1. [s.map EXCEPT ![g] = With(s.map[g], n, e)] \in [AllGroups -> Maps]
      BY <1>2, <1>4
    <2>2. [s.block EXCEPT ![b] = data] \in Memories
      BY <1>1, <1>2 DEF Memories
    <2> HIDE DEF e
    <2> QED
      BY <2>1, <2>2, <1>2 DEF States
  <1>6. HasPut(s, t, g, n, b, sz, data)
    BY <1>1, <1>2 DEF HasPut, Memories
  <1> QED
    BY <1>3, <1>5, <1>6

LEMMA PutIsHoused ==
    ASSUME NEW s, NEW t \in States, NEW g, NEW n, NEW b, NEW sz, NEW data,
           Puts(s, g, n, b, sz, data), HasPut(s, t, g, n, b, sz, data)
    PROVE  Housed(t)
  <1>1. /\ s \in States /\ Apart(s) /\ FitsBut(s, g, n)
        /\ g \in AllGroups /\ n \in OptionNames /\ b \in Blocks /\ sz \in Nat \ {0}
        /\ data \in Seq(Things) /\ Len(data) >= sz
        /\ \A h \in AllGroups : \A m \in DOMAIN s.map[h] :
              s.map[h][m].ptr = b => h = g /\ m = n
    BY DEF Puts
  <1>2. /\ t.map[g] = With(s.map[g], n, [ptr |-> b, size |-> sz])
        /\ \A h \in AllGroups : h # g => t.map[h] = s.map[h]
        /\ t.block[b] = data
        /\ \A c \in Blocks : c # b => t.block[c] = s.block[c]
    BY DEF HasPut
  <1>3. DOMAIN t.map[g] = DOMAIN s.map[g] \union {n}
    BY <1>2 DEF With
  <1>4. ASSUME NEW h \in AllGroups, NEW m \in DOMAIN t.map[h]
        PROVE  /\ h = g /\ m = n => t.map[h][m].ptr = b /\ t.map[h][m].size = sz
               /\ h # g \/ m # n => m \in DOMAIN s.map[h] /\ t.map[h][m] = s.map[h][m]
    BY <1>2, <1>3 DEF With
  <1>5. ASSUME NEW h \in AllGroups, NEW m \in DOMAIN t.map[h], h # g \/ m # n
        PROVE  t.map[h][m].ptr # b /\ t.map[h][m].ptr \in Blocks
    BY <1>1, <1>4, <1>5, StateFacts
  <1>6. Apart(t)
    <2> SUFFICES ASSUME NEW h \in AllGroups, NEW k \in AllGroups, NEW m \in DOMAIN t.map[h],
                        NEW o \in DOMAIN t.map[k], t.map[h][m].ptr = t.map[k][o].ptr
                 PROVE  h = k /\ m = o
      BY DEF Apart
    <2>1. CASE h = g /\ m = n
      BY <2>1, <1>4, <1>5
    <2>2. CASE k = g /\ o = n
      BY <2>2, <1>4, <1>5
    <2>3. CASE (h # g \/ m # n) /\ (k # g \/ o # n)
      BY <2>3, <1>1, <1>4 DEF Apart
    <2> QED
      BY <2>1, <2>2, <2>3
  <1>7. Fits(t)
    <2> SUFFICES ASSUME NEW h \in AllGroups, NEW m \in DOMAIN t.map[h]
                 PROVE  Len(t.block[t.map[h][m].ptr]) >= t.map[h][m].size
      BY DEF Fits
    <2>1. CASE h = g /\ m = n
      BY <2>1, <1>1, <1>2, <1>4
    <2>2. CASE h # g \/ m # n
      <3>1. m \in DOMAIN s.map[h] /\ t.map[h][m] = s.map[h][m]
        BY <2>2, <1>4
      <3>2. t.block[t.map[h][m].ptr] = s.block[s.map[h][m].ptr]
        BY <2>2, <3>1, <1>2, <1>5
      <3>3. Len(s.block[s.map[h][m].ptr]) >= s.map[h][m].size
        BY <2>2, <3>1, <1>1 DEF FitsBut
      <3> QED
        BY <3>1, <3>2, <3>3
    <2> QED
      BY <2>1, <2>2
  <1> QED
    BY <1>6, <1>7 DEF Housed

(* The group then holds the value for the name.                            *)
LEMMA PutIsHeld ==
    ASSUME NEW s, NEW t \in States, NEW g, NEW n, NEW b, NEW sz, NEW data,
           Puts(s, g, n, b, sz, data), HasPut(s, t, g, n, b, sz, data)
    PROVE  /\ Held(t, g) = With(Held(s, g), n, data[1])
           /\ \A h \in AllGroups : h # g => Held(t, h) = Held(s, h)
  <1>1. /\ s \in States /\ g \in AllGroups /\ b \in Blocks
        /\ \A h \in AllGroups : \A m \in DOMAIN s.map[h] :
              s.map[h][m].ptr = b => h = g /\ m = n
    BY DEF Puts
  <1>2. /\ t.map[g] = With(s.map[g], n, [ptr |-> b, size |-> sz])
        /\ \A h \in AllGroups : h # g => t.map[h] = s.map[h]
        /\ t.block[b] = data
        /\ \A c \in Blocks : c # b => t.block[c] = s.block[c]
    BY DEF HasPut
  <1>3. \A h \in AllGroups : \A m \in DOMAIN s.map[h] : s.map[h][m].ptr \in Blocks
    BY <1>1, StateFacts
  <1>4. ASSUME NEW h \in AllGroups, h # g PROVE Held(t, h) = Held(s, h)
    BY <1>1, <1>2, <1>3, <1>4 DEF Held
  <1>5. Held(t, g) = With(Held(s, g), n, data[1])
    <2>1. DOMAIN t.map[g] = DOMAIN s.map[g] \union {n}
      BY <1>2 DEF With
    <2>2. \A m \in DOMAIN s.map[g] \union {n} :
              t.block[t.map[g][m].ptr][1] = IF m = n THEN data[1]
                                            ELSE s.block[s.map[g][m].ptr][1]
      <3> SUFFICES ASSUME NEW m \in DOMAIN s.map[g] \union {n}
                   PROVE  t.block[t.map[g][m].ptr][1] = IF m = n THEN data[1]
                                                        ELSE s.block[s.map[g][m].ptr][1]
        OBVIOUS
      <3>1. CASE m = n
        <4>1. t.map[g][m].ptr = b
          BY <3>1, <1>2 DEF With
        <4> QED
          BY <3>1, <4>1, <1>2
      <3>2. CASE m # n
        <4>1. t.map[g][m] = s.map[g][m] /\ m \in DOMAIN s.map[g]
          BY <3>2, <1>2 DEF With
        <4>2. s.map[g][m].ptr # b /\ s.map[g][m].ptr \in Blocks
          BY <3>2, <4>1, <1>1, <1>3
        <4> QED
          BY <3>2, <4>1, <4>2, <1>2
      <3> QED
        BY <3>1, <3>2
    <2> QED
      BY <2>1, <2>2 DEF Held, With
  <1> QED
    BY <1>4, <1>5

(* At most one free block is used up.                                      *)
Spends(s, t) == Cardinality(FreeBlocks(t)) >= Cardinality(FreeBlocks(s)) - 1

LEMMA FreeFacts ==
    ASSUME NEW s
    PROVE  /\ IsFiniteSet(FreeBlocks(s)) /\ Cardinality(FreeBlocks(s)) \in Nat
           /\ Cardinality(FreeBlocks(s)) >= 1 => FreeBlocks(s) # {}
           /\ FreeBlocks(s) # {} => Fresh(s) \in FreeBlocks(s)
           /\ FreeBlocks(s) = {} => Fresh(s) = NoPtr
           /\ FreeBlocks(s) \subseteq Blocks
  <1>1. FreeBlocks(s) \subseteq Blocks
    BY DEF FreeBlocks
  <1>2. IsFiniteSet(FreeBlocks(s)) /\ Cardinality(FreeBlocks(s)) \in Nat
    BY <1>1, Facts, FS_Subset, FS_CardinalityType
  <1>3. Cardinality(FreeBlocks(s)) >= 1 => FreeBlocks(s) # {}
    BY FS_EmptySet
  <1>4. ASSUME FreeBlocks(s) # {} PROVE Fresh(s) \in FreeBlocks(s)
    <2>1. FreeBlocks(s) \in SUBSET Nat
      BY <1>1, Facts
    <2>2. \E x \in FreeBlocks(s) : \A y \in FreeBlocks(s) : x <= y
      BY <2>1, <1>4, Least
    <2> QED
      BY <2>2, <1>4 DEF Fresh, Min
  <1> QED
    BY <1>1, <1>2, <1>3, <1>4 DEF Fresh

LEMMA OneIsSpent ==
    ASSUME NEW s, NEW t, NEW b, FreeBlocks(s) \ {b} \subseteq FreeBlocks(t)
    PROVE  Spends(s, t)
  <1>1. /\ IsFiniteSet(FreeBlocks(s)) /\ Cardinality(FreeBlocks(s)) \in Nat
        /\ IsFiniteSet(FreeBlocks(t)) /\ Cardinality(FreeBlocks(t)) \in Nat
    BY FreeFacts
  <1>2. Cardinality(FreeBlocks(s) \ {b}) >= Cardinality(FreeBlocks(s)) - 1
    <2>1. Cardinality(FreeBlocks(s) \ {b}) =
              IF b \in FreeBlocks(s) THEN Cardinality(FreeBlocks(s)) - 1
                                     ELSE Cardinality(FreeBlocks(s))
      BY <1>1, FS_RemoveElement
    <2> QED
      BY <1>1, <2>1
  <1>3. Cardinality(FreeBlocks(s) \ {b}) <= Cardinality(FreeBlocks(t))
    BY <1>1, FS_Subset
  <1>4. IsFiniteSet(FreeBlocks(s) \ {b}) /\ Cardinality(FreeBlocks(s) \ {b}) \in Nat
    BY <1>1, FS_RemoveElement, FS_Subset, FS_CardinalityType
  <1> QED
    BY <1>1, <1>2, <1>3, <1>4 DEF Spends

LEMMA PutSpends ==
    ASSUME NEW s, NEW t, NEW g, NEW n, NEW b, NEW sz, NEW data,
           HasPut(s, t, g, n, b, sz, data)
    PROVE  Spends(s, t)
  <1>1. FreeBlocks(s) \ {b} \subseteq FreeBlocks(t)
    BY DEF HasPut, FreeBlocks
  <1> QED
    BY <1>1, OneIsSpent

(* Group g gets name n with value v if it has none, and nothing else.      *)
Filled(s, t, g, n, v) ==
    /\ \A h \in AllGroups : h # g => Held(t, h) = Held(s, h)
    /\ \/ Held(t, g) = Held(s, g)
       \/ n \notin DOMAIN Held(s, g) /\ Held(t, g) = With(Held(s, g), n, v)

Grows(s, t) ==
    \A g \in AllGroups : \A n \in DOMAIN s.map[g] :
        n \in DOMAIN t.map[g] /\ t.map[g][n] = s.map[g][n]

LEMMA HeldFacts ==
    ASSUME NEW s
    PROVE  \A g : /\ DOMAIN Held(s, g) = DOMAIN s.map[g]
                  /\ Held(s, g) = [n \in DOMAIN s.map[g] |-> Held(s, g)[n]]
                  /\ \A n \in DOMAIN s.map[g] : Held(s, g)[n] = s.block[s.map[g][n].ptr][1]
  BY DEF Held

(* Blocks of entries are not free.                                         *)
LEMMA HousedFacts ==
    ASSUME NEW s, Housed(s), NEW g \in AllGroups, NEW n \in DOMAIN s.map[g]
    PROVE  /\ s.map[g][n].ptr \in Blocks /\ s.map[g][n].ptr # NoPtr
           /\ s.map[g][n].ptr \notin FreeBlocks(s)
           /\ Len(s.block[s.map[g][n].ptr]) >= 1
  <1>1. s \in States /\ Len(s.block[s.map[g][n].ptr]) >= s.map[g][n].size
    BY DEF Housed, Fits
  <1>2. /\ s.map[g][n].ptr \in Blocks /\ s.map[g][n].size \in Nat \ {0}
        /\ Len(s.block[s.map[g][n].ptr]) \in Nat
    BY <1>1, StateFacts
  <1>3. Len(s.block[s.map[g][n].ptr]) >= 1
    BY <1>1, <1>2
  <1>4. s.block[s.map[g][n].ptr] # <<>>
    BY <1>3
  <1> QED
    BY <1>2, <1>3, <1>4, Facts DEF FreeBlocks

(* What an option gets in a group, if there is memory.                     *)
Reserved(s, t, g, n, v) ==
    /\ Housed(t) /\ t.cache = s.cache /\ Grows(s, t) /\ Filled(s, t, g, n, v) /\ Spends(s, t)
    /\ FreeBlocks(s) # {} => n \in DOMAIN t.map[g]
    /\ \A h \in AllGroups : \A m \in OptionNames : h # g \/ m # n =>
          (m \in DOMAIN t.map[h] => m \in DOMAIN s.map[h])

LEMMA SpendsNothing == ASSUME NEW s PROVE Spends(s, s)
  BY FreeFacts DEF Spends

LEMMA ReserveIs ==
    ASSUME NEW s, Housed(s), NEW g \in AllGroups, NEW n \in OptionNames, NEW v \in Int
    PROVE  Reserved(s, ReserveOption(s, g, n, v), g, n, v)
  <1>1. CASE n \in DOMAIN s.map[g] \/ Fresh(s) = NoPtr
    <2>1. ReserveOption(s, g, n, v) = s
      BY <1>1 DEF ReserveOption
    <2>2. FreeBlocks(s) # {} => n \in DOMAIN s.map[g]
      BY <1>1, FreeFacts, Facts
    <2>3. Grows(s, s) /\ Filled(s, s, g, n, v)
      BY DEF Grows, Filled
    <2> QED
      BY <2>1, <2>2, <2>3, SpendsNothing DEF Reserved
  <1>2. CASE n \notin DOMAIN s.map[g] /\ Fresh(s) # NoPtr
    <2> DEFINE b == Fresh(s)
               t == Placed(s, g, n, b, 1, Data(v))
    <2>1. ReserveOption(s, g, n, v) = t
      BY <1>2 DEF ReserveOption
    <2>2. b \in FreeBlocks(s) /\ b \in Blocks
      BY <1>2, FreeFacts
    <2>3. Data(v) \in Seq(Things) /\ Len(Data(v)) = 1 /\ Data(v)[1] = v
      BY Facts DEF Data
    <2>4. s \in States /\ Apart(s) /\ FitsBut(s, g, n)
      BY DEF Housed, Fits, FitsBut
    <2>5. \A h \in AllGroups : \A m \in DOMAIN s.map[h] : s.map[h][m].ptr # b
      BY <2>2, HousedFacts
    <2>6. Puts(s, g, n, b, 1, Data(v))
      <3> HIDE DEF b
      <3> QED
        BY <2>2, <2>3, <2>4, <2>5 DEF Puts
    <2> HIDE DEF b
    <2>7. t \in States /\ HasPut(s, t, g, n, b, 1, Data(v))
      BY <2>6, PlacedHasPut
    <2> HIDE DEF t
    <2>8. Housed(t) /\ Spends(s, t)
      BY <2>6, <2>7, PutIsHoused, PutSpends
    <2>9. /\ Held(t, g) = With(Held(s, g), n, Data(v)[1])
          /\ \A h \in AllGroups : h # g => Held(t, h) = Held(s, h)
      BY <2>6, <2>7, PutIsHeld
    <2>10. Filled(s, t, g, n, v)
      BY <2>3, <2>9, <1>2, HeldFacts DEF Filled
    <2>11. /\ t.cache = s.cache
           /\ t.map[g] = With(s.map[g], n, [ptr |-> b, size |-> 1])
           /\ \A h \in AllGroups : h # g => t.map[h] = s.map[h]
      BY <2>7 DEF HasPut
    <2>12. Grows(s, t) /\ n \in DOMAIN t.map[g]
      BY <2>11, <1>2 DEF Grows, With
    <2>13. \A h \in AllGroups : \A m \in OptionNames : h # g \/ m # n =>
              (m \in DOMAIN t.map[h] => m \in DOMAIN s.map[h])
      BY <2>11 DEF With
    <2> QED
      BY <2>1, <2>8, <2>10, <2>11, <2>12, <2>13 DEF Reserved
  <1> QED
    BY <1>1, <1>2

LEMMA Joined ==
    ASSUME NEW T, NEW a \in Seq(T), NEW c \in Seq(T)
    PROVE  /\ a \o c \in Seq(T) /\ Len(a \o c) = Len(a) + Len(c)
           /\ \A k \in 1 .. Len(a) : (a \o c)[k] = a[k]
           /\ \A k \in 1 .. Len(c) : (a \o c)[Len(a) + k] = c[k]
  BY ConcatProperties

(* A sequence whose first element is replaced.                             *)
LEMMA OverStart ==
    ASSUME NEW T, NEW a \in Seq(T), Len(a) = 1, NEW c \in Seq(T), Len(c) >= 1
    PROVE  /\ a \o SubSeq(c, 2, Len(c)) \in Seq(T)
           /\ Len(a \o SubSeq(c, 2, Len(c))) = Len(c)
           /\ (a \o SubSeq(c, 2, Len(c)))[1] = a[1]
  <1> DEFINE n == Len(c)
             rest == SubSeq(c, 2, n)
  <1>1. n \in Nat /\ n >= 1
    OBVIOUS
  <1>2. \A k \in 2 .. n : c[k] \in T
    BY <1>1
  <1>3. rest \in Seq(T) /\ Len(rest) = IF 2 <= n THEN n - 2 + 1 ELSE 0
    <2>1. 2 \in Int /\ n \in Int
      BY <1>1
    <2> HIDE DEF n
    <2> QED
      BY <2>1, <1>2, SubSeqProperties
  <1> HIDE DEF rest, n
  <1>4. /\ a \o rest \in Seq(T) /\ Len(a \o rest) = Len(a) + Len(rest)
        /\ \A k \in 1 .. Len(a) : (a \o rest)[k] = a[k]
    BY <1>3, Joined
  <1>5. Len(a \o rest) = n /\ (a \o rest)[1] = a[1]
    BY <1>1, <1>3, <1>4
  <1> QED
    BY <1>4, <1>5 DEF rest, n

(* A value that is written to an entry's block.                            *)
Writes(s, t, g, n, v) ==
    /\ Housed(t) /\ t.map = s.map /\ t.cache = s.cache /\ FreeBlocks(t) = FreeBlocks(s)
    /\ Held(t, g) = With(Held(s, g), n, v)
    /\ \A h \in AllGroups : h # g => Held(t, h) = Held(s, h)

LEMMA WriteIs ==
    ASSUME NEW s, Housed(s), NEW g \in AllGroups, NEW n \in DOMAIN s.map[g], NEW v \in Int
    PROVE  Writes(s, WriteBlock(s, s.map[g][n].ptr, Data(v)), g, n, v)
  <1> DEFINE b == s.map[g][n].ptr
             old == s.block[b]
             data == Data(v) \o SubSeq(old, 2, Len(old))
             t == [map |-> s.map, block |-> [s.block EXCEPT ![b] = data], cache |-> s.cache]
  <1>1. /\ s \in States /\ Apart(s) /\ Fits(s)
        /\ s = [map |-> s.map, block |-> s.block, cache |-> s.cache]
        /\ s.map \in [AllGroups -> Maps] /\ s.block \in Memories
        /\ s.cache \in Chain \union {<<>>}
    BY StateFacts DEF Housed
  <1>2. /\ b \in Blocks /\ b \notin FreeBlocks(s) /\ old \in Seq(Things) /\ Len(old) >= 1
        /\ s.map[g][n].size \in Nat \ {0} /\ Len(old) >= s.map[g][n].size
        /\ n \in OptionNames
    BY <1>1, HousedFacts, StateFacts DEF Fits
  <1>3. /\ Data(v) \in Seq(Things) /\ Len(Data(v)) = 1 /\ Data(v)[1] = v
    BY Facts DEF Data
  <1>5. /\ data \in Seq(Things) /\ Len(data) = Len(old) /\ data[1] = v
    <2>1. /\ old \in Seq(Things) /\ Len(old) >= 1
          /\ Data(v) \in Seq(Things) /\ Len(Data(v)) = 1
      BY <1>2, <1>3
    <2> HIDE DEF old
    <2>2. data \in Seq(Things) /\ Len(data) = Len(old) /\ data[1] = Data(v)[1]
      BY <2>1, OverStart
    <2> QED
      BY <2>2, <1>3
  <1>6. WriteBlock(s, b, Data(v)) = t
    <2>1. old # <<>>
      BY <1>2
    <2>2. WriteBlock(s, b, Data(v)) =
              [s EXCEPT !.block[b] = Data(v) \o SubSeq(old, Len(Data(v)) + 1, Len(old))]
      BY <2>1 DEF WriteBlock
    <2>3. Len(Data(v)) + 1 = 2
      BY <1>3
    <2> HIDE DEF old
    <2>4. WriteBlock(s, b, Data(v)) = [s EXCEPT !.block[b] = data]
      BY <2>2, <2>3
    <2> HIDE DEF data
    <2> QED
      BY <2>4, <1>1
  <1> HIDE DEF old, data
  <1>7. t \in States
    BY <1>1, <1>2, <1>5 DEF States, Memories
  <1>8. Puts(s, g, n, b, s.map[g][n].size, data)
    <2>1. FitsBut(s, g, n)
      BY <1>1 DEF Fits, FitsBut
    <2>2. \A h \in AllGroups : \A m \in DOMAIN s.map[h] :
              s.map[h][m].ptr = b => h = g /\ m = n
      BY <1>1 DEF Apart
    <2> QED
      BY <2>1, <2>2, <1>1, <1>2, <1>5 DEF Puts
  <1>9. HasPut(s, t, g, n, b, s.map[g][n].size, data)
    <2>1. s.map[g] = With(s.map[g], n, [ptr |-> b, size |-> s.map[g][n].size])
      <3>1. s.map[g][n] \in Places /\ s.map[g] \in [DOMAIN s.map[g] -> Places]
        BY <1>1, StateFacts
      <3>2. s.map[g][n] = [ptr |-> b, size |-> s.map[g][n].size]
        BY <3>1 DEF Places
      <3> QED
        BY <3>1, <3>2 DEF With
    <2> QED
      BY <2>1, <1>1, <1>2 DEF HasPut, Memories
  <1>10. FreeBlocks(t) = FreeBlocks(s)
    <2>1. data # <<>> /\ s.block[b] # <<>>
      <3>1. Len(data) >= 1
        BY <1>2, <1>5
      <3> QED
        BY <3>1, <1>2 DEF old
    <2>2. \A c \in Blocks : t.block[c] = <<>> <=> s.block[c] = <<>>
      BY <2>1, <1>1, <1>2 DEF Memories
    <2> HIDE DEF t
    <2> QED
      BY <2>2 DEF FreeBlocks
  <1>11. t.map = s.map /\ t.cache = s.cache
    OBVIOUS
  <1> HIDE DEF t, b
  <1>12. Housed(t)
    BY <1>7, <1>8, <1>9, PutIsHoused
  <1>13. /\ Held(t, g) = With(Held(s, g), n, data[1])
         /\ \A h \in AllGroups : h # g => Held(t, h) = Held(s, h)
    BY <1>7, <1>8, <1>9, PutIsHeld
  <1>14. Writes(s, t, g, n, v)
    BY <1>5, <1>10, <1>11, <1>12, <1>13 DEF Writes
  <1> QED
    BY <1>6, <1>14 DEF b

-----------------------------------------------------------------------------
(* Loading                                                                 *)

EntryRecords == {e \in [crc : OptionNames, data : Seq(Things)] : Len(e.data) >= 1}

(* An entry of a file is put over what group g holds.                      *)
Loads(s, t, g, e) ==
    /\ Housed(t) /\ t.cache = s.cache /\ Spends(s, t)
    /\ \A h \in AllGroups : h # g => t.map[h] = s.map[h] /\ Held(t, h) = Held(s, h)
    /\ \/ Held(t, g) = With(Held(s, g), e.crc, e.data[1])
       \/ FreeBlocks(s) = {} /\ Held(t, g) = Held(s, g)

(* s, or s without the block of an entry that is loaded.                   *)
MakesRoom(s, r, g, n) ==
    /\ r \in States /\ r.map = s.map /\ r.cache = s.cache
    /\ FitsBut(r, g, n) /\ FreeBlocks(s) \subseteq FreeBlocks(r)
    /\ \A h \in AllGroups : h # g => Held(r, h) = Held(s, h)
    /\ \A m \in DOMAIN s.map[g] : m # n => Held(r, g)[m] = Held(s, g)[m]
    /\ \A h \in AllGroups : \A m \in DOMAIN s.map[h] :
          s.map[h][m].ptr \in FreeBlocks(r) => h = g /\ m = n

LEMMA PlacedLoads ==
    ASSUME NEW s, Housed(s), NEW g \in AllGroups, NEW e \in EntryRecords, NEW r,
           MakesRoom(s, r, g, e.crc), NEW b \in FreeBlocks(r), NEW sz \in Nat \ {0},
           NEW data \in Seq(Things), Len(data) >= sz, data[1] = e.data[1]
    PROVE  Loads(s, Placed(r, g, e.crc, b, sz, data), g, e)
  <1> DEFINE n == e.crc
             t == Placed(r, g, n, b, sz, data)
  <1>1. /\ r \in States /\ r.map = s.map /\ r.cache = s.cache
        /\ FitsBut(r, g, n) /\ FreeBlocks(s) \subseteq FreeBlocks(r)
        /\ \A h \in AllGroups : h # g => Held(r, h) = Held(s, h)
        /\ \A m \in DOMAIN s.map[g] : m # n => Held(r, g)[m] = Held(s, g)[m]
        /\ \A h \in AllGroups : \A m \in DOMAIN s.map[h] :
              s.map[h][m].ptr \in FreeBlocks(r) => h = g /\ m = n
    BY DEF MakesRoom
  <1>2. n \in OptionNames /\ b \in Blocks
    BY FreeFacts DEF EntryRecords
  <1>3. Apart(r)
    BY <1>1 DEF Housed, Apart
  <1>4. \A h \in AllGroups : \A m \in DOMAIN r.map[h] : r.map[h][m].ptr = b => h = g /\ m = n
    BY <1>1
  <1>5. Puts(r, g, n, b, sz, data)
    BY <1>1, <1>2, <1>3, <1>4 DEF Puts
  <1> HIDE DEF n
  <1>6. t \in States /\ HasPut(r, t, g, n, b, sz, data)
    BY <1>5, PlacedHasPut
  <1> HIDE DEF t
  <1>7. Housed(t)
    BY <1>5, <1>6, PutIsHoused
  <1>8. /\ Held(t, g) = With(Held(r, g), n, data[1])
        /\ \A h \in AllGroups : h # g => Held(t, h) = Held(r, h)
    BY <1>5, <1>6, PutIsHeld
  <1>9. With(Held(r, g), n, data[1]) = With(Held(s, g), n, data[1])
    <2>1. DOMAIN Held(r, g) = DOMAIN s.map[g] /\ DOMAIN Held(s, g) = DOMAIN s.map[g]
      BY <1>1, HeldFacts
    <2> QED
      BY <1>1, <2>1 DEF With
  <1>10. /\ t.cache = r.cache
         /\ \A h \in AllGroups : h # g => t.map[h] = r.map[h]
         /\ \A c \in Blocks : c # b => t.block[c] = r.block[c]
    BY <1>6 DEF HasPut
  <1>11. Spends(s, t)
    <2>1. FreeBlocks(s) \ {b} \subseteq FreeBlocks(t)
      BY <1>1, <1>10 DEF FreeBlocks
    <2> QED
      BY <2>1, OneIsSpent
  <1> QED
    BY <1>1, <1>7, <1>8, <1>9, <1>10, <1>11 DEF Loads, n, t

LEMMA LoadEntryLoads ==
    ASSUME NEW s, Housed(s), NEW g \in AllGroups, NEW e \in EntryRecords
    PROVE  Loads(s, LoadEntry(s, g, e), g, e)
  <1> DEFINE n == e.crc
             known == n \in DOMAIN s.map[g]
             old == s.map[g][n]
             len == Len(e.data)
             origSz == IF known THEN old.size ELSE len
             tooSmall == known /\ old.size < len
             allocSz == IF known /\ ~tooSmall THEN old.size ELSE len
             r == IF tooSmall THEN [s EXCEPT !.block[old.ptr] = <<>>] ELSE s
             rest == [o \in 1 .. allocSz - len |-> Junk]
             data == e.data \o rest
  <1>1. /\ s \in States /\ Apart(s) /\ Fits(s)
        /\ s = [map |-> s.map, block |-> s.block, cache |-> s.cache]
        /\ s.map \in [AllGroups -> Maps] /\ s.block \in Memories
        /\ s.cache \in Chain \union {<<>>}
    BY StateFacts DEF Housed
  <1>2. n \in OptionNames /\ e.data \in Seq(Things) /\ len \in Nat /\ len >= 1
    BY DEF EntryRecords
  <1>3. known => old.ptr \in Blocks /\ old.size \in Nat \ {0}
    BY <1>1, StateFacts
  <1>4. /\ origSz \in Nat \ {0} /\ allocSz \in Nat
        /\ origSz <= allocSz /\ len <= allocSz
    BY <1>2, <1>3
  <1>5. data \in Seq(Things) /\ Len(data) >= origSz /\ data[1] = e.data[1]
    <2> DEFINE k == allocSz - len
    <2>1. k \in Nat /\ len + k = allocSz /\ origSz \in Nat /\ allocSz \in Nat
      BY <1>2, <1>4
    <2> HIDE DEF k, allocSz, origSz
    <2>2. rest \in Seq(Things) /\ Len(rest) = k
      <3>1. rest = [o \in 1 .. k |-> Junk]
        BY DEF k
      <3>2. Junk \in Things
        BY Facts DEF Junk
      <3>3. [o \in 1 .. k |-> Junk] \in [1 .. k -> Things]
        BY <3>2
      <3> QED
        BY <3>1, <3>3, <2>1
    <2> HIDE DEF rest, len
    <2>3. /\ data \in Seq(Things) /\ Len(data) = Len(e.data) + Len(rest)
          /\ \A j \in 1 .. Len(e.data) : data[j] = e.data[j]
      BY <2>2, <1>2, Joined
    <2> HIDE DEF data
    <2>4. 1 \in 1 .. Len(e.data)
      BY <1>2 DEF len
    <2>5. Len(data) = allocSz
      BY <2>1, <2>2, <2>3, <1>2 DEF len
    <2> QED
      BY <2>1, <2>3, <2>4, <2>5, <1>4
  <1> HIDE DEF data, origSz, allocSz, rest
  <1>6. MakesRoom(s, r, g, n)
    <2>1. CASE ~tooSmall
      <3>1. r = s
        BY <2>1
      <3>2. FitsBut(s, g, n)
        BY <1>1 DEF Fits, FitsBut
      <3>3. \A h \in AllGroups : \A m \in DOMAIN s.map[h] : s.map[h][m].ptr \notin FreeBlocks(s)
        BY HousedFacts
      <3> HIDE DEF r
      <3> QED
        BY <3>1, <3>2, <3>3, <1>1 DEF MakesRoom
    <2>2. CASE tooSmall
      <3> DEFINE b == old.ptr
                 u == [map |-> s.map, block |-> [s.block EXCEPT ![b] = <<>>], cache |-> s.cache]
      <3>1. known /\ b \in Blocks
        BY <2>2, <1>3
      <3>2. r = u
        BY <2>2, <1>1
      <3>3. u \in States
        <4>1. <<>> \in Seq(Things)
          OBVIOUS
        <4> QED
          BY <4>1, <3>1, <1>1 DEF States, Memories
      <3>4. /\ u.map = s.map /\ u.cache = s.cache /\ u.block[b] = <<>>
            /\ \A c \in Blocks : c # b => u.block[c] = s.block[c]
        BY <3>1, <1>1 DEF Memories
      <3>5. \A h \in AllGroups : \A m \in DOMAIN s.map[h] :
                /\ s.map[h][m].ptr \in Blocks /\ s.map[h][m].ptr \notin FreeBlocks(s)
                /\ s.map[h][m].ptr = b => h = g /\ m = n
        BY <3>1, <1>1, HousedFacts DEF Apart
      <3> HIDE DEF b, u, known
      <3>6. ASSUME NEW h \in AllGroups, NEW m \in DOMAIN s.map[h], h # g \/ m # n
            PROVE  /\ u.map[h][m] = s.map[h][m]
                   /\ u.block[s.map[h][m].ptr] = s.block[s.map[h][m].ptr]
                   /\ s.map[h][m].ptr \notin FreeBlocks(u)
        <4>1. s.map[h][m].ptr # b /\ s.map[h][m].ptr \in Blocks /\ s.map[h][m].ptr \notin FreeBlocks(s)
          BY <3>5, <3>6
        <4> QED
          BY <4>1, <3>4 DEF FreeBlocks
      <3>7. FitsBut(u, g, n)
        BY <3>4, <3>6, <1>1 DEF FitsBut, Fits
      <3>8. FreeBlocks(s) \subseteq FreeBlocks(u)
        BY <3>4 DEF FreeBlocks
      <3>9. \A h \in AllGroups : h # g => Held(u, h) = Held(s, h)
        BY <3>4, <3>6 DEF Held
      <3>10. \A m \in DOMAIN s.map[g] : m # n => Held(u, g)[m] = Held(s, g)[m]
        BY <3>4, <3>6 DEF Held
      <3> HIDE DEF r
      <3> QED
        BY <3>2, <3>3, <3>4, <3>6, <3>7, <3>8, <3>9, <3>10 DEF MakesRoom
    <2> QED
      BY <2>1, <2>2
  <1>7. LoadEntry(s, g, e) =
            IF Fresh(r) = NoPtr THEN r ELSE Placed(r, g, n, Fresh(r), origSz, data)
    BY DEF LoadEntry, data, origSz, allocSz, rest
  <1>8. CASE Fresh(r) = NoPtr
    <2>1. FreeBlocks(r) = {}
      BY <1>8, FreeFacts, Facts
    <2>2. ~tooSmall
      <3> SUFFICES ASSUME tooSmall PROVE FALSE
        OBVIOUS
      <3>1. known /\ old.ptr \in Blocks
        BY <1>3
      <3>2. r = [s EXCEPT !.block[old.ptr] = <<>>]
        OBVIOUS
      <3>3. r.block[old.ptr] = <<>>
        BY <3>1, <3>2, <1>1 DEF Memories
      <3> HIDE DEF r, old
      <3> QED
        BY <3>1, <3>3, <2>1 DEF FreeBlocks
    <2>3. r = s
      BY <2>2
    <2> HIDE DEF r
    <2>4. LoadEntry(s, g, e) = s
      BY <1>7, <1>8, <2>3
    <2> QED
      BY <2>1, <2>3, <2>4, SpendsNothing DEF Loads
  <1>9. CASE Fresh(r) # NoPtr
    <2> HIDE DEF r
    <2>1. Fresh(r) \in FreeBlocks(r)
      BY <1>9, FreeFacts
    <2>2. LoadEntry(s, g, e) = Placed(r, g, n, Fresh(r), origSz, data)
      BY <1>7, <1>9
    <2>3. Loads(s, Placed(r, g, e.crc, Fresh(r), origSz, data), g, e)
      BY <1>4, <1>5, <1>6, <2>1, PlacedLoads
    <2> QED
      BY <2>2, <2>3
  <1> QED
    BY <1>8, <1>9

HousedStates == {s \in States : Apart(s) /\ Fits(s)}

(* f takes the entries of E, one after the other, into group g.            *)
LoadsAll(f, g, E) ==
    /\ f \in [0 .. Len(E) -> HousedStates] /\ f[0] = Now
    /\ \A k \in 1 .. Len(E) : Loads(f[k - 1], f[k], g, E[k])

LEMMA InitializedLoads ==
    ASSUME Housed(Now), NEW g \in AllGroups, NEW E \in Seq(EntryRecords), NEW idx,
           Entries(idx) = E
    PROVE  \E f : LoadsAll(f, g, E) /\ Initialized(g, idx) = f[Len(E)]
  <1> DEFINE n == Len(E)
             iter[s \in SUBSET (DOMAIN E)] ==
                 IF s = {} THEN Now ELSE LoadEntry(iter[s \ {Max(s)}], g, E[Max(s)])
             step == [k \in 1 .. n |-> [s \in HousedStates |-> LoadEntry(s, g, E[k])]]
  <1>1. Initialized(g, idx) = iter[DOMAIN E]
    BY DEF Initialized, FoldLeft, MapThenFoldSet
  <1>2. DOMAIN E = 1 .. n /\ n \in Nat /\ \A k \in 1 .. n : E[k] \in EntryRecords
    OBVIOUS
  <1>3. Now \in HousedStates /\ \A s \in HousedStates : Housed(s)
    BY DEF HousedStates, Housed
  <1>4. \A s : Housed(s) => s \in HousedStates
    BY DEF HousedStates, Housed
  <1> HIDE DEF n
  <1>5. \A s \in HousedStates, k \in 1 .. n :
            LoadEntry(s, g, E[k]) \in HousedStates /\ Loads(s, LoadEntry(s, g, E[k]), g, E[k])
    <2> SUFFICES ASSUME NEW s \in HousedStates, NEW k \in 1 .. n
                 PROVE  /\ LoadEntry(s, g, E[k]) \in HousedStates
                        /\ Loads(s, LoadEntry(s, g, E[k]), g, E[k])
      OBVIOUS
    <2>1. Loads(s, LoadEntry(s, g, E[k]), g, E[k])
      BY <1>2, <1>3, LoadEntryLoads
    <2>2. Housed(LoadEntry(s, g, E[k]))
      BY <2>1 DEF Loads
    <2> QED
      BY <2>1, <2>2, <1>4
  <1>6. step \in [1 .. n -> [HousedStates -> HousedStates]]
    BY <1>5
  <1>7. \A k \in 1 .. n : \A s \in HousedStates : step[k][s] = LoadEntry(s, g, E[k])
    OBVIOUS
  <1> HIDE DEF step
  <1>8. HasFold(HousedStates, Now, step, n)
    BY <1>2, <1>3, <1>6, FoldsExist
  <1>9. PICK h \in [SUBSET (1 .. n) -> HousedStates] : FoldsLeft(h, Now, step, n)
    BY <1>8 DEF HasFold
  <1>10. \A s \in SUBSET (1 .. n) : s # {} => Max(s) \in 1 .. n
    BY <1>2, MaxIs
  <1>11. \A s \in SUBSET (1 .. n) :
            h[s] = IF s = {} THEN Now ELSE LoadEntry(h[s \ {Max(s)}], g, E[Max(s)])
    <2> SUFFICES ASSUME NEW s \in SUBSET (1 .. n)
                 PROVE  h[s] = IF s = {} THEN Now ELSE LoadEntry(h[s \ {Max(s)}], g, E[Max(s)])
      OBVIOUS
    <2>1. h[s] = IF s = {} THEN Now ELSE step[Max(s)][h[s \ {Max(s)}]]
      BY <1>9 DEF FoldsLeft
    <2>2. s # {} => Max(s) \in 1 .. n /\ h[s \ {Max(s)}] \in HousedStates
      BY <1>9, <1>10
    <2> QED
      BY <2>1, <2>2, <1>7
  <1>12. h = [s \in SUBSET (DOMAIN E) |->
                IF s = {} THEN Now ELSE LoadEntry(h[s \ {Max(s)}], g, E[Max(s)])]
    BY <1>2, <1>9, <1>11
  <1>13. iter = [s \in SUBSET (DOMAIN E) |->
                IF s = {} THEN Now ELSE LoadEntry(iter[s \ {Max(s)}], g, E[Max(s)])]
    BY <1>12
  <1>14. \A s \in SUBSET (1 .. n) :
            iter[s] = IF s = {} THEN Now ELSE LoadEntry(iter[s \ {Max(s)}], g, E[Max(s)])
    <2> QED
      BY <1>13, <1>2
  <1> HIDE DEF iter
  <1>15. iter[{}] = Now /\ 1 .. 0 = {}
    <2>1. {} \in SUBSET (1 .. n) /\ 1 .. 0 = {}
      OBVIOUS
    <2> QED
      BY <2>1, <1>14
  <1>16. ASSUME NEW k \in 1 .. n PROVE iter[1 .. k] = LoadEntry(iter[1 .. k - 1], g, E[k])
    <2>1. k \in Nat \ {0} /\ 1 .. k \in SUBSET (1 .. n) /\ 1 .. k # {}
      <3>1. k \in Nat \ {0} /\ k \in 1 .. k /\ \A j \in 1 .. k : j \in 1 .. n
        BY <1>2
      <3> QED
        BY <3>1
    <2>2. Max(1 .. k) = k /\ (1 .. k) \ {k} = 1 .. k - 1
      BY <2>1, MaxOfFirst
    <2> QED
      BY <2>1, <2>2, <1>14
  <1> DEFINE f == [k \in 0 .. n |-> iter[1 .. k]]
             T == {k \in Nat : k <= n => iter[1 .. k] \in HousedStates}
  <1>17. 0 \in T
    BY <1>3, <1>15
  <1>18. ASSUME NEW k \in Nat, k \in T PROVE k + 1 \in T
    <2> SUFFICES ASSUME k + 1 <= n PROVE iter[1 .. k + 1] \in HousedStates
      OBVIOUS
    <2>1. k + 1 \in 1 .. n /\ k <= n /\ (k + 1) - 1 = k
      BY <1>2
    <2>2. iter[1 .. k] \in HousedStates
      BY <2>1, <1>18
    <2>3. iter[1 .. k + 1] = LoadEntry(iter[1 .. k], g, E[k + 1])
      BY <2>1, <1>16
    <2> QED
      BY <2>1, <2>2, <2>3, <1>5
  <1>19. \A k \in 0 .. n : iter[1 .. k] \in HousedStates
    <2>1. \A k \in Nat : k \in T
      <3> HIDE DEF T
      <3> QED
        BY <1>17, <1>18, Inductive
    <2> QED
      BY <2>1, <1>2
  <1>20. f \in [0 .. n -> HousedStates] /\ f[0] = Now
    BY <1>2, <1>15, <1>19
  <1>21. ASSUME NEW k \in 1 .. n PROVE Loads(f[k - 1], f[k], g, E[k])
    <2>1. k - 1 \in 0 .. n /\ k \in 0 .. n
      BY <1>2
    <2>2. f[k - 1] = iter[1 .. k - 1] /\ f[k] = iter[1 .. k] /\ f[k - 1] \in HousedStates
      BY <2>1, <1>19
    <2> HIDE DEF f
    <2> QED
      BY <2>2, <1>5, <1>16
  <1>22. f[n] = iter[DOMAIN E]
    BY <1>2
  <1> HIDE DEF f
  <1>23. LoadsAll(f, g, E)
    BY <1>20, <1>21 DEF LoadsAll, n
  <1> QED
    BY <1>1, <1>22, <1>23 DEF n

NamesTo(E, k) == {E[i].crc : i \in 1 .. k}

(* The values the entries have.                                            *)
IsContent(E, C) ==
    /\ C \in Contents /\ DOMAIN C = NamesTo(E, Len(E))
    /\ \A k \in 1 .. Len(E) : C[E[k].crc] = E[k].data[1]

LoadedTo(s, g, E, C, k) ==
    /\ Housed(s) /\ s.cache = cache
    /\ Cardinality(FreeBlocks(s)) >= Len(E) - k
    /\ \A h \in AllGroups : h # g => s.map[h] = map[h] /\ Held(s, h) = Held(Now, h)
    /\ DOMAIN Held(s, g) = DOMAIN Held(Now, g) \union NamesTo(E, k)
    /\ \A m \in DOMAIN Held(s, g) :
          Held(s, g)[m] = IF m \in NamesTo(E, k) THEN C[m] ELSE Held(Now, g)[m]

LEMMA OneMoreName ==
    ASSUME NEW E, NEW k \in Nat
    PROVE  NamesTo(E, k + 1) = NamesTo(E, k) \union {E[k + 1].crc} /\ NamesTo(E, 0) = {}
  <1>1. 1 .. k + 1 = (1 .. k) \union {k + 1} /\ 1 .. 0 = {}
    OBVIOUS
  <1> QED
    BY <1>1 DEF NamesTo

LEMMA LoadsOneMore ==
    ASSUME NEW g \in AllGroups, NEW E \in Seq(EntryRecords), NEW C, IsContent(E, C),
           NEW k \in Nat, k + 1 <= Len(E), NEW s, NEW t,
           LoadedTo(s, g, E, C, k), Loads(s, t, g, E[k + 1])
    PROVE  LoadedTo(t, g, E, C, k + 1)
  <1> DEFINE e == E[k + 1]
  <1>1. /\ Housed(s) /\ s.cache = cache
        /\ Cardinality(FreeBlocks(s)) >= Len(E) - k
        /\ \A h \in AllGroups : h # g => s.map[h] = map[h] /\ Held(s, h) = Held(Now, h)
        /\ DOMAIN Held(s, g) = DOMAIN Held(Now, g) \union NamesTo(E, k)
        /\ \A m \in DOMAIN Held(s, g) :
              Held(s, g)[m] = IF m \in NamesTo(E, k) THEN C[m] ELSE Held(Now, g)[m]
    BY DEF LoadedTo
  <1>2. /\ Housed(t) /\ t.cache = s.cache
        /\ Cardinality(FreeBlocks(t)) >= Cardinality(FreeBlocks(s)) - 1
        /\ \A h \in AllGroups : h # g => t.map[h] = s.map[h] /\ Held(t, h) = Held(s, h)
        /\ \/ Held(t, g) = With(Held(s, g), e.crc, e.data[1])
           \/ FreeBlocks(s) = {} /\ Held(t, g) = Held(s, g)
    BY DEF Loads, Spends
  <1>3. k + 1 \in 1 .. Len(E) /\ Len(E) \in Nat
    OBVIOUS
  <1>4. Cardinality(FreeBlocks(s)) \in Nat /\ Cardinality(FreeBlocks(t)) \in Nat
    BY FreeFacts
  <1>5. FreeBlocks(s) # {}
    <2>1. Cardinality(FreeBlocks(s)) >= 1
      BY <1>1, <1>3, <1>4
    <2> QED
      BY <2>1, FreeFacts
  <1>6. Cardinality(FreeBlocks(t)) >= Len(E) - (k + 1)
    BY <1>1, <1>2, <1>3, <1>4
  <1>7. Held(t, g) = With(Held(s, g), e.crc, e.data[1])
    BY <1>2, <1>5
  <1>8. C[e.crc] = e.data[1]
    BY <1>3 DEF IsContent
  <1>9. NamesTo(E, k + 1) = NamesTo(E, k) \union {e.crc}
    BY OneMoreName
  <1> HIDE DEF e
  <1>10. DOMAIN Held(t, g) = DOMAIN Held(Now, g) \union NamesTo(E, k + 1)
    BY <1>1, <1>7, <1>9 DEF With
  <1>11. \A m \in DOMAIN Held(t, g) :
            Held(t, g)[m] = IF m \in NamesTo(E, k + 1) THEN C[m] ELSE Held(Now, g)[m]
    <2> SUFFICES ASSUME NEW m \in DOMAIN Held(t, g)
                 PROVE  Held(t, g)[m] = IF m \in NamesTo(E, k + 1) THEN C[m]
                                        ELSE Held(Now, g)[m]
      OBVIOUS
    <2>1. CASE m = e.crc
      BY <2>1, <1>7, <1>8, <1>9 DEF With
    <2>2. CASE m # e.crc
      <3>1. m \in DOMAIN Held(s, g) /\ Held(t, g)[m] = Held(s, g)[m]
        BY <2>2, <1>7 DEF With
      <3>2. m \in NamesTo(E, k + 1) <=> m \in NamesTo(E, k)
        BY <2>2, <1>9
      <3> QED
        BY <3>1, <3>2, <1>1
    <2> QED
      BY <2>1, <2>2
  <1>12. \A h \in AllGroups : h # g => t.map[h] = map[h] /\ Held(t, h) = Held(Now, h)
    BY <1>1, <1>2
  <1> QED
    BY <1>1, <1>2, <1>6, <1>10, <1>11, <1>12 DEF LoadedTo

LEMMA LoadedIs ==
    ASSUME Housed(Now), NEW g \in AllGroups, NEW E \in Seq(EntryRecords), NEW C,
           IsContent(E, C), NEW f, LoadsAll(f, g, E), Cardinality(FreeBlocks(Now)) >= Len(E)
    PROVE  LoadedTo(f[Len(E)], g, E, C, Len(E))
  <1> DEFINE T == {k \in Nat : k <= Len(E) => LoadedTo(f[k], g, E, C, k)}
  <1>1. f[0] = Now /\ \A k \in 1 .. Len(E) : Loads(f[k - 1], f[k], g, E[k])
    BY DEF LoadsAll
  <1>2. 0 \in T
    <2>1. NamesTo(E, 0) = {}
      BY OneMoreName
    <2>2. Now.cache = cache /\ Now.map = map
      BY DEF Now
    <2>3. \A m \in DOMAIN Held(Now, g) :
              Held(Now, g)[m] = IF m \in NamesTo(E, 0) THEN C[m] ELSE Held(Now, g)[m]
      BY <2>1
    <2>4. DOMAIN Held(Now, g) = DOMAIN Held(Now, g) \union NamesTo(E, 0)
      BY <2>1
    <2>5. Cardinality(FreeBlocks(Now)) >= Len(E) - 0
      OBVIOUS
    <2>6. LoadedTo(Now, g, E, C, 0)
      BY <2>2, <2>3, <2>4, <2>5 DEF LoadedTo
    <2> QED
      BY <2>6, <1>1
  <1>3. ASSUME NEW k \in Nat, k \in T PROVE k + 1 \in T
    <2> SUFFICES ASSUME k + 1 <= Len(E) PROVE LoadedTo(f[k + 1], g, E, C, k + 1)
      OBVIOUS
    <2>1. k + 1 \in 1 .. Len(E) /\ (k + 1) - 1 = k /\ k <= Len(E)
      OBVIOUS
    <2>2. Loads(f[k], f[k + 1], g, E[k + 1])
      BY <1>1, <2>1
    <2>3. LoadedTo(f[k], g, E, C, k)
      BY <2>1, <1>3
    <2> QED
      BY <2>2, <2>3, LoadsOneMore
  <1>4. Len(E) \in T
    <2>1. Len(E) \in Nat
      OBVIOUS
    <2> HIDE DEF T
    <2> QED
      BY <2>1, <1>2, <1>3, Inductive
  <1> QED
    BY <1>4

-----------------------------------------------------------------------------
(* Files                                                                   *)

(* Entry e at idx of file f.                                               *)
SpelledAt(f, idx, e) ==
    /\ idx + 2 + Len(e.data) <= Len(f)
    /\ f[idx + 1] = Len(e.data) /\ f[idx + 2] = e.crc
    /\ \A j \in 1 .. Len(e.data) : f[idx + 2 + j] = e.data[j]

(* The entries of E one after the other, at the places at[0], at[1], ...   *)
SpelledBy(at, f, E) ==
    /\ at \in [0 .. Len(E) -> Nat]
    /\ \A k \in 1 .. Len(E) :
          SpelledAt(f, at[k - 1], E[k]) /\ at[k] = at[k - 1] + 2 + Len(E[k].data)

(* Between from and to, file f has the entries of E.                       *)
Spells(f, from, to, E) ==
    \E at : SpelledBy(at, f, E) /\ at[0] = from /\ at[Len(E)] = to

LEMMA EntryFacts ==
    ASSUME NEW E \in Seq(EntryRecords)
    PROVE  /\ Len(E) \in Nat /\ E = [k \in 1 .. Len(E) |-> E[k]]
           /\ \A k \in 1 .. Len(E) :
                 /\ E[k] = [crc |-> E[k].crc, data |-> E[k].data]
                 /\ E[k].crc \in OptionNames
                 /\ E[k].data \in Seq(Things) /\ Len(E[k].data) \in Nat /\ Len(E[k].data) >= 1
  <1>1. Len(E) \in Nat /\ E = [k \in 1 .. Len(E) |-> E[k]]
        /\ \A k \in 1 .. Len(E) : E[k] \in EntryRecords
    OBVIOUS
  <1> QED
    BY <1>1 DEF EntryRecords

(* Later entries are further on.                                           *)
LEMMA PlacesGrow ==
    ASSUME NEW f, NEW E \in Seq(EntryRecords), NEW at, SpelledBy(at, f, E),
           NEW to, to = at[Len(E)]
    PROVE  /\ to \in Nat /\ Len(E) <= to
           /\ \A k \in 0 .. Len(E) : k < Len(E) => at[k] < to
  <1> DEFINE n == Len(E)
  <1>1. n \in Nat /\ at \in [0 .. n -> Nat]
    BY EntryFacts DEF SpelledBy
  <1>2. \A k \in 1 .. n : at[k] > at[k - 1]
    <2> SUFFICES ASSUME NEW k \in 1 .. n PROVE at[k] > at[k - 1]
      OBVIOUS
    <2>1. at[k] = at[k - 1] + 2 + Len(E[k].data) /\ Len(E[k].data) \in Nat
      BY EntryFacts DEF SpelledBy
    <2>2. at[k - 1] \in Nat
      BY <1>1
    <2> QED
      BY <2>1, <2>2
  <1> HIDE DEF n
  <1> DEFINE U == {k \in Nat : k <= n => k <= at[k]}
  <1>3. 0 \in U
    BY <1>1
  <1>4. ASSUME NEW k \in Nat, k \in U PROVE k + 1 \in U
    <2> SUFFICES ASSUME k + 1 <= n PROVE k + 1 <= at[k + 1]
      OBVIOUS
    <2>1. k <= at[k] /\ at[k] \in Nat /\ at[k + 1] \in Nat
      BY <1>1, <1>4
    <2>2. at[k + 1] > at[k]
      <3>1. k + 1 \in 1 .. n /\ (k + 1) - 1 = k
        BY <1>1
      <3> QED
        BY <3>1, <1>2
    <2> QED
      BY <2>1, <2>2
  <1>5. n <= to /\ to \in Nat
    <2>1. n \in U
      <3> HIDE DEF U
      <3> QED
        BY <1>1, <1>3, <1>4, Inductive
    <2> QED
      BY <2>1, <1>1 DEF n
  <1> DEFINE V == {d \in Nat : d + 1 <= n => at[n - (d + 1)] < to}
  <1>6. 0 \in V
    <2> SUFFICES ASSUME 1 <= n PROVE at[n - 1] < to
      OBVIOUS
    <2>1. n \in 1 .. n
      BY <1>1
    <2> QED
      BY <2>1, <1>2 DEF n
  <1>7. ASSUME NEW d \in Nat, d \in V PROVE d + 1 \in V
    <2> SUFFICES ASSUME d + 2 <= n PROVE at[n - (d + 2)] < to
      OBVIOUS
    <2>1. at[n - (d + 1)] < to
      BY <1>1, <1>7
    <2>2. n - (d + 1) \in 1 .. n /\ (n - (d + 1)) - 1 = n - (d + 2) /\ n - (d + 2) \in 0 .. n
      BY <1>1
    <2>3. at[n - (d + 1)] > at[n - (d + 2)]
      BY <2>2, <1>2
    <2>4. at[n - (d + 1)] \in Nat /\ at[n - (d + 2)] \in Nat
      BY <2>2, <1>1
    <2> QED
      BY <2>1, <2>3, <2>4, <1>5
  <1>8. ASSUME NEW k \in 0 .. n, k < n PROVE at[k] < to
    <2> DEFINE d == n - k - 1
    <2>1. d \in Nat /\ n - (d + 1) = k /\ d + 1 <= n
      BY <1>1, <1>8
    <2>2. d \in V
      <3> HIDE DEF V, d
      <3> QED
        BY <2>1, <1>6, <1>7, Inductive
    <2> HIDE DEF d
    <2> QED
      BY <2>1, <2>2
  <1> QED
    BY <1>5, <1>8 DEF n

(* d is the n elements of f after m.                                       *)
Within(T, f, m, n) == \A j \in 1 .. n : f[m + j] \in T
IsSlice(T, d, f, m, n) ==
    d \in Seq(T) /\ Len(d) = n /\ \A j \in 1 .. n : d[j] = f[m + j]

LEMMA Slice ==
    ASSUME NEW T, NEW f, NEW m \in Nat, NEW n \in Nat, Within(T, f, m, n)
    PROVE  IsSlice(T, SubSeq(f, m + 1, m + n), f, m, n)
  <1> DEFINE lo == m + 1
             hi == m + n
             d == SubSeq(f, lo, hi)
  <1>1. lo \in Int /\ hi \in Int
    OBVIOUS
  <1>2. ASSUME NEW k \in lo .. hi PROVE f[k] \in T
    <2>1. k - m \in 1 .. n /\ m + (k - m) = k
      OBVIOUS
    <2> QED
      BY <2>1 DEF Within
  <1>3. hi - lo + 1 = n /\ (lo <= hi <=> n # 0) /\ \A j \in 1 .. n : lo + j - 1 = m + j
    OBVIOUS
  <1> HIDE DEF lo, hi
  <1>4. /\ d \in Seq(T) /\ Len(d) = IF lo <= hi THEN hi - lo + 1 ELSE 0
        /\ \A j \in 1 .. hi - lo + 1 : d[j] = f[lo + j - 1]
    BY <1>1, <1>2, SubSeqProperties
  <1> HIDE DEF d
  <1>5. d \in Seq(T) /\ Len(d) = n /\ \A j \in 1 .. n : d[j] = f[m + j]
    BY <1>3, <1>4
  <1> QED
    BY <1>5 DEF d, lo, hi, IsSlice

LEMMA EntryIsRead ==
    ASSUME NEW idx \in Nat, NEW e \in EntryRecords, SpelledAt(buf, idx, e), buf \in Seq(Things)
    PROVE  EntryAt(idx) = e
  <1>1. e = [crc |-> e.crc, data |-> e.data] /\ e.data \in Seq(Things) /\ Len(e.data) \in Nat
    BY DEF EntryRecords
  <1>2. /\ buf[idx + 1] = Len(e.data) /\ buf[idx + 2] = e.crc
        /\ \A j \in 1 .. Len(e.data) : buf[idx + 2 + j] = e.data[j]
    BY DEF SpelledAt
  <1> DEFINE n == Len(e.data)
             d == SubSeq(buf, idx + 3, idx + 2 + n)
  <1>3. (idx + 2) + 1 = idx + 3 /\ idx + 2 \in Nat
    OBVIOUS
  <1>4. d = e.data
    <2>1. \A j \in 1 .. n : buf[(idx + 2) + j] \in Things
      BY <1>1, <1>2
    <2> HIDE DEF n
    <2>2. /\ SubSeq(buf, (idx + 2) + 1, (idx + 2) + n) \in Seq(Things)
          /\ Len(SubSeq(buf, (idx + 2) + 1, (idx + 2) + n)) = n
          /\ \A j \in 1 .. n : SubSeq(buf, (idx + 2) + 1, (idx + 2) + n)[j] = buf[(idx + 2) + j]
      <3> DEFINE m == idx + 2
      <3>1. n \in Nat /\ m \in Nat /\ Within(Things, buf, m, n)
        BY <1>1, <1>3, <2>1 DEF n, Within
      <3> HIDE DEF m
      <3>2. IsSlice(Things, SubSeq(buf, m + 1, m + n), buf, m, n)
        BY <3>1, Slice
      <3> QED
        BY <3>2 DEF m, IsSlice
    <2>3. d \in Seq(Things) /\ Len(d) = n /\ \A j \in 1 .. n : d[j] = buf[idx + 2 + j]
      BY <2>2, <1>3
    <2> HIDE DEF d
    <2>4. Len(d) = Len(e.data) /\ \A j \in 1 .. Len(d) : d[j] = e.data[j]
      BY <2>3, <1>2 DEF n
    <2> QED
      BY <2>3, <2>4, <1>1, SeqEqual
  <1>5. EntryAt(idx) = [crc |-> e.crc, data |-> d]
    BY <1>2 DEF EntryAt
  <1> QED
    BY <1>1, <1>4, <1>5

(* Initialize reads the entries that the file has.                         *)
LEMMA EntriesAre ==
    ASSUME buf \in Seq(Things), NEW start \in Nat, NEW E \in Seq(EntryRecords),
           Spells(buf, start + 2, buf[start + 2], E)
    PROVE  Entries(start) = E
  <1> DEFINE n == Len(E)
             bsz == buf[start + 2]
             first == start + 2
  <1>1. PICK at : SpelledBy(at, buf, E) /\ at[0] = first /\ at[n] = bsz
    BY DEF Spells
  <1>2. n \in Nat /\ at \in [0 .. n -> Nat]
    BY <1>1, EntryFacts DEF SpelledBy
  <1>3. bsz \in Nat /\ n <= bsz /\ \A k \in 0 .. n : k < n => at[k] < bsz
    BY <1>1, PlacesGrow
  <1>4. ASSUME NEW k \in 0 .. n, k < n
        PROVE  at[k + 1] = at[k] + 2 + buf[at[k] + 1] /\ k + 1 \in 0 .. n
    <2>1. k + 1 \in 1 .. n /\ (k + 1) - 1 = k
      BY <1>2, <1>4
    <2>2. SpelledAt(buf, at[k], E[k + 1]) /\ at[k + 1] = at[k] + 2 + Len(E[k + 1].data)
      BY <1>1, <2>1 DEF SpelledBy
    <2> QED
      BY <2>1, <2>2 DEF SpelledAt
  <1> HIDE DEF n, bsz, first
  <1> DEFINE S == {at[k] : k \in 0 .. n}
             step == [i \in S |-> IF i >= bsz THEN i ELSE i + 2 + buf[i + 1]]
  <1>5. first \in S /\ \A i \in S : i \in Nat
    BY <1>1, <1>2
  <1>6. step \in [S -> S]
    <2> SUFFICES ASSUME NEW i \in S PROVE step[i] \in S
      OBVIOUS
    <2>1. PICK k \in 0 .. n : i = at[k]
      OBVIOUS
    <2>2. CASE i >= bsz
      BY <2>2
    <2>3. CASE ~(i >= bsz)
      <3>1. k < n
        BY <2>1, <2>3, <1>1, <1>2, <1>3
      <3>2. step[i] = at[k + 1] /\ k + 1 \in 0 .. n
        BY <3>1, <2>1, <2>3, <1>4
      <3> QED
        BY <3>2
    <2> QED
      BY <2>2, <2>3
  <1> HIDE DEF S
  <1>7. PICK h \in [0 .. bsz -> S] : Follows(h, first, step, bsz)
    <2> HIDE DEF step
    <2> QED
      BY <1>3, <1>5, <1>6, StepByStep
  <1>8. \A k \in 0 .. bsz :
            h[k] = IF k = 0 THEN first
                   ELSE IF h[k - 1] >= bsz THEN h[k - 1] ELSE h[k - 1] + 2 + buf[h[k - 1] + 1]
    <2> SUFFICES ASSUME NEW k \in 0 .. bsz
                 PROVE  h[k] = IF k = 0 THEN first
                               ELSE IF h[k - 1] >= bsz THEN h[k - 1]
                                    ELSE h[k - 1] + 2 + buf[h[k - 1] + 1]
      OBVIOUS
    <2>1. h[k] = IF k = 0 THEN first ELSE step[h[k - 1]]
      BY <1>7 DEF Follows
    <2>2. k # 0 => h[k - 1] \in S
      <3>1. k # 0 => k - 1 \in 0 .. bsz
        BY <1>3
      <3> QED
        BY <3>1, <1>7
    <2> QED
      BY <2>1, <2>2
  <1> HIDE DEF step
  <1> DEFINE idx == AfterRounds(first, bsz)
  <1>9. idx = [k \in 0 .. bsz |->
                 IF k = 0 THEN first
                 ELSE IF idx[k - 1] >= bsz THEN idx[k - 1]
                      ELSE idx[k - 1] + 2 + buf[idx[k - 1] + 1]]
    <2>1. h = [k \in 0 .. bsz |->
                 IF k = 0 THEN first
                 ELSE IF h[k - 1] >= bsz THEN h[k - 1]
                      ELSE h[k - 1] + 2 + buf[h[k - 1] + 1]]
      BY <1>7, <1>8
    <2> DEFINE jdx[k \in 0 .. bsz] ==
                 IF k = 0 THEN first
                 ELSE IF jdx[k - 1] >= bsz THEN jdx[k - 1]
                      ELSE jdx[k - 1] + 2 + buf[jdx[k - 1] + 1]
    <2>2. jdx = [k \in 0 .. bsz |->
                 IF k = 0 THEN first
                 ELSE IF jdx[k - 1] >= bsz THEN jdx[k - 1]
                      ELSE jdx[k - 1] + 2 + buf[jdx[k - 1] + 1]]
      BY <2>1
    <2>3. idx = jdx
      BY DEF AfterRounds
    <2> HIDE DEF jdx, idx
    <2> QED
      BY <2>2, <2>3
  <1> HIDE DEF idx
  <1>10. idx[0] = first /\ \A k \in 1 .. bsz :
            idx[k] = IF idx[k - 1] >= bsz THEN idx[k - 1] ELSE idx[k - 1] + 2 + buf[idx[k - 1] + 1]
    BY <1>3, <1>9
  <1> DEFINE T == {k \in Nat : k <= n => idx[k] = at[k]}
  <1>11. \A k \in 0 .. n : idx[k] = at[k]
    <2>1. 0 \in T
      BY <1>1, <1>10
    <2>2. ASSUME NEW k \in Nat, k \in T PROVE k + 1 \in T
      <3> SUFFICES ASSUME k + 1 <= n PROVE idx[k + 1] = at[k + 1]
        OBVIOUS
      <3>1. k \in 0 .. n /\ k < n /\ k + 1 \in 1 .. bsz /\ (k + 1) - 1 = k
        BY <1>2, <1>3
      <3>2. idx[k] = at[k] /\ at[k] < bsz /\ at[k] \in Nat
        BY <3>1, <2>2, <1>2, <1>3
      <3>3. idx[k + 1] = IF idx[k] >= bsz THEN idx[k] ELSE idx[k] + 2 + buf[idx[k] + 1]
        BY <3>1, <1>10
      <3> QED
        BY <3>1, <3>2, <3>3, <1>3, <1>4
    <2>3. \A k \in Nat : k \in T
      <3> HIDE DEF T
      <3> QED
        BY <2>1, <2>2, Inductive
    <2> QED
      BY <2>3, <1>2
  <1> DEFINE R == {k \in 0 .. bsz : idx[k] >= bsz}
  <1>12. n \in R /\ \A k \in R : n <= k
    <2>1. n \in 0 .. bsz /\ n \in 0 .. n
      BY <1>2, <1>3
    <2>2. n \in R
      BY <2>1, <1>1, <1>3, <1>11 DEF n
    <2>3. ASSUME NEW k \in R PROVE n <= k
      <3> SUFFICES ASSUME k < n PROVE FALSE
        BY <1>2, <1>3
      <3>1. k \in 0 .. n /\ idx[k] = at[k] /\ at[k] < bsz /\ idx[k] >= bsz /\ at[k] \in Nat
        BY <1>2, <1>3, <1>11
      <3> QED
        BY <3>1, <1>3
    <2> QED
      BY <2>2, <2>3
  <1> HIDE DEF R
  <1>13. Min(R) = n
    <2>1. R \subseteq Nat
      BY <1>3 DEF R
    <2>2. Min(R) \in R /\ \A k \in R : Min(R) <= k
      BY <1>12 DEF Min
    <2>3. Min(R) <= n /\ n <= Min(R) /\ Min(R) \in Nat
      BY <2>1, <2>2, <1>12
    <2> QED
      BY <2>3, <1>2
  <1>14. \A k \in 1 .. n : EntryAt(idx[k - 1]) = E[k]
    <2> SUFFICES ASSUME NEW k \in 1 .. n PROVE EntryAt(idx[k - 1]) = E[k]
      OBVIOUS
    <2>1. k - 1 \in 0 .. n /\ idx[k - 1] = at[k - 1] /\ at[k - 1] \in Nat
      BY <1>2, <1>11
    <2>2. SpelledAt(buf, at[k - 1], E[k]) /\ E[k] \in EntryRecords
      BY <1>1 DEF SpelledBy, n
    <2> QED
      BY <2>1, <2>2, EntryIsRead
  <1>15. Entries(start) = [k \in 1 .. Min(R) |-> EntryAt(idx[k - 1])]
    BY DEF Entries, R, idx, bsz, first
  <1>16. E = [k \in 1 .. n |-> E[k]]
    BY EntryFacts DEF n
  <1> QED
    BY <1>13, <1>14, <1>15, <1>16

(* d is the sequences of seqs one after the other: they end at at[1], ...  *)
JoinedBy(at, d, seqs) ==
    /\ at \in [0 .. Len(seqs) -> Nat] /\ at[0] = 0 /\ at[Len(seqs)] = Len(d)
    /\ \A k \in 1 .. Len(seqs) :
          /\ at[k] = at[k - 1] + Len(seqs[k]) /\ at[k] <= Len(d)
          /\ \A j \in 1 .. Len(seqs[k]) : d[at[k - 1] + j] = seqs[k][j]

IsFlat(T, d, seqs) == d \in Seq(T) /\ \E at : JoinedBy(at, d, seqs)

(* f is longer and longer first parts of all sequences together.           *)
Joins(T, f, seqs) ==
    /\ f \in [0 .. Len(seqs) -> Seq(T)] /\ f[0] = <<>>
    /\ \A k \in 1 .. Len(seqs) : f[k] = f[k - 1] \o seqs[k]

LEMMA JoinsExist ==
    ASSUME NEW T, NEW seqs \in Seq(Seq(T)), Len(seqs) # 0
    PROVE  \E f : Joins(T, f, seqs) /\ FlattenSeq(seqs) = f[Len(seqs)]
  <1> DEFINE n == Len(seqs)
             step == [k \in 1 .. n |-> [d \in Seq(T) |-> d \o seqs[k]]]
             flatten[i \in 1 .. n] == IF i = 1 THEN seqs[i] ELSE flatten[i - 1] \o seqs[i]
  <1>1. n \in Nat /\ n >= 1 /\ \A k \in 1 .. n : seqs[k] \in Seq(T)
    OBVIOUS
  <1>2. FlattenSeq(seqs) = flatten[n]
    BY DEF FlattenSeq
  <1> HIDE DEF n
  <1>3. step \in [1 .. n -> [Seq(T) -> Seq(T)]]
    BY <1>1, Joined
  <1>4. <<>> \in Seq(T)
    OBVIOUS
  <1>5. PICK f \in [0 .. n -> Seq(T)] : f[0] = <<>> /\ \A k \in 1 .. n : f[k] = step[k][f[k - 1]]
    <2> PICK S : S = Seq(T)
      OBVIOUS
    <2> PICK c : c = <<>>
      OBVIOUS
    <2> PICK m : m = n
      OBVIOUS
    <2>1. m \in Nat /\ c \in S /\ step \in [1 .. m -> [S -> S]]
      BY <1>1, <1>3, <1>4
    <2> HIDE DEF step
    <2> PICK p : p = step
      OBVIOUS
    <2>2. m \in Nat /\ c \in S /\ p \in [1 .. m -> [S -> S]]
      BY <2>1
    <2>3. \E f \in [0 .. m -> S] : f[0] = c /\ \A k \in 1 .. m : f[k] = p[k][f[k - 1]]
      BY ONLY <2>2, StepsByIndex
    <2> QED
      BY <2>3
  <1>6. \A k \in 1 .. n : k - 1 \in 0 .. n /\ f[k - 1] \in Seq(T)
    BY <1>1, <1>5
  <1>7. \A k \in 1 .. n : f[k] = f[k - 1] \o seqs[k]
    BY <1>5, <1>6
  <1> HIDE DEF step
  <1>8. f[1] = seqs[1]
    <2>1. 1 \in 1 .. n /\ 1 - 1 = 0 /\ seqs[1] \in Seq(T)
      BY <1>1
    <2>2. f[1] = <<>> \o seqs[1]
      BY <2>1, <1>5, <1>7
    <2> QED
      BY <2>1, <2>2, ConcatEmptySeq
  <1> DEFINE h == [i \in 1 .. n |-> f[i]]
  <1>9. h = [i \in 1 .. n |-> IF i = 1 THEN seqs[i] ELSE h[i - 1] \o seqs[i]]
    <2> SUFFICES ASSUME NEW i \in 1 .. n
                 PROVE  f[i] = IF i = 1 THEN seqs[i] ELSE h[i - 1] \o seqs[i]
      OBVIOUS
    <2>1. CASE i = 1
      BY <2>1, <1>8
    <2>2. CASE i # 1
      <3>1. i - 1 \in 1 .. n
        BY <2>2, <1>1
      <3>2. h[i - 1] = f[i - 1]
        BY <3>1
      <3> HIDE DEF h
      <3> QED
        BY <2>2, <3>2, <1>7
    <2> QED
      BY <2>1, <2>2
  <1> HIDE DEF h
  <1>10. flatten = [i \in 1 .. n |-> IF i = 1 THEN seqs[i] ELSE flatten[i - 1] \o seqs[i]]
    BY <1>9
  <1> HIDE DEF flatten
  <1> DEFINE U == {k \in Nat : k + 1 <= n => flatten[k + 1] = f[k + 1]}
  <1>11. 0 \in U
    <2>1. 1 \in 1 .. n
      BY <1>1
    <2> QED
      BY <2>1, <1>8, <1>10
  <1>12. ASSUME NEW k \in Nat, k \in U PROVE k + 1 \in U
    <2> SUFFICES ASSUME k + 2 <= n PROVE flatten[k + 2] = f[k + 2]
      OBVIOUS
    <2>1. k + 2 \in 1 .. n /\ (k + 2) - 1 = k + 1 /\ k + 2 # 1 /\ k + 1 <= n
      BY <1>1
    <2>2. flatten[k + 2] = flatten[k + 1] \o seqs[k + 2]
      BY <2>1, <1>10
    <2> QED
      BY <2>1, <2>2, <1>7, <1>12
  <1>13. flatten[n] = f[n]
    <2>1. n - 1 \in Nat /\ (n - 1) + 1 = n
      BY <1>1
    <2>2. n - 1 \in U
      <3> HIDE DEF U
      <3> QED
        BY <2>1, <1>11, <1>12, Inductive
    <2> QED
      BY <2>1, <2>2
  <1>14. Joins(T, f, seqs)
    BY <1>5, <1>7 DEF Joins, n
  <1> QED
    BY <1>2, <1>13, <1>14 DEF n

(* The sequences up to the k-th are where at says, in d.                   *)
PartsTo(at, d, seqs, k) ==
    \A i \in 1 .. k :
        /\ at[i] <= Len(d)
        /\ \A j \in 1 .. Len(seqs[i]) : d[at[i - 1] + j] = seqs[i][j]

(* d is a and c.                                                           *)
IsJoin(d, a, c) ==
    /\ Len(a) \in Nat /\ Len(c) \in Nat /\ Len(d) = Len(a) + Len(c)
    /\ \A j \in 1 .. Len(a) : d[j] = a[j]
    /\ \A j \in 1 .. Len(c) : d[Len(a) + j] = c[j]

LEMMA JoinIs ==
    ASSUME NEW T, NEW a \in Seq(T), NEW c \in Seq(T)
    PROVE  IsJoin(a \o c, a, c)
  BY Joined DEF IsJoin

(* One sequence more.                                                      *)
LEMMA PartsGrow ==
    ASSUME NEW at, NEW a, NEW d, NEW seqs, NEW k \in Nat, PartsTo(at, a, seqs, k),
           \A i \in 0 .. k : at[i] \in Nat,
           \A i \in 1 .. k : at[i] = at[i - 1] + Len(seqs[i]) /\ Len(seqs[i]) \in Nat,
           IsJoin(d, a, seqs[k + 1]), at[k] = Len(a), at[k + 1] = Len(d)
    PROVE  PartsTo(at, d, seqs, k + 1)
  <1>1. /\ Len(a) \in Nat /\ Len(seqs[k + 1]) \in Nat /\ Len(d) = Len(a) + Len(seqs[k + 1])
        /\ \A j \in 1 .. Len(a) : d[j] = a[j]
        /\ \A j \in 1 .. Len(seqs[k + 1]) : d[Len(a) + j] = seqs[k + 1][j]
    BY DEF IsJoin
  <1> SUFFICES ASSUME NEW i \in 1 .. k + 1
               PROVE  /\ at[i] <= Len(d)
                      /\ \A j \in 1 .. Len(seqs[i]) : d[at[i - 1] + j] = seqs[i][j]
    BY DEF PartsTo
  <1>2. CASE i = k + 1
    <2>1. i - 1 = k /\ at[i] = Len(d) /\ at[i - 1] = Len(a) /\ seqs[i] = seqs[k + 1]
      BY ONLY <1>2, k \in Nat, at[k] = Len(a), at[k + 1] = Len(d)
    <2>2. at[i] <= Len(d)
      BY ONLY <2>1, <1>1
    <2>3. \A j \in 1 .. Len(seqs[i]) : d[at[i - 1] + j] = seqs[i][j]
      BY ONLY <2>1, <1>1
    <2> QED
      BY <2>2, <2>3
  <1>3. CASE i # k + 1
    <2>1. i \in 1 .. k /\ i - 1 \in 0 .. k /\ i \in 0 .. k
      BY <1>3
    <2>2. /\ at[i] <= Len(a)
          /\ \A j \in 1 .. Len(seqs[i]) : a[at[i - 1] + j] = seqs[i][j]
      BY <2>1 DEF PartsTo
    <2>3. /\ at[i] = at[i - 1] + Len(seqs[i]) /\ at[i - 1] \in Nat /\ at[i] \in Nat
          /\ Len(seqs[i]) \in Nat
      BY <2>1
    <2>4. \A j \in 1 .. Len(seqs[i]) : at[i - 1] + j \in 1 .. Len(a)
      BY ONLY <2>2, <2>3, <1>1
    <2>5. \A j \in 1 .. Len(seqs[i]) : d[at[i - 1] + j] = seqs[i][j]
      BY <2>2, <2>4, <1>1
    <2>6. at[i] <= Len(d)
      BY ONLY <2>2, <2>3, <1>1
    <2> QED
      BY <2>5, <2>6
  <1> QED
    BY <1>2, <1>3

LEMMA JoinsAreFlat ==
    ASSUME NEW T, NEW seqs \in Seq(Seq(T)), NEW f, Joins(T, f, seqs)
    PROVE  IsFlat(T, f[Len(seqs)], seqs)
  <1> PICK n : n = Len(seqs)
    OBVIOUS
  <1> PICK S : S = Seq(T)
    OBVIOUS
  <1>1. n \in Nat /\ \A k \in 1 .. n : seqs[k] \in S /\ Len(seqs[k]) \in Nat
    <2>1. \A k \in 1 .. n : seqs[k] \in Seq(T)
      OBVIOUS
    <2>2. \A c \in Seq(T) : Len(c) \in Nat
      OBVIOUS
    <2> QED
      BY <2>1, <2>2
  <1>2. /\ f \in [0 .. n -> S] /\ f[0] = <<>>
        /\ \A k \in 1 .. n : f[k] = f[k - 1] \o seqs[k]
    BY DEF Joins
  <1> DEFINE at == [k \in 0 .. n |-> Len(f[k])]
             U == {k \in Nat : k <= n => PartsTo(at, f[k], seqs, k)}
  <1>3. \A k \in 0 .. n : f[k] \in S /\ Len(f[k]) \in Nat /\ at[k] = Len(f[k])
    <2>1. \A c \in S : Len(c) \in Nat
      OBVIOUS
    <2>2. \A k \in 0 .. n : f[k] \in S
      BY <1>2
    <2> QED
      BY <2>1, <2>2
  <1>4. at \in [0 .. n -> Nat] /\ at[0] = 0
    <2>1. 0 \in 0 .. n
      BY <1>1
    <2>2. at \in [0 .. n -> Nat]
      BY <1>3
    <2>3. at[0] = Len(<<>>) /\ Len(<<>>) = 0
      BY <2>1, <1>2, <1>3
    <2> QED
      BY <2>2, <2>3
  <1> HIDE DEF at
  <1>5. ASSUME NEW k \in 1 .. n
        PROVE  IsJoin(f[k], f[k - 1], seqs[k]) /\ at[k] = at[k - 1] + Len(seqs[k])
    <2>1. k - 1 \in 0 .. n /\ k \in 0 .. n
      BY ONLY <1>1, k \in 1 .. n
    <2>2. f[k - 1] \in S /\ seqs[k] \in S
      BY ONLY <2>1, <1>1, <1>2, k \in 1 .. n
    <2>21. f[k] = f[k - 1] \o seqs[k]
      BY ONLY <1>2, k \in 1 .. n
    <2>3. IsJoin(f[k - 1] \o seqs[k], f[k - 1], seqs[k])
      BY <2>2, JoinIs
    <2>4. IsJoin(f[k], f[k - 1], seqs[k])
      BY <2>21, <2>3
    <2>5. at[k] = Len(f[k]) /\ at[k - 1] = Len(f[k - 1])
      BY <2>1, <1>3
    <2>6. Len(f[k]) = Len(f[k - 1]) + Len(seqs[k])
      BY <2>4 DEF IsJoin
    <2> QED
      BY <2>4, <2>5, <2>6
  <1>6. 0 \in U
    <2>1. 1 .. 0 = {}
      OBVIOUS
    <2> QED
      BY <2>1 DEF PartsTo
  <1>7. ASSUME NEW k \in Nat, k \in U PROVE k + 1 \in U
    <2> SUFFICES ASSUME k + 1 <= n PROVE PartsTo(at, f[k + 1], seqs, k + 1)
      OBVIOUS
    <2>1. /\ k + 1 \in 1 .. n /\ (k + 1) - 1 = k /\ k \in 0 .. n /\ k <= n /\ k + 1 \in 0 .. n
          /\ \A i \in 0 .. k : i \in 0 .. n
          /\ \A i \in 1 .. k : i \in 1 .. n
      BY ONLY <1>1, k \in Nat, k + 1 <= n
    <2>2. PartsTo(at, f[k], seqs, k)
      BY <2>1, <1>7
    <2>3. \A i \in 0 .. k : at[i] \in Nat
      BY <2>1, <1>4
    <2>4. \A i \in 1 .. k : at[i] = at[i - 1] + Len(seqs[i]) /\ Len(seqs[i]) \in Nat
      BY <2>1, <1>1, <1>5
    <2>5. IsJoin(f[k + 1], f[k], seqs[k + 1]) /\ at[k] = Len(f[k]) /\ at[k + 1] = Len(f[k + 1])
      BY <2>1, <1>3, <1>5
    <2> HIDE DEF U
    <2> QED
      BY <2>2, <2>3, <2>4, <2>5, PartsGrow
  <1>8. PartsTo(at, f[n], seqs, n)
    <2>1. n \in U
      <3> HIDE DEF U
      <3> QED
        BY <1>1, <1>6, <1>7, Inductive
    <2> QED
      BY <2>1, <1>1
  <1>9. n \in 0 .. n
    BY <1>1
  <1>10. JoinedBy(at, f[n], seqs)
    BY <1>3, <1>4, <1>5, <1>8, <1>9 DEF JoinedBy, PartsTo
  <1>11. f[n] \in Seq(T)
    BY <1>3, <1>9
  <1> QED
    BY <1>10, <1>11 DEF IsFlat

LEMMA FlattenIs ==
    ASSUME NEW T, NEW seqs \in Seq(Seq(T))
    PROVE  IsFlat(T, FlattenSeq(seqs), seqs)
  <1>1. CASE Len(seqs) = 0
    <2>1. FlattenSeq(seqs) = seqs /\ seqs = <<>> /\ <<>> \in Seq(T) /\ Len(<<>>) = 0
      BY <1>1 DEF FlattenSeq
    <2> DEFINE at == [k \in 0 .. 0 |-> 0]
    <2>2. at \in [0 .. 0 -> Nat] /\ at[0] = 0 /\ 1 .. 0 = {}
      OBVIOUS
    <2> HIDE DEF at
    <2>3. JoinedBy(at, <<>>, <<>>)
      BY <2>1, <2>2 DEF JoinedBy
    <2> QED
      BY <2>1, <2>3 DEF IsFlat
  <1>2. CASE Len(seqs) # 0
    <2>1. PICK f : Joins(T, f, seqs) /\ FlattenSeq(seqs) = f[Len(seqs)]
      BY <1>2, JoinsExist
    <2>2. IsFlat(T, f[Len(seqs)], seqs)
      BY <2>1, JoinsAreFlat
    <2> QED
      BY <2>1, <2>2
  <1> QED
    BY <1>1, <1>2

(* The bytes of an entry.                                                  *)
Written(e) == <<Len(e.data), e.crc>> \o e.data

LEMMA WrittenIs ==
    ASSUME NEW e \in EntryRecords
    PROVE  /\ Written(e) \in Seq(Things) /\ Len(Written(e)) = 2 + Len(e.data)
           /\ Len(e.data) \in Nat
           /\ Written(e)[1] = Len(e.data) /\ Written(e)[2] = e.crc
           /\ \A j \in 1 .. Len(e.data) : Written(e)[2 + j] = e.data[j]
  <1>1. e.crc \in OptionNames /\ e.data \in Seq(Things) /\ Len(e.data) \in Nat
    BY DEF EntryRecords
  <1> DEFINE a == <<Len(e.data), e.crc>>
  <1>2. a \in Seq(Things) /\ Len(a) = 2 /\ a[1] = Len(e.data) /\ a[2] = e.crc
    BY <1>1, Facts
  <1> HIDE DEF a
  <1>3. IsJoin(a \o e.data, a, e.data) /\ a \o e.data \in Seq(Things)
    BY <1>1, <1>2, JoinIs, Joined
  <1>4. Written(e) = a \o e.data
    BY DEF Written, a
  <1>5. 1 \in 1 .. Len(a) /\ 2 \in 1 .. Len(a)
    BY <1>2
  <1> QED
    BY <1>1, <1>2, <1>3, <1>4, <1>5 DEF IsJoin

(* A file with the bytes of the entries of E after from spells E there.    *)
LEMMA FlatSpells ==
    ASSUME NEW E \in Seq(EntryRecords), NEW B,
           IsFlat(Things, B, [k \in 1 .. Len(E) |-> Written(E[k])]),
           NEW f, NEW from \in Nat, Len(f) \in Nat, from + Len(B) <= Len(f),
           \A j \in 1 .. Len(B) : f[from + j] = B[j]
    PROVE  Spells(f, from, from + Len(B), E)
  <1> DEFINE W == [k \in 1 .. Len(E) |-> Written(E[k])]
  <1> PICK n : n = Len(E)
    OBVIOUS
  <1>1. PICK at : JoinedBy(at, B, W)
    BY DEF IsFlat
  <1>2. n \in Nat /\ Len(W) = n /\ Len(B) \in Nat
    <2>1. B \in Seq(Things)
      BY DEF IsFlat
    <2>2. W \in Seq(Seq(Things))
      <3>1. \A k \in 1 .. Len(E) : Written(E[k]) \in Seq(Things)
        BY WrittenIs
      <3> QED
        BY <3>1
    <2> QED
      BY <2>1
  <1>3. \A k \in 1 .. n :
            /\ Len(E[k].data) \in Nat /\ Len(W[k]) = 2 + Len(E[k].data)
            /\ W[k][1] = Len(E[k].data) /\ W[k][2] = E[k].crc
            /\ \A j \in 1 .. Len(E[k].data) : W[k][2 + j] = E[k].data[j]
    <2> SUFFICES ASSUME NEW k \in 1 .. n
                 PROVE  /\ Len(E[k].data) \in Nat /\ Len(W[k]) = 2 + Len(E[k].data)
                        /\ W[k][1] = Len(E[k].data) /\ W[k][2] = E[k].crc
                        /\ \A j \in 1 .. Len(E[k].data) : W[k][2 + j] = E[k].data[j]
      OBVIOUS
    <2>1. E[k] \in EntryRecords /\ W[k] = Written(E[k])
      OBVIOUS
    <2> HIDE DEF W
    <2> QED
      BY <2>1, WrittenIs
  <1> HIDE DEF W
  <1>4. /\ at \in [0 .. n -> Nat] /\ at[0] = 0 /\ at[n] = Len(B)
        /\ \A k \in 1 .. n :
              /\ at[k] = at[k - 1] + Len(W[k]) /\ at[k] <= Len(B)
              /\ \A j \in 1 .. Len(W[k]) : B[at[k - 1] + j] = W[k][j]
    BY <1>1, <1>2 DEF JoinedBy
  <1> DEFINE to == [k \in 0 .. n |-> from + at[k]]
  <1>5. to \in [0 .. n -> Nat] /\ to[0] = from /\ to[n] = from + Len(B)
    BY <1>2, <1>4
  <1>6. ASSUME NEW k \in 1 .. n
        PROVE  SpelledAt(f, to[k - 1], E[k]) /\ to[k] = to[k - 1] + 2 + Len(E[k].data)
    <2>1. k - 1 \in 0 .. n /\ k \in 0 .. n
      BY <1>2
    <2>2. to[k - 1] = from + at[k - 1] /\ to[k] = from + at[k] /\ at[k - 1] \in Nat /\ at[k] \in Nat
      BY <2>1, <1>4
    <2> HIDE DEF to
    <2> PICK len : len = Len(E[k].data)
      OBVIOUS
    <2> PICK h : h = Len(B)
      OBVIOUS
    <2> PICK i : i = at[k - 1]
      OBVIOUS
    <2>3. len \in Nat /\ Len(W[k]) = 2 + len /\ at[k] = i + (2 + len) /\ i + (2 + len) <= h /\ i \in Nat
      BY <1>3, <1>4, <2>2
    <2>4. \A j \in 1 .. 2 + len : B[i + j] = W[k][j]
      BY <2>3, <1>4
    <2>5. \A j \in 1 .. 2 + len : i + j \in 1 .. h /\ from + (i + j) = (from + i) + j
      BY ONLY <2>3, h \in Nat, from \in Nat, h = Len(B), <1>2
    <2>6. \A j \in 1 .. 2 + len : f[(from + i) + j] = W[k][j]
      BY <2>4, <2>5
    <2> PICK m : m = from + i
      OBVIOUS
    <2>7. m \in Nat /\ to[k - 1] = m /\ m + 2 + len <= Len(f) /\ to[k] = m + 2 + len
      <3> PICK b : b = Len(f)
        OBVIOUS
      <3>1. from + h <= b /\ b \in Nat
        OBVIOUS
      <3>2. m + 2 + len <= b
        BY ONLY <3>1, <2>3, m = from + i, from \in Nat, h = Len(B), <1>2
      <3>3. to[k] = m + 2 + len
        <4>1. to[k] = from + (i + (2 + len))
          BY <2>2, <2>3
        <4>2. from + (i + (2 + len)) = m + 2 + len
          BY ONLY <2>3, m = from + i, from \in Nat
        <4> QED
          BY ONLY <4>1, <4>2
      <3>4. m \in Nat
        BY ONLY <2>3, m = from + i, from \in Nat
      <3>5. to[k - 1] = m
        BY <2>2
      <3> QED
        BY <3>2, <3>3, <3>4, <3>5
    <2>8. f[m + 1] = W[k][1] /\ f[m + 2] = W[k][2] /\ \A j \in 1 .. len : f[m + (2 + j)] = W[k][2 + j]
      <3>1. 1 \in 1 .. 2 + len /\ 2 \in 1 .. 2 + len /\ \A j \in 1 .. len : 2 + j \in 1 .. 2 + len
        BY ONLY <2>3
      <3> QED
        BY <3>1, <2>6
    <2>9. \A j \in 1 .. len : m + 2 + j = m + (2 + j)
      BY ONLY <2>7, <2>3
    <2>10. \A j \in 1 .. len : f[m + 2 + j] = E[k].data[j]
      BY <2>8, <2>9, <1>3
    <2> QED
      BY <2>7, <2>8, <2>10, <1>3 DEF SpelledAt
  <1> HIDE DEF to
  <1>7. SpelledBy(to, f, E)
    BY <1>5, <1>6 DEF SpelledBy
  <1> QED
    BY <1>5, <1>7 DEF Spells

(* What a file spells stays when it gets longer.                           *)
LEMMA LongerSpells ==
    ASSUME NEW E \in Seq(EntryRecords), NEW f, NEW h, Len(f) \in Nat, Len(h) \in Nat,
           Len(f) <= Len(h), \A j \in 1 .. Len(f) : h[j] = f[j],
           NEW from, NEW to, Spells(f, from, to, E)
    PROVE  Spells(h, from, to, E)
  <1>1. PICK at : SpelledBy(at, f, E) /\ at[0] = from /\ at[Len(E)] = to
    BY DEF Spells
  <1>2. ASSUME NEW k \in 1 .. Len(E) PROVE SpelledAt(h, at[k - 1], E[k])
    <2> PICK idx : idx = at[k - 1]
      OBVIOUS
    <2> PICK len : len = Len(E[k].data)
      OBVIOUS
    <2>1. idx \in Nat /\ len \in Nat
      <3>1. k - 1 \in 0 .. Len(E)
        BY EntryFacts
      <3> QED
        BY <3>1, <1>1, EntryFacts DEF SpelledBy
    <2>2. /\ idx + 2 + len <= Len(f)
          /\ f[idx + 1] = len /\ f[idx + 2] = E[k].crc
          /\ \A j \in 1 .. len : f[idx + 2 + j] = E[k].data[j]
      BY <1>1 DEF SpelledBy, SpelledAt
    <2>3. /\ idx + 1 \in 1 .. Len(f) /\ idx + 2 \in 1 .. Len(f)
          /\ \A j \in 1 .. len : idx + 2 + j \in 1 .. Len(f)
          /\ idx + 2 + len <= Len(h)
      <3> PICK b : b = Len(f)
        OBVIOUS
      <3> PICK c : c = Len(h)
        OBVIOUS
      <3>1. b \in Nat /\ c \in Nat /\ b <= c /\ idx + 2 + len <= b
        BY <2>2
      <3>2. /\ idx + 1 \in 1 .. b /\ idx + 2 \in 1 .. b
            /\ \A j \in 1 .. len : idx + 2 + j \in 1 .. b
            /\ idx + 2 + len <= c
        BY ONLY <3>1, <2>1
      <3> QED
        BY <3>2
    <2> QED
      BY <2>2, <2>3 DEF SpelledAt
  <1>3. SpelledBy(at, h, E)
    BY <1>1, <1>2 DEF SpelledBy
  <1> QED
    BY <1>1, <1>3 DEF Spells

(* order has all of S.                                                     *)
Orders(order, S, n) ==
    /\ order \in [1 .. n -> S] /\ DOMAIN order = 1 .. n
    /\ \A x \in S : \E i \in 1 .. n : order[i] = x

LEMMA OrderFacts ==
    ASSUME NEW S, IsFiniteSet(S), NEW order \in SetToSeqs(S)
    PROVE  \E n \in Nat : Orders(order, S, n)
  <1> PICK n : n = Cardinality(S)
    OBVIOUS
  <1>1. n \in Nat
    BY FS_CardinalityType
  <1>2. order \in [1 .. n -> S] /\ \A i, j \in 1 .. n : i # j => order[i] # order[j]
    BY DEF SetToSeqs
  <1>3. order \in Injection(1 .. n, S)
    BY <1>2 DEF Injection, IsInjective
  <1>4. Cardinality(1 .. n) = n
    <2>1. 1 \in Int /\ n \in Int /\ (IF 1 > n THEN 0 ELSE n - 1 + 1) = n
      BY <1>1
    <2>2. Cardinality(1 .. n) = IF 1 > n THEN 0 ELSE n - 1 + 1
      BY <2>1, FS_Interval
    <2> QED
      BY <2>1, <2>2
  <1>5. order \in Surjection(1 .. n, S)
    BY <1>3, <1>4, FS_Injection
  <1>6. \A x \in S : \E i \in 1 .. n : order[i] = x
    BY <1>5 DEF Surjection
  <1> QED
    BY <1>1, <1>2, <1>6 DEF Orders

(* What Serialize writes are the entries of what the group holds.          *)
LEMMA BytesAre ==
    ASSUME Housed(Now), NEW g \in AllGroups, NEW order \in SetToSeqs(DOMAIN map[g])
    PROVE  \E E \in Seq(EntryRecords) :
              /\ IsContent(E, Held(Now, g))
              /\ IsFlat(Things, Bytes(g, order), [k \in 1 .. Len(E) |-> Written(E[k])])
  <1> DEFINE names == DOMAIN map[g]
  <1>1. Now \in States /\ Now.map = map /\ Now.block = block
    BY DEF Housed, Now
  <1>2. names \subseteq OptionNames
    BY <1>1, StateFacts
  <1>3. IsFiniteSet(names)
    <2>1. IsFiniteSet(OptionNames)
      <3>1. OptionNames = {Opt} \union {Other}
        BY DEF OptionNames
      <3>2. IsFiniteSet({Opt})
        BY FS_Singleton
      <3> QED
        BY <3>1, <3>2, FS_AddElement
    <2> QED
      BY <2>1, <1>2, FS_Subset
  <1> HIDE DEF names
  <1>4. order \in SetToSeqs(names)
    BY DEF names
  <1>50. PICK n \in Nat : Orders(order, names, n)
    BY <1>3, <1>4, OrderFacts
  <1>5. /\ order \in [1 .. n -> names] /\ DOMAIN order = 1 .. n
        /\ \A x \in names : \E i \in 1 .. n : order[i] = x
    BY <1>50 DEF Orders
  <1> DEFINE size(m) == map[g][m].size
             place(m) == map[g][m].ptr
             data(m) == SubSeq(block[place(m)], 1, size(m))
             entry(m) == [crc |-> m, data |-> data(m)]
             E == [k \in 1 .. n |-> entry(order[k])]
             W == [k \in 1 .. n |-> Written(E[k])]
  <1>6. ASSUME NEW m \in names
        PROVE  /\ size(m) \in Nat \ {0} /\ place(m) \in Blocks
               /\ block[place(m)] \in Seq(Things) /\ Len(block[place(m)]) >= size(m)
               /\ Len(block[place(m)]) \in Nat
    BY <1>1, StateFacts DEF Housed, Fits, names
  <1>7. ASSUME NEW m \in names
        PROVE  /\ data(m) \in Seq(Things) /\ Len(data(m)) = size(m)
               /\ data(m)[1] = block[place(m)][1]
    <2> PICK d : d = block[place(m)]
      OBVIOUS
    <2> PICK len : len = size(m)
      OBVIOUS
    <2>1. d \in Seq(Things) /\ len \in Nat \ {0} /\ Len(d) >= len
      BY <1>6
    <2>2. Within(Things, d, 0, len) /\ 0 \in Nat /\ len \in Nat
      <3>1. \A j \in 1 .. len : 0 + j \in 1 .. Len(d) /\ 0 + j = j
        BY <2>1
      <3>2. \A j \in 1 .. Len(d) : d[j] \in Things
        BY <2>1
      <3> QED
        BY <2>1, <3>1, <3>2 DEF Within
    <2>3. IsSlice(Things, SubSeq(d, 0 + 1, 0 + len), d, 0, len)
      BY <2>2, Slice
    <2>4. 0 + 1 = 1 /\ 0 + len = len /\ 1 \in 1 .. len
      BY <2>1
    <2>5. data(m) = SubSeq(d, 0 + 1, 0 + len)
      BY <2>4
    <2> HIDE DEF data
    <2> QED
      BY <2>3, <2>4, <2>5 DEF IsSlice
  <1> HIDE DEF data
  <1>8. ASSUME NEW m \in names
        PROVE  /\ entry(m) \in EntryRecords /\ entry(m).crc = m /\ entry(m).data = data(m)
               /\ Written(entry(m)) = <<size(m), m>> \o data(m)
               /\ entry(m).data[1] = Held(Now, g)[m]
    <2>1. Len(data(m)) >= 1
      BY <1>6, <1>7
    <2>2. entry(m) \in EntryRecords
      BY <2>1, <1>2, <1>7 DEF EntryRecords
    <2>3. Held(Now, g)[m] = block[place(m)][1]
      BY <1>1 DEF Held, names
    <2> QED
      BY <2>2, <2>3, <1>7 DEF Written
  <1>9. \A k \in 1 .. n : order[k] \in names
    BY <1>5
  <1> HIDE DEF entry
  <1>10. E \in Seq(EntryRecords) /\ Len(E) = n /\ \A k \in 1 .. n : E[k] = entry(order[k])
    <2>1. \A k \in 1 .. n : entry(order[k]) \in EntryRecords
      BY <1>8, <1>9
    <2>2. E \in [1 .. n -> EntryRecords] /\ \A k \in 1 .. n : E[k] = entry(order[k])
      BY <2>1
    <2> HIDE DEF E
    <2> QED
      BY <2>2
  <1>11. W \in Seq(Seq(Things))
    <2>1. \A k \in 1 .. n : Written(E[k]) \in Seq(Things)
      BY <1>8, <1>9, <1>10, WrittenIs
    <2> HIDE DEF E
    <2> QED
      BY <2>1
  <1> HIDE DEF E
  <1>12. Bytes(g, order) = FlattenSeq(W)
    <2> DEFINE written(m) == <<map[g][m].size, m>> \o SubSeq(block[map[g][m].ptr], 1, map[g][m].size)
    <2>1. Bytes(g, order) = FlattenSeq([i \in DOMAIN order |-> written(order[i])])
      BY DEF Bytes
    <2>2. \A k \in 1 .. n : written(order[k]) = Written(E[k])
      BY <1>8, <1>9, <1>10 DEF data
    <2> HIDE DEF written
    <2>3. [i \in DOMAIN order |-> written(order[i])] = W
      BY <2>2, <1>5
    <2> QED
      BY <2>1, <2>3
  <1>13. IsFlat(Things, Bytes(g, order), W)
    <2> HIDE DEF W
    <2> QED
      BY <1>11, <1>12, FlattenIs
  <1>14. IsContent(E, Held(Now, g))
    <2>1. DOMAIN Held(Now, g) = names
      BY <1>1 DEF Held, names
    <2>2. ASSUME NEW k \in 1 .. n
          PROVE  E[k].crc = order[k] /\ Held(Now, g)[E[k].crc] = E[k].data[1]
      <3>1. order[k] \in names /\ E[k] = entry(order[k])
        BY <1>9, <1>10
      <3> PICK m : m = order[k]
        OBVIOUS
      <3>2. m \in names /\ E[k] = entry(m)
        BY <3>1
      <3>3. entry(m).crc = m /\ entry(m).data[1] = Held(Now, g)[m]
        BY <3>2, <1>8
      <3>4. E[k].crc = m /\ E[k].data[1] = Held(Now, g)[m]
        BY <3>2, <3>3
      <3> QED
        BY <3>4
    <2>3. NamesTo(E, Len(E)) = names
      BY <1>5, <1>9, <1>10, <2>2 DEF NamesTo
    <2>4. Held(Now, g) \in [names -> Things]
      <3>1. \A m \in names : Held(Now, g)[m] \in Things
        <4> SUFFICES ASSUME NEW m \in names PROVE Held(Now, g)[m] \in Things
          OBVIOUS
        <4>1. Held(Now, g)[m] = data(m)[1] /\ data(m) \in Seq(Things) /\ Len(data(m)) >= 1
          <5>1. size(m) \in Nat \ {0} /\ data(m) \in Seq(Things) /\ Len(data(m)) = size(m)
            BY <1>6, <1>7
          <5>2. Held(Now, g)[m] = entry(m).data[1] /\ entry(m).data = data(m)
            BY <1>8
          <5> HIDE DEF size
          <5> QED
            BY <5>1, <5>2
        <4> PICK d : d = data(m)
          OBVIOUS
        <4>2. d \in Seq(Things) /\ Len(d) >= 1 /\ Held(Now, g)[m] = d[1]
          BY <4>1
        <4> QED
          BY <4>2
      <3>2. Held(Now, g) = [m \in names |-> Held(Now, g)[m]]
        BY <2>1 DEF Held
      <3> QED
        BY <3>1, <3>2
    <2>5. Held(Now, g) \in Contents
      BY <2>4, <1>2 DEF Contents
    <2> QED
      BY <2>1, <2>2, <2>3, <2>5, <1>10 DEF IsContent
  <1> QED
    BY <1>10, <1>13, <1>14

(* In file f, a group that held C was written between from and to.         *)
Section(f, from, to, C) ==
    /\ from + 2 <= Len(f) /\ f[from + 1] = Magic /\ f[from + 2] = to
    /\ \E E \in Seq(EntryRecords) : Spells(f, from + 2, to, E) /\ IsContent(E, C)

(* The file f has the groups that were saved one after the other, and the  *)
(* next to be read starts at p.                                            *)
Marks(at, f, p, sv, rd) ==
    /\ at \in [0 .. Len(sv) -> Nat] /\ at[Len(sv)] = Len(f) /\ p = at[rd]
    /\ \A k \in 1 .. Len(sv) : Section(f, at[k - 1], at[k], sv[k])

FileIs(f, p, sv, rd) ==
    /\ f \in Seq(Things) /\ sv \in Seq(Contents) /\ rd \in 0 .. Len(sv)
    /\ \E at : Marks(at, f, p, sv, rd)

LEMMA SectionStays ==
    ASSUME NEW f, NEW h, Len(f) \in Nat, Len(h) \in Nat, Len(f) <= Len(h),
           \A j \in 1 .. Len(f) : h[j] = f[j],
           NEW from \in Nat, NEW to, NEW C, Section(f, from, to, C)
    PROVE  Section(h, from, to, C)
  <1>1. /\ from + 2 <= Len(f) /\ f[from + 1] = Magic /\ f[from + 2] = to
        /\ \E E \in Seq(EntryRecords) : Spells(f, from + 2, to, E) /\ IsContent(E, C)
    BY DEF Section
  <1>2. PICK E \in Seq(EntryRecords) : Spells(f, from + 2, to, E) /\ IsContent(E, C)
    BY <1>1
  <1>3. Spells(h, from + 2, to, E)
    <2> PICK start : start = from + 2
      OBVIOUS
    <2>1. Spells(f, start, to, E)
      BY <1>2
    <2>2. Spells(h, start, to, E)
      BY <2>1, LongerSpells
    <2> QED
      BY <2>2
  <1>4. from + 1 \in 1 .. Len(f) /\ from + 2 \in 1 .. Len(f) /\ from + 2 <= Len(h)
    BY <1>1
  <1> QED
    BY <1>1, <1>2, <1>3, <1>4 DEF Section

(* A group that is saved is one section more.                              *)
LEMMA FileGrows ==
    ASSUME NEW f, NEW p, NEW sv, NEW rd, FileIs(f, p, sv, rd), NEW B, NEW C \in Contents,
           NEW E \in Seq(EntryRecords), IsContent(E, C),
           IsFlat(Things, B, [k \in 1 .. Len(E) |-> Written(E[k])])
    PROVE  FileIs(f \o <<Magic, Len(f) + 2 + Len(B)>> \o B, p, Append(sv, C), rd)
  <1>1. /\ f \in Seq(Things) /\ sv \in Seq(Contents) /\ rd \in 0 .. Len(sv)
        /\ \E at : Marks(at, f, p, sv, rd)
    BY DEF FileIs
  <1>2. PICK at : Marks(at, f, p, sv, rd)
    BY <1>1
  <1>3. B \in Seq(Things)
    BY DEF IsFlat
  <1> PICK n : n = Len(sv)
    OBVIOUS
  <1> PICK lf : lf = Len(f)
    OBVIOUS
  <1> PICK lb : lb = Len(B)
    OBVIOUS
  <1>4. n \in Nat /\ lf \in Nat /\ lb \in Nat
    BY <1>1, <1>3
  <1> DEFINE head == <<Magic, lf + 2 + lb>>
             tail == head \o B
             h == f \o tail
             top == lf + 2 + lb
  <1>5. /\ head \in Seq(Things) /\ Len(head) = 2 /\ head[1] = Magic /\ head[2] = top
        /\ top \in Nat
    <2>1. top \in Nat /\ top \in Things
      BY <1>4, Facts
    <2> HIDE DEF top
    <2>2. head = <<Magic, top>>
      BY DEF top
    <2> QED
      BY <2>1, <2>2, Facts
  <1> HIDE DEF head
  <1>6. IsJoin(tail, head, B) /\ tail \in Seq(Things)
    BY <1>3, <1>5, JoinIs, Joined
  <1> HIDE DEF tail
  <1>7. IsJoin(h, f, tail) /\ h \in Seq(Things)
    BY <1>1, <1>6, JoinIs, Joined
  <1>8. f \o <<Magic, Len(f) + 2 + Len(B)>> \o B = h
    <2>1. f \o <<Magic, Len(f) + 2 + Len(B)>> \o B = (f \o head) \o B
      BY DEF head
    <2>2. (f \o head) \o B = f \o (head \o B)
      <3> PICK T : T = Things
        OBVIOUS
      <3> PICK a : a = head
        OBVIOUS
      <3>1. f \in Seq(T) /\ a \in Seq(T) /\ B \in Seq(T)
        BY <1>1, <1>3, <1>5
      <3>2. (f \o a) \o B = f \o (a \o B)
        BY ONLY <3>1, ConcatAssociative
      <3> QED
        BY <3>2
    <2> QED
      BY <2>1, <2>2 DEF tail
  <1> HIDE DEF h, top
  <1>9. /\ Len(tail) = 2 + lb /\ tail[1] = Magic /\ tail[2] = top
        /\ \A j \in 1 .. lb : tail[2 + j] = B[j]
    <2>1. 1 \in 1 .. 2 /\ 2 \in 1 .. 2
      OBVIOUS
    <2> QED
      BY <2>1, <1>5, <1>6 DEF IsJoin
  <1>10. /\ Len(h) = top /\ lf <= top /\ lf + 2 <= top /\ (lf + 2) + lb = top
         /\ \A j \in 1 .. lf : h[j] = f[j]
         /\ h[lf + 1] = Magic /\ h[lf + 2] = top
         /\ \A j \in 1 .. lb : h[(lf + 2) + j] = B[j]
    <2>1. /\ Len(h) = lf + (2 + lb)
          /\ \A j \in 1 .. lf : h[j] = f[j]
          /\ \A j \in 1 .. 2 + lb : h[lf + j] = tail[j]
      BY <1>7, <1>9 DEF IsJoin
    <2>2. /\ lf + (2 + lb) = top /\ lf <= top /\ lf + 2 <= top /\ (lf + 2) + lb = top
          /\ 1 \in 1 .. 2 + lb /\ 2 \in 1 .. 2 + lb
          /\ \A j \in 1 .. lb : 2 + j \in 1 .. 2 + lb /\ lf + (2 + j) = (lf + 2) + j
      BY ONLY <1>4 DEF top
    <2> QED
      BY <2>1, <2>2, <1>9
  <1>11. Section(h, lf, top, C)
    <2> PICK from : from = lf + 2
      OBVIOUS
    <2>1. from \in Nat /\ Len(h) \in Nat /\ from + Len(B) <= Len(h) /\ from + Len(B) = top
          /\ \A j \in 1 .. Len(B) : h[from + j] = B[j]
      BY <1>4, <1>5, <1>10
    <2>2. Spells(h, from, from + Len(B), E)
      BY <2>1, FlatSpells
    <2>3. Spells(h, lf + 2, top, E)
      BY <2>1, <2>2
    <2> QED
      BY <2>3, <1>10 DEF Section
  <1> DEFINE to == [k \in 0 .. n + 1 |-> IF k = n + 1 THEN top ELSE at[k]]
             sw == Append(sv, C)
  <1>12. /\ at \in [0 .. n -> Nat] /\ at[n] = lf /\ p = at[rd]
         /\ \A k \in 1 .. n : Section(f, at[k - 1], at[k], sv[k])
    BY <1>2 DEF Marks
  <1>13. /\ to \in [0 .. n + 1 -> Nat] /\ to[n + 1] = top
         /\ \A k \in 0 .. n : to[k] = at[k] /\ at[k] \in Nat
    <2>1. \A k \in 0 .. n + 1 : k # n + 1 => k \in 0 .. n
      BY ONLY <1>4
    <2>2. \A k \in 0 .. n : k \in 0 .. n + 1 /\ k # n + 1
      BY ONLY <1>4
    <2>3. n + 1 \in 0 .. n + 1
      BY ONLY <1>4
    <2> QED
      BY <2>1, <2>2, <2>3, <1>5, <1>12
  <1>14. /\ sw \in Seq(Contents) /\ Len(sw) = n + 1 /\ sw[n + 1] = C
         /\ \A k \in 1 .. n : sw[k] = sv[k]
    BY <1>1, AppendProperties
  <1> HIDE DEF to, sw
  <1>15. ASSUME NEW k \in 1 .. n + 1 PROVE Section(h, to[k - 1], to[k], sw[k])
    <2>1. CASE k = n + 1
      <3>1. k - 1 = n /\ n \in 0 .. n
        BY ONLY <2>1, <1>4
      <3>2. to[k - 1] = lf /\ to[k] = top /\ sw[k] = C
        BY <2>1, <3>1, <1>12, <1>13, <1>14
      <3> QED
        BY <3>2, <1>11
    <2>2. CASE k # n + 1
      <3>1. k \in 1 .. n /\ k - 1 \in 0 .. n /\ k \in 0 .. n
        BY ONLY <2>2, <1>4, k \in 1 .. n + 1
      <3>2. to[k - 1] = at[k - 1] /\ to[k] = at[k] /\ sw[k] = sv[k] /\ at[k - 1] \in Nat
        BY <3>1, <1>13, <1>14
      <3>3. Section(f, at[k - 1], at[k], sv[k])
        BY <3>1, <1>12
      <3>4. Len(f) \in Nat /\ Len(h) \in Nat /\ Len(f) <= Len(h) /\ \A j \in 1 .. Len(f) : h[j] = f[j]
        BY <1>4, <1>5, <1>10
      <3>5. Section(h, at[k - 1], at[k], sv[k])
        BY <3>2, <3>3, <3>4, SectionStays
      <3> QED
        BY <3>2, <3>5
    <2> QED
      BY <2>1, <2>2
  <1>16. rd \in 0 .. n + 1 /\ rd \in 0 .. n
    BY <1>1, <1>4
  <1>17. Marks(to, h, p, sw, rd)
    BY <1>10, <1>12, <1>13, <1>14, <1>15, <1>16 DEF Marks
  <1>18. FileIs(h, p, sw, rd)
    BY <1>7, <1>14, <1>16, <1>17 DEF FileIs
  <1> QED
    BY <1>8, <1>18 DEF sw

(* What Initialize reads are the entries of what was saved.                *)
LEMMA FileIsRead ==
    ASSUME FileIs(buf, pos, saved, read), pos < Len(buf)
    PROVE  /\ read < Len(saved) /\ read + 1 \in 1 .. Len(saved) /\ saved[read + 1] \in Contents
           /\ FileIs(buf, buf[pos + 2], saved, read + 1)
           /\ \E E \in Seq(EntryRecords) : Entries(pos) = E /\ IsContent(E, saved[read + 1])
  <1>1. /\ buf \in Seq(Things) /\ saved \in Seq(Contents) /\ read \in 0 .. Len(saved)
        /\ \E at : Marks(at, buf, pos, saved, read)
    BY DEF FileIs
  <1>2. PICK at : Marks(at, buf, pos, saved, read)
    BY <1>1
  <1> PICK n : n = Len(saved)
    OBVIOUS
  <1>3. n \in Nat /\ Len(buf) \in Nat /\ read \in 0 .. n
    BY <1>1
  <1>4. /\ at \in [0 .. n -> Nat] /\ at[n] = Len(buf) /\ pos = at[read]
        /\ \A k \in 1 .. n : Section(buf, at[k - 1], at[k], saved[k])
    BY <1>2 DEF Marks
  <1>5. read < n
    <2>1. read # n
      BY <1>3, <1>4
    <2> QED
      BY <2>1, <1>3
  <1>6. read + 1 \in 1 .. n /\ read + 1 \in 0 .. n /\ (read + 1) - 1 = read /\ pos \in Nat
    BY <1>3, <1>4, <1>5
  <1>7. Section(buf, pos, at[read + 1], saved[read + 1])
    BY <1>4, <1>6
  <1>8. PICK E \in Seq(EntryRecords) :
            Spells(buf, pos + 2, at[read + 1], E) /\ IsContent(E, saved[read + 1])
    BY <1>7 DEF Section
  <1>9. buf[pos + 2] = at[read + 1]
    BY <1>7 DEF Section
  <1>10. Entries(pos) = E
    <2>1. Spells(buf, pos + 2, buf[pos + 2], E)
      BY <1>8, <1>9
    <2> QED
      BY <2>1, <1>1, <1>6, EntriesAre
  <1>11. Marks(at, buf, buf[pos + 2], saved, read + 1)
    BY <1>2, <1>9 DEF Marks
  <1>12. FileIs(buf, buf[pos + 2], saved, read + 1)
    BY <1>1, <1>6, <1>11 DEF FileIs
  <1>13. saved[read + 1] \in Contents
    BY <1>1, <1>6
  <1> QED
    BY <1>5, <1>6, <1>8, <1>10, <1>12, <1>13

-----------------------------------------------------------------------------
(* The layers of an option                                                 *)

(* The group of the first layer.                                           *)
First(pt) == IF NumPtrs = 0 THEN Global ELSE pt[1]

Slots == [g : AllGroups, allocID : Blocks \union {NoPtr}, reloadCnt : Nat]

(* A cached pointer that counts as current is the one its group has.       *)
Good(s, c, rc) ==
    /\ c.reloadCnt <= rc[c.g]
    /\ c.allocID # NoPtr /\ c.reloadCnt = rc[c.g] =>
          Opt \in DOMAIN s.map[c.g] /\ s.map[c.g][Opt].ptr = c.allocID

Minds(s, rc) == s.cache \in Chain => \A l \in Layers : Good(s, s.cache[l], rc)

(* The option's first layer has its memory, with v in it.                  *)
Keeps(s, rc, pt, v) ==
    /\ s.cache \in Chain
    /\ s.cache[1].g = First(pt) /\ s.cache[1].reloadCnt = rc[First(pt)]
    /\ s.cache[1].allocID # NoPtr
    /\ Held(s, First(pt))[Opt] = v

Sound(s, rc, pt, mn) ==
    /\ Housed(s) /\ rc \in [AllGroups -> Nat] /\ pt \in [1 .. NumPtrs -> Groups]
    /\ Minds(s, rc)
    /\ mn # Junk => Keeps(s, rc, pt, mn)

SettingsInv ==
    /\ Sound(Now, reloadCount, pointsTo, mine)
    /\ FileIs(buf, pos, saved, read)

LEMMA InvAfter ==
    ASSUME NEW t \in States, Become(t), NEW r, NEW p, NEW m, reloadCount' = r, pointsTo' = p, mine' = m,
           Sound(t, r, p, m), FileIs(buf', pos', saved', read')
    PROVE  SettingsInv'
  <1>1. t = [map |-> t.map, block |-> t.block, cache |-> t.cache]
    BY StateFacts
  <1>2. Now' = t
    BY <1>1 DEF Now, Become
  <1>3. Sound(Now, reloadCount, pointsTo, mine)'
    BY <1>2
  <1>4. FileIs(buf, pos, saved, read)'
    OBVIOUS
  <1> QED
    BY <1>3, <1>4 DEF SettingsInv

(* The same memory with other caches.                                      *)
LEMMA SameMemory ==
    ASSUME NEW s, NEW t, t.map = s.map, t.block = s.block
    PROVE  /\ Apart(t) <=> Apart(s)
           /\ Fits(t) <=> Fits(s)
           /\ FreeBlocks(t) = FreeBlocks(s) /\ Fresh(t) = Fresh(s)
           /\ \A g : Held(t, g) = Held(s, g)
           /\ \A g, n : TryGetAlloc(t, g, n) = TryGetAlloc(s, g, n)
  BY DEF Apart, Fits, FreeBlocks, Fresh, Held, TryGetAlloc

(* c is what layer l may go on using.                                      *)
Current(s, l, c) ==
    /\ c \in Slots /\ c.g = TargetOf(l) /\ c.reloadCnt = reloadCount[TargetOf(l)]
    /\ c.allocID # NoPtr =>
          Opt \in DOMAIN s.map[TargetOf(l)] /\ s.map[TargetOf(l)][Opt].ptr = c.allocID

Settled == reloadCount \in [AllGroups -> Nat] /\ pointsTo \in [1 .. NumPtrs -> Groups]

LEMMA TargetFacts ==
    ASSUME Settled, NEW l \in Layers
    PROVE  TargetOf(l) \in AllGroups /\ reloadCount[TargetOf(l)] \in Nat
           /\ TargetOf(1) = First(pointsTo) /\ TargetOf(Bottom) = Global
  <1>1. TargetOf(l) \in AllGroups
    <2>1. CASE l = Bottom
      BY <2>1, Facts DEF TargetOf
    <2>2. CASE l # Bottom
      <3>1. l \in 1 .. NumPtrs
        BY <2>2, Facts DEF Layers, Bottom
      <3> QED
        BY <2>2, <3>1, Facts DEF TargetOf, Settled
    <2> QED
      BY <2>1, <2>2
  <1>2. TargetOf(1) = First(pointsTo)
    <2>1. 1 = Bottom <=> NumPtrs = 0
      BY Facts DEF Bottom
    <2> QED
      BY <2>1 DEF TargetOf, First
  <1>3. TargetOf(Bottom) = Global
    BY DEF TargetOf
  <1> QED
    BY <1>1, <1>2, <1>3 DEF Settled

LEMMA TryRefreshIs ==
    ASSUME Settled, NEW s, Housed(s), s.cache \in Chain, Minds(s, reloadCount), NEW l \in Layers
    PROVE  /\ Current(s, l, TryRefresh(s, l))
           /\ Current(s, l, s.cache[l]) => TryRefresh(s, l) = s.cache[l]
           /\ s.cache[l].g = TargetOf(l) => TryRefresh(s, l) = CheckReloadCnt(s, l)
  <1> DEFINE h == TargetOf(l)
             c == s.cache[l]
  <1>1. h \in AllGroups /\ reloadCount[h] \in Nat
    BY TargetFacts
  <1>2. c \in Slots /\ Good(s, c, reloadCount)
    BY DEF Chain, Slots, Minds
  <1>3. c = [g |-> c.g, allocID |-> c.allocID, reloadCnt |-> c.reloadCnt]
        /\ c.allocID \in Blocks \union {NoPtr}
    BY <1>2 DEF Slots
  <1>4. CASE c.g # h
    <2>1. TryRefresh(s, l) =
              [g |-> h, allocID |-> TryGetAlloc(s, h, Opt), reloadCnt |-> reloadCount[h]]
      BY <1>4 DEF TryRefresh, Cached
    <2>2. TryGetAlloc(s, h, Opt) \in Blocks \union {NoPtr}
          /\ (TryGetAlloc(s, h, Opt) # NoPtr =>
                 Opt \in DOMAIN s.map[h] /\ s.map[h][Opt].ptr = TryGetAlloc(s, h, Opt))
      BY <1>1, HousedFacts DEF TryGetAlloc
    <2> HIDE DEF h
    <2>3. Current(s, l, TryRefresh(s, l))
      BY <2>1, <2>2, <1>1 DEF Current, Slots, h
    <2> QED
      BY <2>3, <1>4 DEF Current, h
  <1>5. CASE c.g = h
    <2> DEFINE b == IF c.reloadCnt # reloadCount[h] THEN NoPtr ELSE c.allocID
    <2>1. TryRefresh(s, l) = CheckReloadCnt(s, l)
      BY <1>5 DEF TryRefresh
    <2>2. CheckReloadCnt(s, l) = [g |-> h, allocID |-> b, reloadCnt |-> reloadCount[h]]
      BY DEF CheckReloadCnt, Cached
    <2>3. /\ b \in Blocks \union {NoPtr}
          /\ b # NoPtr => Opt \in DOMAIN s.map[h] /\ s.map[h][Opt].ptr = b
      BY <1>2, <1>3, <1>5 DEF Good
    <2>4. c.reloadCnt = reloadCount[h] => [g |-> h, allocID |-> b, reloadCnt |-> reloadCount[h]] = c
      BY <1>3, <1>5
    <2> HIDE DEF b, h
    <2>5. Current(s, l, TryRefresh(s, l))
      BY <2>1, <2>2, <2>3, <1>1 DEF Current, Slots, h
    <2>6. Current(s, l, c) => TryRefresh(s, l) = c
      BY <2>1, <2>2, <2>4 DEF Current, h
    <2> QED
      BY <2>1, <2>5, <2>6
  <1> QED
    BY <1>4, <1>5

LEMMA CurrentIsGood ==
    ASSUME Settled, NEW s, NEW l \in Layers, NEW c, Current(s, l, c)
    PROVE  Good(s, c, reloadCount) /\ c \in Slots
  BY TargetFacts DEF Current, Good

LEMMA GoodStays ==
    ASSUME NEW s, NEW t, Grows(s, t), NEW c \in Slots, NEW rc, Good(s, c, rc)
    PROVE  Good(t, c, rc)
  BY DEF Grows, Good, Slots

(* What a layer that claims the option has afterwards.                     *)
Claimed(s, t, l, v) ==
    /\ Housed(t) /\ t.cache \in Chain /\ Minds(t, reloadCount)
    /\ Filled(s, t, TargetOf(l), Opt, v) /\ Grows(s, t) /\ Spends(s, t)
    /\ Current(t, l, t.cache[l])
    /\ FreeBlocks(s) # {} => t.cache[l].allocID # NoPtr
    /\ \A k \in Layers : k # l => t.cache[k] = s.cache[k]
    /\ Current(s, l, s.cache[l]) /\ s.cache[l].allocID # NoPtr =>
          t.cache = s.cache /\ \A g \in AllGroups : Held(t, g) = Held(s, g)

(* s and another cache of layer l.                                         *)
LEMMA Recached ==
    ASSUME NEW s \in States, NEW l \in Layers, NEW c \in Slots, s.cache \in Chain
    PROVE  /\ [s EXCEPT !.cache[l] = c] =
                  [map |-> s.map, block |-> s.block, cache |-> [s.cache EXCEPT ![l] = c]]
           /\ [s EXCEPT !.cache[l] = c] \in States
           /\ [s.cache EXCEPT ![l] = c] \in Chain /\ [s.cache EXCEPT ![l] = c][l] = c
           /\ \A k \in Layers : k # l => [s.cache EXCEPT ![l] = c][k] = s.cache[k]
           /\ c = s.cache[l] => [s.cache EXCEPT ![l] = c] = s.cache
  <1>1. /\ s = [map |-> s.map, block |-> s.block, cache |-> s.cache]
        /\ s.map \in [AllGroups -> Maps] /\ s.block \in Memories
    BY StateFacts
  <1> DEFINE d == [s.cache EXCEPT ![l] = c]
             t == [map |-> s.map, block |-> s.block, cache |-> d]
  <1>2. [s EXCEPT !.cache[l] = c] = t
    BY <1>1
  <1>3. d \in Chain /\ d[l] = c /\ \A k \in Layers : k # l => d[k] = s.cache[k]
    BY DEF Chain, Slots
  <1>4. c = s.cache[l] => d = s.cache
    BY DEF Chain
  <1> HIDE DEF d
  <1>5. t \in States
    BY <1>1, <1>3 DEF States
  <1> QED
    BY <1>2, <1>3, <1>4, <1>5 DEF d

LEMMA ClaimIs ==
    ASSUME Settled, NEW s, Housed(s), s.cache \in Chain, Minds(s, reloadCount),
           NEW l \in Layers, NEW v \in Int
    PROVE  Claimed(s, Claim(s, l, v), l, v)
  <1> DEFINE h == TargetOf(l)
             r == ReserveOption(s, h, Opt, v)
             c == Cached(l, TryGetAlloc(r, h, Opt))
             d == [r.cache EXCEPT ![l] = c]
             t == [r EXCEPT !.cache[l] = c]
  <1>1. h \in AllGroups /\ reloadCount[h] \in Nat
    BY TargetFacts
  <1>2. Reserved(s, r, h, Opt, v)
    BY <1>1, ReserveIs, Facts
  <1>3. Claim(s, l, v) = t
    BY DEF Claim
  <1>30. ASSUME Current(s, l, s.cache[l]), s.cache[l].allocID # NoPtr
         PROVE  r = s /\ c = s.cache[l]
    <2>1. /\ s.cache[l] \in Slots /\ s.cache[l].g = h /\ s.cache[l].reloadCnt = reloadCount[h]
          /\ Opt \in DOMAIN s.map[h] /\ s.map[h][Opt].ptr = s.cache[l].allocID
      BY <1>30 DEF Current
    <2>2. r = s
      BY <2>1 DEF ReserveOption
    <2>3. TryGetAlloc(s, h, Opt) = s.cache[l].allocID
      BY <2>1 DEF TryGetAlloc
    <2>4. s.cache[l] = [g |-> s.cache[l].g, allocID |-> s.cache[l].allocID,
                        reloadCnt |-> s.cache[l].reloadCnt]
      BY <2>1 DEF Slots
    <2>5. c = [g |-> h, allocID |-> TryGetAlloc(s, h, Opt), reloadCnt |-> reloadCount[h]]
      BY <2>2 DEF Cached
    <2> QED
      BY <2>1, <2>2, <2>3, <2>4, <2>5
  <1> HIDE DEF r
  <1>4. /\ Housed(r) /\ r.cache = s.cache /\ Grows(s, r) /\ Filled(s, r, h, Opt, v) /\ Spends(s, r)
        /\ FreeBlocks(s) # {} => Opt \in DOMAIN r.map[h]
        /\ r \in States
    BY <1>2 DEF Reserved, Housed
  <1>5. Current(r, l, c) /\ (FreeBlocks(s) # {} => c.allocID # NoPtr)
    <2>1. c = [g |-> h, allocID |-> TryGetAlloc(r, h, Opt), reloadCnt |-> reloadCount[h]]
      BY DEF Cached
    <2>2. /\ TryGetAlloc(r, h, Opt) \in Blocks \union {NoPtr}
          /\ TryGetAlloc(r, h, Opt) # NoPtr =>
                 Opt \in DOMAIN r.map[h] /\ r.map[h][Opt].ptr = TryGetAlloc(r, h, Opt)
          /\ Opt \in DOMAIN r.map[h] => TryGetAlloc(r, h, Opt) # NoPtr
      BY <1>1, <1>4, HousedFacts DEF TryGetAlloc
    <2> HIDE DEF h, c
    <2> QED
      BY <2>1, <2>2, <1>1, <1>4 DEF Current, Slots, h
  <1> HIDE DEF c
  <1>6. c \in Slots /\ Good(r, c, reloadCount)
    BY <1>5, CurrentIsGood
  <1>7. /\ t = [map |-> r.map, block |-> r.block, cache |-> d] /\ t \in States
        /\ d \in Chain /\ d[l] = c /\ \A k \in Layers : k # l => d[k] = s.cache[k]
        /\ c = s.cache[l] => d = s.cache
    BY <1>4, <1>6, Recached
  <1> HIDE DEF d, t
  <1>8. t.map = r.map /\ t.block = r.block /\ t.cache = d
    BY <1>7
  <1>9. Housed(t) /\ FreeBlocks(t) = FreeBlocks(r) /\ \A g : Held(t, g) = Held(r, g)
    BY <1>4, <1>7, <1>8, SameMemory DEF Housed
  <1>10. Grows(s, t) /\ Filled(s, t, h, Opt, v) /\ Spends(s, t)
    BY <1>4, <1>8, <1>9 DEF Grows, Filled, Spends
  <1>11. Current(t, l, t.cache[l])
    BY <1>5, <1>7, <1>8 DEF Current
  <1>12. Minds(t, reloadCount)
    <2> SUFFICES ASSUME NEW k \in Layers PROVE Good(t, t.cache[k], reloadCount)
      BY DEF Minds
    <2>1. CASE k = l
      BY <2>1, <1>11, CurrentIsGood
    <2>2. CASE k # l
      <3>1. t.cache[k] = s.cache[k] /\ s.cache[k] \in Slots /\ Good(s, s.cache[k], reloadCount)
        BY <2>2, <1>7, <1>8 DEF Minds, Chain, Slots
      <3> QED
        BY <3>1, <1>10, GoodStays
    <2> QED
      BY <2>1, <2>2
  <1>13. ASSUME Current(s, l, s.cache[l]), s.cache[l].allocID # NoPtr
         PROVE  t.cache = s.cache /\ \A g \in AllGroups : Held(t, g) = Held(s, g)
    BY <1>13, <1>30, <1>7, <1>8, <1>9
  <1> QED
    BY <1>3, <1>5, <1>7, <1>8, <1>9, <1>10, <1>11, <1>12, <1>13 DEF Claimed

LEMMA FilledWithNothing == ASSUME NEW s, NEW t, \A h : Held(t, h) = Held(s, h), NEW g, NEW n, NEW v
                           PROVE  Filled(s, t, g, n, v)
  BY DEF Filled

LEMMA RefreshIs ==
    ASSUME Settled, NEW s, Housed(s), s.cache \in Chain, Minds(s, reloadCount), NEW l \in Layers
    PROVE  Claimed(s, Refresh(s, l), l, 0)
  <1> DEFINE c == CheckReloadCnt(s, l)
             d == [s.cache EXCEPT ![l] = c]
             t == [s EXCEPT !.cache[l] = c]
  <1>0. s \in States
    BY DEF Housed
  <1>1. CASE s.cache[l].g = TargetOf(l) /\ c.allocID # NoPtr
    <2>1. Refresh(s, l) = t
      BY <1>1 DEF Refresh
    <2>2. Current(s, l, c) /\ (Current(s, l, s.cache[l]) => c = s.cache[l])
      BY <1>1, TryRefreshIs
    <2>3. c.allocID # NoPtr
      BY <1>1
    <2> HIDE DEF c
    <2>4. c \in Slots
      BY <2>2, CurrentIsGood
    <2>5. /\ t = [map |-> s.map, block |-> s.block, cache |-> d] /\ t \in States
          /\ d \in Chain /\ d[l] = c /\ \A k \in Layers : k # l => d[k] = s.cache[k]
          /\ c = s.cache[l] => d = s.cache
      BY <1>0, <2>4, Recached
    <2> HIDE DEF d, t
    <2>6. t.map = s.map /\ t.block = s.block /\ t.cache = d
      BY <2>5
    <2>7. Housed(t) /\ FreeBlocks(t) = FreeBlocks(s) /\ \A g : Held(t, g) = Held(s, g)
      BY <2>5, <2>6, SameMemory DEF Housed
    <2>8. Grows(s, t) /\ Spends(s, t)
      BY <2>6, <2>7, SpendsNothing DEF Grows, Spends
    <2>9. Filled(s, t, TargetOf(l), Opt, 0)
      BY <2>7, FilledWithNothing
    <2>10. Current(t, l, t.cache[l])
      BY <2>2, <2>5, <2>6 DEF Current
    <2>11. Minds(t, reloadCount)
      <3> SUFFICES ASSUME NEW k \in Layers PROVE Good(t, t.cache[k], reloadCount)
        BY DEF Minds
      <3>1. CASE k = l
        BY <3>1, <2>10, CurrentIsGood
      <3>2. CASE k # l
        <4>1. t.cache[k] = s.cache[k] /\ s.cache[k] \in Slots /\ Good(s, s.cache[k], reloadCount)
          BY <3>2, <2>5, <2>6 DEF Minds, Chain, Slots
        <4> QED
          BY <4>1, <2>8, GoodStays
      <3> QED
        BY <3>1, <3>2
    <2>12. Claimed(s, t, l, 0)
      BY <2>2, <2>3, <2>5, <2>6, <2>7, <2>8, <2>9, <2>10, <2>11 DEF Claimed
    <2> QED
      BY <2>1, <2>12
  <1>2. CASE ~(s.cache[l].g = TargetOf(l) /\ c.allocID # NoPtr)
    <2>1. Refresh(s, l) = Claim(s, l, 0)
      BY <1>2 DEF Refresh
    <2>2. Claimed(s, Claim(s, l, 0), l, 0)
      BY ClaimIs
    <2> QED
      BY <2>1, <2>2
  <1> QED
    BY <1>1, <1>2

(* One layer answers.                                                      *)
LEMMA AnsweringIs ==
    ASSUME NEW s
    PROVE  /\ Answering(s) \in Layers
           /\ Answering(s) = Bottom \/ TryRefresh(s, Answering(s)).allocID # NoPtr
           /\ \A k \in 1 .. Answering(s) - 1 : TryRefresh(s, k).allocID = NoPtr
  <1> DEFINE S == {l \in Layers : l = Bottom \/ TryRefresh(s, l).allocID # NoPtr}
  <1>1. Bottom \in S /\ S \in SUBSET Nat
    BY Facts
  <1>2. PICK l \in S : \A k \in S : l <= k
    <2> HIDE DEF S
    <2> QED
      BY <1>1, Least
  <1>3. /\ l \in Layers /\ (l = Bottom \/ TryRefresh(s, l).allocID # NoPtr)
        /\ \A k \in 1 .. l - 1 : TryRefresh(s, k).allocID = NoPtr
    <2> SUFFICES ASSUME NEW k \in 1 .. l - 1 PROVE TryRefresh(s, k).allocID = NoPtr
      OBVIOUS
    <2>1. k \in Layers /\ ~(l <= k)
      BY <1>2, Facts DEF Layers
    <2> QED
      BY <2>1, <1>2
  <1> QED
    BY <1>3 DEF Answering

(* What asking the chain leaves.                                           *)
Got(s, t) ==
    /\ Housed(t) /\ t.cache \in Chain /\ Minds(t, reloadCount)
    /\ Filled(s, t, Global, Opt, 0) /\ Grows(s, t) /\ Spends(s, t)
    /\ Current(s, 1, s.cache[1]) /\ s.cache[1].allocID # NoPtr =>
          /\ Answering(s) = 1 /\ t.cache[1] = s.cache[1]
          /\ \A g \in AllGroups : Held(t, g) = Held(s, g)

LEMMA GetChainIs ==
    ASSUME Settled, NEW s, Housed(s), s.cache \in Chain, Minds(s, reloadCount)
    PROVE  Got(s, GetChain(s))
  <1> DEFINE l == Answering(s)
             d == [k \in Layers |-> IF k <= l /\ k # Bottom THEN TryRefresh(s, k) ELSE s.cache[k]]
             a == [s EXCEPT !.cache = d]
             t == [map |-> s.map, block |-> s.block, cache |-> d]
  <1>1. l \in Layers /\ \A k \in 1 .. l - 1 : TryRefresh(s, k).allocID = NoPtr
    BY AnsweringIs
  <1>2. \A k \in Layers : s.cache[k] \in Slots /\ Good(s, s.cache[k], reloadCount)
    BY DEF Minds, Chain, Slots
  <1>3. \A k \in Layers : Current(s, k, TryRefresh(s, k))
                          /\ (Current(s, k, s.cache[k]) => TryRefresh(s, k) = s.cache[k])
    BY TryRefreshIs
  <1>4. \A k \in Layers : TryRefresh(s, k) \in Slots /\ Good(s, TryRefresh(s, k), reloadCount)
    BY <1>3, CurrentIsGood
  <1>5. GetChain(s) = IF l = Bottom THEN Refresh(a, Bottom) ELSE a
    BY DEF GetChain
  <1>6. /\ s \in States /\ s = [map |-> s.map, block |-> s.block, cache |-> s.cache]
        /\ s.map \in [AllGroups -> Maps] /\ s.block \in Memories
    BY StateFacts DEF Housed
  <1>7. a = t
    BY <1>6
  <1> HIDE DEF l
  <1>8. d \in Chain /\ \A k \in Layers : Good(s, d[k], reloadCount)
    <2>1. \A k \in Layers : d[k] \in Slots /\ Good(s, d[k], reloadCount)
      BY <1>2, <1>4
    <2>2. d = [k \in Layers |-> d[k]]
      OBVIOUS
    <2> HIDE DEF d
    <2>3. d \in [Layers -> Slots]
      BY <2>1, <2>2
    <2> QED
      BY <2>1, <2>3 DEF Chain, Slots
  <1>9. ASSUME Current(s, 1, s.cache[1]), s.cache[1].allocID # NoPtr
        PROVE  l = 1 /\ d[1] = s.cache[1]
    <2>1. 1 \in Layers /\ TryRefresh(s, 1) = s.cache[1]
      BY <1>3, <1>9, Facts
    <2>2. l = 1
      <3> SUFFICES ASSUME l # 1 PROVE FALSE
        OBVIOUS
      <3>1. 1 \in 1 .. l - 1
        BY <1>1, Facts
      <3> QED
        BY <3>1, <2>1, <1>1, <1>9
    <2> QED
      BY <2>1, <2>2
  <1> HIDE DEF d
  <1>10. t.map = s.map /\ t.block = s.block /\ t.cache = d /\ t \in States
    BY <1>6, <1>8 DEF States
  <1> HIDE DEF t
  <1>11. Housed(t) /\ FreeBlocks(t) = FreeBlocks(s) /\ \A g : Held(t, g) = Held(s, g)
    BY <1>10, SameMemory DEF Housed
  <1>12. Grows(s, t) /\ Spends(s, t) /\ Minds(t, reloadCount)
    <2>1. Grows(s, t) /\ Spends(s, t)
      BY <1>10, <1>11, SpendsNothing DEF Grows, Spends
    <2>2. \A k \in Layers : Good(t, t.cache[k], reloadCount)
      BY <1>8, <1>10 DEF Good
    <2> QED
      BY <2>1, <2>2 DEF Minds
  <1>13. CASE l # Bottom
    <2>1. GetChain(s) = t
      BY <1>5, <1>7, <1>13
    <2>2. Filled(s, t, Global, Opt, 0)
      BY <1>11, FilledWithNothing
    <2>3. Got(s, t)
      BY <1>8, <1>9, <1>10, <1>11, <1>12, <2>2 DEF Got, l
    <2> QED
      BY <2>1, <2>3
  <1>14. CASE l = Bottom
    <2> DEFINE u == Refresh(t, Bottom)
    <2>1. GetChain(s) = u
      BY <1>5, <1>7, <1>14
    <2>2. Claimed(t, u, Bottom, 0)
      BY <1>8, <1>10, <1>11, <1>12, Facts, RefreshIs
    <2> HIDE DEF u
    <2>3. /\ Housed(u) /\ u.cache \in Chain /\ Minds(u, reloadCount)
          /\ Filled(t, u, Global, Opt, 0) /\ Grows(t, u) /\ Spends(t, u)
          /\ Current(t, Bottom, t.cache[Bottom]) /\ t.cache[Bottom].allocID # NoPtr =>
                u.cache = t.cache /\ \A g \in AllGroups : Held(u, g) = Held(t, g)
      BY <2>2, Facts, TargetFacts DEF Claimed
    <2>4. Filled(s, u, Global, Opt, 0) /\ Grows(s, u) /\ Spends(s, u)
      BY <2>3, <1>10, <1>11 DEF Filled, Grows, Spends
    <2>5. ASSUME Current(s, 1, s.cache[1]), s.cache[1].allocID # NoPtr
          PROVE  /\ l = 1 /\ u.cache[1] = s.cache[1]
                 /\ \A g \in AllGroups : Held(u, g) = Held(s, g)
      <3>1. l = 1 /\ t.cache[1] = s.cache[1]
        BY <2>5, <1>9, <1>10
      <3>2. Current(t, 1, t.cache[1])
        BY <3>1, <2>5, <1>10 DEF Current
      <3> QED
        BY <3>1, <3>2, <2>3, <2>5, <1>11, <1>14
    <2>6. Got(s, u)
      BY <2>3, <2>4, <2>5 DEF Got, l
    <2> QED
      BY <2>1, <2>6
  <1> QED
    BY <1>13, <1>14

LEMMA WithTwice ==
    ASSUME NEW f, NEW n, NEW u, NEW v
    PROVE  With(With(f, n, u), n, v) = With(f, n, v)
  BY DEF With

(* One group has the name set, and nothing else changes.                   *)
Sets(s, t, g, n, v) ==
    /\ Held(t, g) = With(Held(s, g), n, v)
    /\ \A h \in AllGroups : h # g => Held(t, h) = Held(s, h)

LEMMA FilledThenSet ==
    ASSUME NEW s, NEW r, NEW t, NEW g, NEW n, NEW u, NEW v, Filled(s, r, g, n, u), Sets(r, t, g, n, v)
    PROVE  Sets(s, t, g, n, v)
  <1>1. With(Held(r, g), n, v) = With(Held(s, g), n, v)
    BY WithTwice DEF Filled
  <1> QED
    BY <1>1 DEF Filled, Sets

(* The option's first layer then has it.                                   *)
LEMMA SetChainIs ==
    ASSUME Settled, NEW s, Housed(s), s.cache \in Chain, Minds(s, reloadCount),
           FreeBlocks(s) # {}, NEW v \in Int
    PROVE  /\ Sound(SetChain(s, v), reloadCount, pointsTo, v)
           /\ Sets(s, SetChain(s, v), TargetOf(1), Opt, v)
  <1> DEFINE h == TargetOf(1)
             r == Refresh(s, 1)
             b == r.cache[1].allocID
             t == WriteBlock(r, b, Data(v))
  <1>1. h \in AllGroups /\ h = First(pointsTo) /\ 1 \in Layers
    BY TargetFacts, Facts
  <1>2. Claimed(s, r, 1, 0)
    BY <1>1, RefreshIs
  <1>3. SetChain(s, v) = t
    BY DEF SetChain
  <1> HIDE DEF r
  <1>4. /\ Housed(r) /\ r.cache \in Chain /\ Minds(r, reloadCount) /\ Filled(s, r, h, Opt, 0)
        /\ Current(r, 1, r.cache[1]) /\ b # NoPtr
    BY <1>2 DEF Claimed
  <1>5. Opt \in DOMAIN r.map[h] /\ r.map[h][Opt].ptr = b
        /\ r.cache[1].g = h /\ r.cache[1].reloadCnt = reloadCount[h]
    BY <1>4 DEF Current
  <1>6. Writes(r, t, h, Opt, v)
    <2>1. Writes(r, WriteBlock(r, r.map[h][Opt].ptr, Data(v)), h, Opt, v)
      BY <1>1, <1>4, <1>5, WriteIs
    <2> QED
      BY <2>1, <1>5
  <1> HIDE DEF t, h
  <1>7. /\ Housed(t) /\ t.map = r.map /\ t.cache = r.cache
        /\ Held(t, h) = With(Held(r, h), Opt, v)
        /\ \A k \in AllGroups : k # h => Held(t, k) = Held(r, k)
    BY <1>6 DEF Writes
  <1>8. Sets(s, t, h, Opt, v)
    BY <1>4, <1>7, FilledThenSet DEF Sets
  <1>9. Minds(t, reloadCount)
    BY <1>4, <1>7 DEF Minds, Good
  <1>10. Keeps(t, reloadCount, pointsTo, v)
    <2>1. Held(t, h)[Opt] = v
      BY <1>7 DEF With
    <2> QED
      BY <2>1, <1>1, <1>4, <1>5, <1>7 DEF Keeps
  <1>11. Sound(t, reloadCount, pointsTo, v)
    BY <1>7, <1>9, <1>10 DEF Sound, Settled
  <1> QED
    BY <1>3, <1>8, <1>11 DEF h

(* Memory that grows leaves the caches right.                              *)
LEMMA MindsStays ==
    ASSUME NEW s, NEW t, Grows(s, t), t.cache = s.cache, NEW rc, Minds(s, rc)
    PROVE  Minds(t, rc)
  <1> SUFFICES ASSUME t.cache \in Chain, NEW l \in Layers PROVE Good(t, t.cache[l], rc)
    BY DEF Minds
  <1>1. s.cache[l] \in Slots /\ Good(s, s.cache[l], rc)
    BY DEF Minds, Chain, Slots
  <1> QED
    BY <1>1, GoodStays

(* An option that has memory has the value its group holds.                *)
LEMMA KeepsFacts ==
    ASSUME Settled, NEW s, Minds(s, reloadCount), NEW v, Keeps(s, reloadCount, pointsTo, v)
    PROVE  /\ s.cache \in Chain /\ Current(s, 1, s.cache[1]) /\ s.cache[1].allocID # NoPtr
           /\ Opt \in DOMAIN s.map[TargetOf(1)] /\ Held(s, TargetOf(1))[Opt] = v
           /\ s.map[TargetOf(1)][Opt].ptr = s.cache[1].allocID
  <1>1. 1 \in Layers /\ TargetOf(1) = First(pointsTo) /\ TargetOf(1) \in AllGroups
    BY Facts, TargetFacts
  <1>2. /\ s.cache \in Chain /\ s.cache[1].g = TargetOf(1)
        /\ s.cache[1].reloadCnt = reloadCount[TargetOf(1)] /\ s.cache[1].allocID # NoPtr
        /\ Held(s, TargetOf(1))[Opt] = v
    BY <1>1 DEF Keeps
  <1>3. s.cache[1] \in Slots /\ Good(s, s.cache[1], reloadCount)
    BY <1>1, <1>2 DEF Minds, Chain, Slots
  <1>4. Opt \in DOMAIN s.map[TargetOf(1)] /\ s.map[TargetOf(1)][Opt].ptr = s.cache[1].allocID
    BY <1>2, <1>3 DEF Good
  <1> QED
    BY <1>1, <1>2, <1>3, <1>4 DEF Current

(* It keeps its value when other values are written or groups get the name.*)
LEMMA KeepsStays ==
    ASSUME NEW s, NEW t, NEW rc, NEW pt, NEW v, Keeps(s, rc, pt, v),
           t.cache \in Chain, t.cache[1] = s.cache[1],
           Held(t, First(pt))[Opt] = Held(s, First(pt))[Opt]
    PROVE  Keeps(t, rc, pt, v)
  BY DEF Keeps

LEMMA GetChainSound ==
    ASSUME Settled, NEW s, s.cache \in Chain, NEW v, Sound(s, reloadCount, pointsTo, v)
    PROVE  Sound(GetChain(s), reloadCount, pointsTo, v)
  <1> DEFINE t == GetChain(s)
  <1>1. Housed(s) /\ Minds(s, reloadCount) /\ (v # Junk => Keeps(s, reloadCount, pointsTo, v))
    BY DEF Sound
  <1>2. Got(s, t)
    BY <1>1, GetChainIs
  <1> HIDE DEF t
  <1>3. /\ Housed(t) /\ t.cache \in Chain /\ Minds(t, reloadCount)
        /\ Current(s, 1, s.cache[1]) /\ s.cache[1].allocID # NoPtr =>
              /\ t.cache[1] = s.cache[1]
              /\ \A g \in AllGroups : Held(t, g) = Held(s, g)
    BY <1>2 DEF Got
  <1>4. ASSUME v # Junk PROVE Keeps(t, reloadCount, pointsTo, v)
    <2>1. Keeps(s, reloadCount, pointsTo, v)
      BY <1>1, <1>4
    <2>2. Current(s, 1, s.cache[1]) /\ s.cache[1].allocID # NoPtr
      BY <2>1, <1>1, KeepsFacts
    <2>3. First(pointsTo) \in AllGroups
      BY Facts, TargetFacts
    <2> QED
      BY <2>1, <2>2, <2>3, <1>3, KeepsStays
  <1> QED
    BY <1>3, <1>4 DEF t, Sound, Settled

(* What the option was set to is what it reads as.                         *)
LEMMA KeepsReads ==
    ASSUME Settled, NEW s, Housed(s), Minds(s, reloadCount), NEW v, Keeps(s, reloadCount, pointsTo, v)
    PROVE  ValueOf(s) = v
  <1> DEFINE t == GetChain(s)
             h == TargetOf(1)
  <1>1. /\ s.cache \in Chain /\ Current(s, 1, s.cache[1]) /\ s.cache[1].allocID # NoPtr
        /\ Opt \in DOMAIN s.map[h] /\ Held(s, h)[Opt] = v
        /\ s.map[h][Opt].ptr = s.cache[1].allocID
    BY KeepsFacts
  <1>2. Got(s, t) /\ h \in AllGroups
    BY <1>1, GetChainIs, TargetFacts, Facts
  <1>3. ValueOf(s) = IF t.block[t.cache[Answering(s)].allocID] = <<>> THEN Junk
                     ELSE t.block[t.cache[Answering(s)].allocID][1]
    BY DEF ValueOf
  <1> HIDE DEF t, h
  <1>4. /\ Housed(t) /\ Answering(s) = 1 /\ t.cache[1] = s.cache[1]
        /\ Opt \in DOMAIN t.map[h] /\ t.map[h][Opt] = s.map[h][Opt]
        /\ Held(t, h) = Held(s, h)
    BY <1>1, <1>2 DEF Got, Grows
  <1> DEFINE b == t.map[h][Opt].ptr
  <1>5. b = s.cache[1].allocID /\ t.block[b][1] = v
    BY <1>1, <1>4, HeldFacts
  <1>6. t.block[b] # <<>>
    <2>1. b \in Blocks /\ b \notin FreeBlocks(t)
      BY <1>2, <1>4, HousedFacts
    <2> QED
      BY <2>1 DEF FreeBlocks
  <1> QED
    BY <1>3, <1>4, <1>5, <1>6

(* Groups may get a name they lack.                                        *)
Fills(s, t, n, v) ==
    \A h \in AllGroups :
        \/ Held(t, h) = Held(s, h)
        \/ n \notin DOMAIN Held(s, h) /\ Held(t, h) = With(Held(s, h), n, v)

LEMMA FillsMore ==
    ASSUME NEW s, NEW r, NEW t, NEW g, NEW n, NEW v, Fills(s, r, n, v), Filled(r, t, g, n, v)
    PROVE  Fills(s, t, n, v)
  <1> SUFFICES ASSUME NEW h \in AllGroups
               PROVE  \/ Held(t, h) = Held(s, h)
                      \/ n \notin DOMAIN Held(s, h) /\ Held(t, h) = With(Held(s, h), n, v)
    BY DEF Fills
  <1>1. \/ Held(r, h) = Held(s, h)
        \/ n \notin DOMAIN Held(s, h) /\ Held(r, h) = With(Held(s, h), n, v)
    BY DEF Fills
  <1>2. Held(t, h) = Held(r, h) \/ (n \notin DOMAIN Held(r, h) /\ Held(t, h) = With(Held(r, h), n, v))
    BY DEF Filled
  <1>3. n \in DOMAIN With(Held(s, h), n, v)
    BY DEF With
  <1> QED
    BY <1>1, <1>2, <1>3

(* Option(v) leaves the caches right, and groups may have got the option.  *)
Built(s, v) ==
    /\ Housed(s) /\ s.cache \in Chain /\ Minds(s, reloadCount)
    /\ Fills(Now, s, Opt, v)

LEMMA ConstructedIs ==
    ASSUME Settled, Housed(Now), NEW v \in Int
    PROVE  Built(ConstructedWith(v), v)
  <1> DEFINE S == {s \in States : Built(s, v)}
             E == [l \in Layers |-> l]
             empty == [Now EXCEPT !.cache = [l \in Layers |-> Cached(l, NoPtr)]]
             iter[s \in SUBSET (DOMAIN E)] ==
                 IF s = {} THEN empty ELSE Claim(iter[s \ {Max(s)}], E[Max(s)], v)
             step == [k \in Layers |-> [s \in S |-> Claim(s, k, v)]]
  <1>1. ConstructedWith(v) = iter[DOMAIN E]
    BY DEF ConstructedWith, FoldLeft, MapThenFoldSet
  <1>2. DOMAIN E = Layers /\ (\A k \in Layers : E[k] = k) /\ Layers = 1 .. Bottom /\ Bottom \in Nat
    BY Facts DEF Layers, Bottom
  <1>3. empty \in S
    <2> DEFINE d == [l \in Layers |-> Cached(l, NoPtr)]
               t == [map |-> map, block |-> block, cache |-> d]
    <2>1. empty = t
      BY DEF Now
    <2>2. \A l \in Layers : Cached(l, NoPtr) \in Slots /\ Cached(l, NoPtr).allocID = NoPtr
                            /\ Cached(l, NoPtr).reloadCnt = reloadCount[Cached(l, NoPtr).g]
      BY TargetFacts DEF Cached, Slots
    <2>3. d \in Chain /\ \A l \in Layers : d[l] = Cached(l, NoPtr)
      BY <2>2 DEF Chain, Slots
    <2> HIDE DEF d
    <2>4. t.map = Now.map /\ t.block = Now.block /\ t.cache = d /\ Now \in States
      BY DEF Now, Housed
    <2>5. t \in States
      BY <2>3, <2>4, StateFacts DEF States
    <2> HIDE DEF t
    <2>6. Housed(t) /\ \A g : Held(t, g) = Held(Now, g)
      BY <2>4, <2>5, SameMemory DEF Housed
    <2>7. Minds(t, reloadCount)
      <3>1. \A l \in Layers : reloadCount[Cached(l, NoPtr).g] \in Nat
        BY <2>2 DEF Settled, Slots
      <3>2. \A l \in Layers : Good(t, Cached(l, NoPtr), reloadCount)
        BY <2>2, <3>1 DEF Good
      <3> QED
        BY <3>2, <2>3, <2>4 DEF Minds
    <2>8. Fills(Now, t, Opt, v)
      BY <2>6 DEF Fills
    <2> QED
      BY <2>1, <2>3, <2>4, <2>5, <2>6, <2>7, <2>8 DEF Built
  <1> HIDE DEF E, empty
  <1>4. ASSUME NEW s \in S, NEW k \in Layers PROVE Claim(s, k, v) \in S
    <2>1. Housed(s) /\ s.cache \in Chain /\ Minds(s, reloadCount) /\ Fills(Now, s, Opt, v)
      BY DEF Built
    <2>2. Claimed(s, Claim(s, k, v), k, v)
      BY <2>1, ClaimIs
    <2> DEFINE t == Claim(s, k, v)
    <2>3. Claimed(s, t, k, v)
      BY <2>2
    <2> HIDE DEF t
    <2>4. /\ Housed(t) /\ t.cache \in Chain /\ Minds(t, reloadCount)
          /\ Filled(s, t, TargetOf(k), Opt, v)
      BY <2>3 DEF Claimed
    <2>5. Fills(Now, t, Opt, v) /\ t \in States
      BY <2>1, <2>4, FillsMore DEF Housed
    <2>6. t \in S
      BY <2>4, <2>5 DEF Built
    <2> QED
      BY <2>6 DEF t
  <1> HIDE DEF S
  <1>5. step \in [Layers -> [S -> S]] /\ \A k \in Layers : \A s \in S : step[k][s] = Claim(s, k, v)
    BY <1>4
  <1> HIDE DEF step
  <1> PICK n : n = Bottom
    OBVIOUS
  <1>6. n \in Nat /\ Layers = 1 .. n /\ n >= 0
    BY <1>2
  <1>7. HasFold(S, empty, step, n)
    BY <1>3, <1>5, <1>6, FoldsExist
  <1>8. PICK h \in [SUBSET (1 .. n) -> S] : FoldsLeft(h, empty, step, n)
    BY <1>7 DEF HasFold
  <1>9. \A s \in SUBSET (1 .. n) : s # {} => Max(s) \in 1 .. n
    BY <1>6, MaxIs
  <1>10. \A s \in SUBSET (1 .. n) :
            h[s] = IF s = {} THEN empty ELSE Claim(h[s \ {Max(s)}], E[Max(s)], v)
    <2> SUFFICES ASSUME NEW s \in SUBSET (1 .. n)
                 PROVE  h[s] = IF s = {} THEN empty ELSE Claim(h[s \ {Max(s)}], E[Max(s)], v)
      OBVIOUS
    <2>1. h[s] = IF s = {} THEN empty ELSE step[Max(s)][h[s \ {Max(s)}]]
      BY <1>8 DEF FoldsLeft
    <2>2. s # {} => Max(s) \in 1 .. n /\ h[s \ {Max(s)}] \in S
      BY <1>8, <1>9
    <2>3. s # {} => E[Max(s)] = Max(s)
      BY <2>2, <1>2, <1>6
    <2> QED
      BY <2>1, <2>2, <2>3, <1>5, <1>6
  <1>11. h = [s \in SUBSET (DOMAIN E) |->
                IF s = {} THEN empty ELSE Claim(h[s \ {Max(s)}], E[Max(s)], v)]
    BY <1>2, <1>6, <1>8, <1>10
  <1>12. iter = [s \in SUBSET (DOMAIN E) |->
                IF s = {} THEN empty ELSE Claim(iter[s \ {Max(s)}], E[Max(s)], v)]
    BY <1>11
  <1>13. \A s \in SUBSET (1 .. n) :
            iter[s] = IF s = {} THEN empty ELSE Claim(iter[s \ {Max(s)}], E[Max(s)], v)
    BY <1>12, <1>2, <1>6
  <1> HIDE DEF iter
  <1>14. iter[1 .. 0] = empty
    <2>1. {} \in SUBSET (1 .. n) /\ 1 .. 0 = {}
      OBVIOUS
    <2> QED
      BY <2>1, <1>13
  <1>15. ASSUME NEW k \in 1 .. n PROVE iter[1 .. k] = Claim(iter[1 .. k - 1], k, v)
    <2>1. k \in Nat \ {0} /\ 1 .. k \in SUBSET (1 .. n) /\ 1 .. k # {}
      <3>1. k \in Nat \ {0} /\ k \in 1 .. k /\ \A j \in 1 .. k : j \in 1 .. n
        BY <1>6
      <3> QED
        BY <3>1
    <2>2. Max(1 .. k) = k /\ (1 .. k) \ {k} = 1 .. k - 1 /\ E[k] = k
      BY <2>1, <1>2, <1>6, MaxOfFirst
    <2> QED
      BY <2>1, <2>2, <1>13
  <1> DEFINE T == {k \in Nat : k <= n => iter[1 .. k] \in S}
  <1>16. 0 \in T
    BY <1>3, <1>14
  <1>17. ASSUME NEW k \in Nat, k \in T PROVE k + 1 \in T
    <2> SUFFICES ASSUME k + 1 <= n PROVE iter[1 .. k + 1] \in S
      OBVIOUS
    <2>1. k + 1 \in 1 .. n /\ k <= n /\ (k + 1) - 1 = k
      BY <1>6
    <2>2. iter[1 .. k] \in S
      BY <2>1, <1>17
    <2>3. iter[1 .. k + 1] = Claim(iter[1 .. k], k + 1, v)
      BY <2>1, <1>15
    <2> QED
      BY <2>1, <2>2, <2>3, <1>4, <1>6
  <1>18. iter[1 .. n] \in S
    <2>1. n \in T
      <3> HIDE DEF T
      <3> QED
        BY <1>6, <1>16, <1>17, Inductive
    <2> QED
      BY <2>1, <1>6
  <1>19. ConstructedWith(v) \in S
    BY <1>1, <1>2, <1>6, <1>18
  <1> QED
    BY <1>19 DEF S

-----------------------------------------------------------------------------
(* The steps                                                               *)

LEMMA InvFacts ==
    ASSUME SettingsInv
    PROVE  /\ Now \in States /\ Housed(Now) /\ Settled
           /\ Now.map = map /\ Now.block = block /\ Now.cache = cache
           /\ Minds(Now, reloadCount)
           /\ Sound(Now, reloadCount, pointsTo, mine)
           /\ cache # <<>> => Now.cache \in Chain
           /\ FileIs(buf, pos, saved, read)
  <1>1. Sound(Now, reloadCount, pointsTo, mine) /\ FileIs(buf, pos, saved, read)
    BY DEF SettingsInv
  <1>2. /\ Housed(Now) /\ Settled /\ Minds(Now, reloadCount)
    BY <1>1 DEF Sound, Settled
  <1>3. Now.map = map /\ Now.block = block /\ Now.cache = cache
    BY DEF Now
  <1>4. Now \in States
    BY <1>2 DEF Housed
  <1>5. cache # <<>> => Now.cache \in Chain
    BY <1>3, <1>4, StateFacts
  <1> QED
    BY <1>1, <1>2, <1>3, <1>4, <1>5

LEMMA NowIs ==
    ASSUME NEW t \in States, Become(t)
    PROVE  Now' = t /\ \A g : Held(Now, g)' = Held(t, g)
  <1>1. t = [map |-> t.map, block |-> t.block, cache |-> t.cache]
    BY StateFacts
  <1>2. Now' = t
    BY <1>1 DEF Now, Become
  <1> QED
    BY <1>2

(* Nothing else is set, and others may get the name with the default.      *)
Stores(s, t, g, n, v) ==
    /\ Held(t, g) = With(Held(s, g), n, v)
    /\ \A h \in AllGroups \ {g} :
          \/ Held(t, h) = Held(s, h)
          \/ n \notin DOMAIN Held(s, h) /\ Held(t, h) = With(Held(s, h), n, 0)

LEMMA OverOne ==
    ASSUME NEW f, NEW n, NEW v
    PROVE  Store!Over(Store!One(n, v), f) = With(f, n, v)
  BY DEF Store!Over, Store!One, With

LEMMA StoreFills ==
    ASSUME NEW t \in States, Become(t), NEW n \in OptionNames, NEW v \in 0 .. MaxValue,
           Fills(Now, t, n, v), UNCHANGED <<saved, read>>
    PROVE  Store!StoreNext
  <1>1. \A g \in AllGroups : Held(Now, g)' = Held(t, g)
    BY NowIs
  <1>2. \A g \in AllGroups : With(Held(Now, g), n, v) = Store!Over(Store!One(n, v), Held(Now, g))
    BY OverOne
  <1>3. Store!Fill(n, v)
    BY <1>1, <1>2 DEF Fills, Store!Fill, Store!Gains
  <1> QED
    BY <1>3 DEF Store!StoreNext

LEMMA StorePuts ==
    ASSUME NEW t \in States, Become(t), NEW g \in AllGroups, NEW n \in OptionNames,
           NEW v \in 0 .. MaxValue, Stores(Now, t, g, n, v), UNCHANGED <<saved, read>>
    PROVE  Store!StoreNext
  <1>1. \A h \in AllGroups : Held(Now, h)' = Held(t, h)
    BY NowIs
  <1>2. \A h, u : With(Held(Now, h), n, u) = Store!Over(Store!One(n, u), Held(Now, h))
    BY OverOne
  <1>3. Store!Put(g, n, v)
    BY <1>1, <1>2 DEF Stores, Store!Put, Store!Gains
  <1> QED
    BY <1>3 DEF Store!StoreNext

LEMMA StoreStays ==
    ASSUME NEW t \in States, Become(t), \A g \in AllGroups : Held(t, g) = Held(Now, g),
           UNCHANGED <<saved, read>>
    PROVE  UNCHANGED Store!storeVars
  <1>1. \A g \in AllGroups : Held(Now, g)' = Held(Now, g)
    BY NowIs
  <1> QED
    BY <1>1 DEF Store!storeVars

Implements == Store!StoreNext \/ UNCHANGED Store!storeVars

LEMMA ValuesAre == /\ 0 \in 0 .. MaxValue /\ \A v \in 0 .. MaxValue : v \in Int
                   /\ \A v \in 1 .. MaxValue : v \in 0 .. MaxValue
  BY Facts

LEMMA FilledFills ==
    ASSUME NEW s, NEW t, NEW g, NEW n, NEW v, Filled(s, t, g, n, v)
    PROVE  Fills(s, t, n, v)
  BY DEF Fills, Filled

LEMMA RoomIs ==
    ASSUME NEW n \in Nat, Room(n), n >= 1
    PROVE  FreeBlocks(Now) # {}
  <1>1. Cardinality(FreeBlocks(Now)) >= 1
    BY FreeFacts DEF Room
  <1> QED
    BY <1>1, FreeFacts

LEMMA StepConstruct ==
    ASSUME SettingsInv, NEW v \in 0 .. MaxValue, Construct(v)
    PROVE  SettingsInv' /\ Implements
  <1> DEFINE t == ConstructedWith(v)
  <1>1. /\ Become(t) /\ mine' = Junk
        /\ UNCHANGED <<buf, pos, saved, read, reloadCount, pointsTo>>
    BY DEF Construct, FilesStay
  <1>2. Built(t, v)
    BY InvFacts, ConstructedIs, ValuesAre
  <1> HIDE DEF t
  <1>3. Housed(t) /\ Minds(t, reloadCount) /\ Fills(Now, t, Opt, v) /\ t \in States
    BY <1>2 DEF Built, Housed
  <1>4. Sound(t, reloadCount, pointsTo, Junk)
    BY <1>3, InvFacts DEF Sound, Settled
  <1>5. SettingsInv'
    BY <1>1, <1>3, <1>4, InvFacts, InvAfter
  <1>6. Store!StoreNext
    BY <1>1, <1>3, StoreFills, Facts
  <1> QED
    BY <1>5, <1>6 DEF Implements

LEMMA StepConstructDefault ==
    ASSUME SettingsInv, ConstructDefault
    PROVE  SettingsInv' /\ Implements
  <1> DEFINE c(l) == [g |-> TargetOf(l), allocID |-> NoPtr, reloadCnt |-> 0]
             d == [l \in Layers |-> c(l)]
             t == [map |-> map, block |-> block, cache |-> d]
  <1>1. /\ cache' = d /\ cache = <<>>
        /\ UNCHANGED <<buf, pos, saved, read, reloadCount, pointsTo, mine, map, block>>
    BY DEF ConstructDefault, FilesStay
  <1>2. \A l \in Layers : /\ c(l) \in Slots /\ c(l).allocID = NoPtr /\ c(l).reloadCnt = 0
                          /\ reloadCount[c(l).g] \in Nat
    BY InvFacts, TargetFacts DEF Slots
  <1>3. d \in Chain /\ \A l \in Layers : d[l] = c(l)
    BY <1>2 DEF Chain, Slots
  <1>4. \A s : \A l \in Layers : Good(s, c(l), reloadCount)
    <2> HIDE DEF c
    <2> QED
      BY <1>2 DEF Good
  <1> HIDE DEF d, c
  <1>5. t.map = Now.map /\ t.block = Now.block /\ t.cache = d /\ Now \in States
    BY InvFacts
  <1>6. t \in States
    BY <1>3, <1>5, StateFacts DEF States
  <1>7. Become(t)
    BY <1>1 DEF Become
  <1> HIDE DEF t
  <1>8. Housed(t) /\ \A g : Held(t, g) = Held(Now, g)
    BY <1>5, <1>6, InvFacts, SameMemory DEF Housed
  <1>9. Minds(t, reloadCount)
    BY <1>3, <1>4, <1>5 DEF Minds
  <1>10. mine = Junk
    <2> SUFFICES ASSUME mine # Junk PROVE FALSE
      OBVIOUS
    <2>1. cache \in Chain
      BY InvFacts DEF Sound, Keeps
    <2>2. DOMAIN cache = Layers /\ DOMAIN cache = {}
      BY <2>1, <1>1 DEF Chain
    <2> QED
      BY <2>2, Facts
  <1>11. Sound(t, reloadCount, pointsTo, mine)
    BY <1>8, <1>9, <1>10, InvFacts DEF Sound, Settled
  <1>12. SettingsInv'
    BY <1>1, <1>6, <1>7, <1>11, InvFacts, InvAfter
  <1>13. UNCHANGED Store!storeVars
    BY <1>1, <1>6, <1>7, <1>8, StoreStays
  <1> QED
    BY <1>12, <1>13 DEF Implements

LEMMA StepGet ==
    ASSUME SettingsInv, GetOption
    PROVE  SettingsInv' /\ Implements
  <1> DEFINE t == GetChain(Now)
  <1>1. /\ Become(t) /\ cache # <<>>
        /\ UNCHANGED <<buf, pos, saved, read, reloadCount, pointsTo, mine>>
    BY DEF GetOption, FilesStay
  <1>2. Got(Now, t) /\ Sound(t, reloadCount, pointsTo, mine)
    BY <1>1, InvFacts, GetChainIs, GetChainSound
  <1> HIDE DEF t
  <1>3. Filled(Now, t, Global, Opt, 0) /\ t \in States
    BY <1>2 DEF Got, Housed
  <1>4. SettingsInv'
    BY <1>1, <1>2, <1>3, InvFacts, InvAfter
  <1>5. Store!StoreNext
    BY <1>1, <1>3, StoreFills, FilledFills, Facts, ValuesAre
  <1> QED
    BY <1>4, <1>5 DEF Implements

LEMMA StepSet ==
    ASSUME SettingsInv, NEW v \in 0 .. MaxValue, SetOption(v)
    PROVE  SettingsInv' /\ Implements
  <1> DEFINE t == SetChain(Now, v)
  <1>1. /\ Become(t) /\ cache # <<>> /\ mine' = v /\ Room(1)
        /\ UNCHANGED <<buf, pos, saved, read, reloadCount, pointsTo>>
    BY DEF SetOption, FilesStay
  <1>2. FreeBlocks(Now) # {}
    BY <1>1, RoomIs
  <1>3. Sound(t, reloadCount, pointsTo, v) /\ Sets(Now, t, TargetOf(1), Opt, v)
    BY <1>1, <1>2, InvFacts, ValuesAre, SetChainIs
  <1> HIDE DEF t
  <1>4. t \in States
    BY <1>3 DEF Sound, Housed
  <1>5. Stores(Now, t, TargetOf(1), Opt, v) /\ TargetOf(1) \in AllGroups
    BY <1>3, InvFacts, TargetFacts, Facts DEF Sets, Stores
  <1>6. SettingsInv'
    BY <1>1, <1>3, <1>4, InvFacts, InvAfter
  <1>7. Store!StoreNext
    BY <1>1, <1>4, <1>5, StorePuts, Facts
  <1> QED
    BY <1>6, <1>7 DEF Implements

LEMMA StepAdd ==
    ASSUME SettingsInv, AddToOption
    PROVE  SettingsInv' /\ Implements
  <1> DEFINE r == GetChain(Now)
             v == ValueOf(Now) + 1
             t == SetChain(r, v)
             h == TargetOf(1)
  <1>1. /\ Become(t) /\ cache # <<>> /\ mine' = v /\ Room(2) /\ ValueOf(Now) \in 0 .. MaxValue - 1
        /\ UNCHANGED <<buf, pos, saved, read, reloadCount, pointsTo>>
    BY DEF AddToOption, FilesStay
  <1>2. v \in 0 .. MaxValue /\ v \in Int
    BY <1>1, Facts
  <1>3. Got(Now, r) /\ h \in AllGroups
    BY <1>1, InvFacts, GetChainIs, TargetFacts, Facts
  <1> HIDE DEF r, v
  <1>4. /\ Housed(r) /\ r.cache \in Chain /\ Minds(r, reloadCount)
        /\ Filled(Now, r, Global, Opt, 0) /\ Spends(Now, r)
    BY <1>3 DEF Got
  <1>5. FreeBlocks(r) # {}
    <2>1. Cardinality(FreeBlocks(r)) >= 1
      BY <1>1, <1>4, FreeFacts DEF Room, Spends
    <2> QED
      BY <2>1, FreeFacts
  <1>6. Sound(t, reloadCount, pointsTo, v) /\ Sets(r, t, h, Opt, v)
    BY <1>2, <1>4, <1>5, InvFacts, SetChainIs
  <1> HIDE DEF t, h
  <1>7. t \in States
    BY <1>6 DEF Sound, Housed
  <1>8. Stores(Now, t, h, Opt, v)
    <2>1. CASE h = Global
      <3>1. Sets(Now, t, h, Opt, v)
        BY <2>1, <1>4, <1>6, FilledThenSet
      <3> QED
        BY <3>1 DEF Sets, Stores
    <2>2. CASE h # Global
      BY <2>2, <1>3, <1>4, <1>6, Facts DEF Filled, Sets, Stores
    <2> QED
      BY <2>1, <2>2
  <1>9. SettingsInv'
    BY <1>1, <1>6, <1>7, InvFacts, InvAfter
  <1>10. Store!StoreNext
    BY <1>1, <1>2, <1>3, <1>7, <1>8, StorePuts, Facts
  <1> QED
    BY <1>9, <1>10 DEF Implements

(* A layer keeps the option while its group does.                          *)
LEMMA SoundStays ==
    ASSUME NEW s, NEW t, NEW rc, NEW pt, NEW m, NEW v, Sound(s, rc, pt, m), Housed(t),
           t.cache = s.cache, Grows(s, t), v = m \/ v = Junk,
           v # Junk => Held(t, First(pt))[Opt] = Held(s, First(pt))[Opt]
    PROVE  Sound(t, rc, pt, v)
  <1>1. /\ rc \in [AllGroups -> Nat] /\ pt \in [1 .. NumPtrs -> Groups] /\ Minds(s, rc)
        /\ m # Junk => Keeps(s, rc, pt, m)
    BY DEF Sound
  <1>2. Minds(t, rc)
    BY <1>1, MindsStays
  <1>3. v # Junk => Keeps(t, rc, pt, v)
    BY <1>1 DEF Keeps
  <1> QED
    BY <1>1, <1>2, <1>3 DEF Sound

LEMMA StepSetRuntime ==
    ASSUME SettingsInv, NEW g \in AllGroups, NEW n \in OptionNames, NEW v \in 1 .. MaxValue,
           SetRuntime(g, n, v)
    PROVE  SettingsInv' /\ Implements
  <1> DEFINE r == ReserveOption(Now, g, n, 0)
             t == RegisterOption(Now, g, n, v)
             m == IF n = Opt THEN Junk ELSE mine
             h == First(pointsTo)
  <1>1. /\ Become(t) /\ mine' = m /\ Room(1)
        /\ UNCHANGED <<buf, pos, saved, read, reloadCount, pointsTo>>
    BY DEF SetRuntime, FilesStay
  <1>2. FreeBlocks(Now) # {} /\ v \in 0 .. MaxValue /\ v \in Int /\ h \in AllGroups
    <2>1. FreeBlocks(Now) # {}
      BY <1>1, RoomIs
    <2>2. h \in AllGroups
      BY InvFacts, TargetFacts, Facts
    <2> QED
      BY <2>1, <2>2, ValuesAre
  <1>3. Reserved(Now, r, g, n, 0)
    BY InvFacts, ReserveIs
  <1>4. t = WriteBlock(r, TryGetAlloc(r, g, n), Data(v))
    BY DEF RegisterOption
  <1> HIDE DEF r, t, h
  <1>5. /\ Housed(r) /\ r.cache = Now.cache /\ Grows(Now, r) /\ Filled(Now, r, g, n, 0)
        /\ n \in DOMAIN r.map[g]
    BY <1>2, <1>3 DEF Reserved
  <1>6. Writes(r, t, g, n, v)
    <2>1. Writes(r, WriteBlock(r, r.map[g][n].ptr, Data(v)), g, n, v)
      BY <1>2, <1>5, WriteIs
    <2> QED
      BY <2>1, <1>4, <1>5 DEF TryGetAlloc
  <1>7. /\ Housed(t) /\ t.map = r.map /\ t.cache = r.cache /\ t \in States
        /\ Sets(r, t, g, n, v)
    BY <1>6 DEF Writes, Sets, Housed
  <1>8. Sets(Now, t, g, n, v)
    BY <1>5, <1>7, FilledThenSet
  <1>9. Grows(Now, t) /\ t.cache = Now.cache
    BY <1>5, <1>7 DEF Grows
  <1>10. m # Junk => Held(t, h)[Opt] = Held(Now, h)[Opt]
    <2> SUFFICES ASSUME n # Opt, mine # Junk PROVE Held(t, h)[Opt] = Held(Now, h)[Opt]
      OBVIOUS
    <2>1. Opt \in DOMAIN Held(Now, h)
      BY InvFacts, KeepsFacts, TargetFacts, Facts, HeldFacts DEF Sound, h
    <2> QED
      BY <2>1, <1>2, <1>8 DEF Sets, With
  <1>11. Sound(t, reloadCount, pointsTo, m)
    <2>1. m = mine \/ m = Junk
      OBVIOUS
    <2> HIDE DEF m
    <2> QED
      BY <2>1, <1>7, <1>9, <1>10, InvFacts, SoundStays DEF h
  <1> HIDE DEF m
  <1>12. SettingsInv'
    BY <1>1, <1>7, <1>11, InvFacts, InvAfter
  <1>13. Stores(Now, t, g, n, v)
    BY <1>8 DEF Sets, Stores
  <1>14. Store!StoreNext
    BY <1>1, <1>2, <1>7, <1>13, StorePuts
  <1> QED
    BY <1>12, <1>14 DEF Implements

LEMMA StepGetRuntime ==
    ASSUME SettingsInv, NEW g \in AllGroups, GetRuntime(g, Opt)
    PROVE  SettingsInv' /\ Implements
  <1> DEFINE t == ReserveOption(Now, g, Opt, 0)
             h == First(pointsTo)
  <1>1. /\ Become(t) /\ mine' = mine
        /\ UNCHANGED <<buf, pos, saved, read, reloadCount, pointsTo>>
    BY DEF GetRuntime, FilesStay
  <1>2. Reserved(Now, t, g, Opt, 0)
    BY InvFacts, ReserveIs, Facts
  <1> HIDE DEF t, h
  <1>3. /\ Housed(t) /\ t.cache = Now.cache /\ Grows(Now, t) /\ Filled(Now, t, g, Opt, 0)
        /\ t \in States
    BY <1>2 DEF Reserved, Housed
  <1>4. mine # Junk => Held(t, h)[Opt] = Held(Now, h)[Opt]
    <2> SUFFICES ASSUME mine # Junk PROVE Held(t, h)[Opt] = Held(Now, h)[Opt]
      OBVIOUS
    <2>1. Opt \in DOMAIN Held(Now, h) /\ h \in AllGroups
      BY InvFacts, KeepsFacts, TargetFacts, Facts, HeldFacts DEF Sound, h
    <2> QED
      BY <2>1, <1>3 DEF Filled
  <1>5. Sound(t, reloadCount, pointsTo, mine)
    BY <1>3, <1>4, InvFacts, SoundStays DEF h
  <1>6. SettingsInv'
    BY <1>1, <1>3, <1>5, InvFacts, InvAfter
  <1>7. Store!StoreNext
    BY <1>1, <1>3, StoreFills, FilledFills, Facts, ValuesAre
  <1> QED
    BY <1>6, <1>7 DEF Implements

LEMMA StepSwitch ==
    ASSUME SettingsInv, NEW l \in 1 .. NumPtrs, NEW g \in Groups, SwitchGroup(l, g)
    PROVE  SettingsInv' /\ Implements
  <1> DEFINE p == [pointsTo EXCEPT ![l] = g]
  <1>1. /\ pointsTo' = p /\ mine' = Junk
        /\ UNCHANGED <<map, block, cache, buf, pos, saved, read, reloadCount>>
    BY DEF SwitchGroup, FilesStay
  <1>2. Become(Now)
    BY <1>1, InvFacts DEF Become
  <1>3. Sound(Now, reloadCount, p, Junk)
    BY InvFacts DEF Sound, Settled
  <1> HIDE DEF p
  <1>4. SettingsInv'
    BY <1>1, <1>2, <1>3, InvFacts, InvAfter
  <1>5. UNCHANGED Store!storeVars
    BY <1>1, <1>2, InvFacts, StoreStays
  <1> QED
    BY <1>4, <1>5 DEF Implements

LEMMA StepSerialize ==
    ASSUME SettingsInv, NEW g \in AllGroups, NEW order \in SetToSeqs(DOMAIN map[g]),
           Serialize(g, order)
    PROVE  SettingsInv' /\ Implements
  <1> DEFINE B == Bytes(g, order)
             C == Held(Now, g)
  <1>1. /\ buf' = buf \o <<Magic, Len(buf) + 2 + Len(B)>> \o B
        /\ saved' = Append(saved, C)
        /\ UNCHANGED <<map, block, cache, reloadCount, pointsTo, pos, read, mine>>
    BY DEF Serialize
  <1>2. PICK E \in Seq(EntryRecords) :
            IsContent(E, C) /\ IsFlat(Things, B, [k \in 1 .. Len(E) |-> Written(E[k])])
    BY InvFacts, BytesAre
  <1>3. Become(Now) /\ C \in Contents
    BY <1>1, <1>2, InvFacts DEF Become, IsContent
  <1> HIDE DEF B, C
  <1>4. FileIs(buf \o <<Magic, Len(buf) + 2 + Len(B)>> \o B, pos, Append(saved, C), read)
    BY <1>2, <1>3, InvFacts, FileGrows
  <1>5. FileIs(buf', pos', saved', read')
    BY <1>1, <1>4
  <1>6. SettingsInv'
    BY <1>1, <1>3, <1>5, InvFacts, InvAfter
  <1>7. Store!Save(g)
    <2>1. \A h \in AllGroups : Held(Now, h)' = Held(Now, h)
      BY <1>3, InvFacts, NowIs
    <2> QED
      BY <2>1, <1>1 DEF Store!Save, C
  <1>8. Store!StoreNext
    BY <1>7 DEF Store!StoreNext
  <1> QED
    BY <1>6, <1>8 DEF Implements

(* What Initialize reads is put over what the group held.                  *)
LEMMA InitializedIs ==
    ASSUME SettingsInv, NEW g \in AllGroups, pos < Len(buf), Room(Len(Entries(pos)))
    PROVE  /\ Housed(Initialized(g, pos)) /\ Initialized(g, pos).cache = cache
           /\ \A h \in AllGroups : h # g => Initialized(g, pos).map[h] = map[h]
           /\ FileIs(buf, buf[pos + 2], saved, read + 1)
           /\ (Become(Initialized(g, pos)) /\ saved' = saved /\ read' = read + 1) => Store!StoreNext
  <1> DEFINE t == Initialized(g, pos)
             C == saved[read + 1]
  <1>1. /\ read < Len(saved) /\ C \in Contents
        /\ FileIs(buf, buf[pos + 2], saved, read + 1)
        /\ \E E \in Seq(EntryRecords) : Entries(pos) = E /\ IsContent(E, C)
    BY InvFacts, FileIsRead
  <1>2. PICK E \in Seq(EntryRecords) : Entries(pos) = E /\ IsContent(E, C)
    BY <1>1
  <1>3. PICK f : LoadsAll(f, g, E) /\ t = f[Len(E)]
    BY <1>2, InvFacts, InitializedLoads
  <1> HIDE DEF t, C
  <1>4. LoadedTo(t, g, E, C, Len(E))
    <2>1. Cardinality(FreeBlocks(Now)) >= Len(E)
      BY <1>2 DEF Room
    <2> QED
      BY <2>1, <1>2, <1>3, InvFacts, LoadedIs
  <1>5. /\ Housed(t) /\ t.cache = cache
        /\ \A h \in AllGroups : h # g => t.map[h] = map[h] /\ Held(t, h) = Held(Now, h)
        /\ DOMAIN Held(t, g) = DOMAIN Held(Now, g) \union NamesTo(E, Len(E))
        /\ \A m \in DOMAIN Held(t, g) :
              Held(t, g)[m] = IF m \in NamesTo(E, Len(E)) THEN C[m] ELSE Held(Now, g)[m]
    BY <1>4 DEF LoadedTo
  <1>6. DOMAIN C = NamesTo(E, Len(E))
    BY <1>2 DEF IsContent
  <1>7. Held(t, g) = Store!Over(C, Held(Now, g))
    <2>1. Held(t, g) = [m \in DOMAIN Held(t, g) |-> Held(t, g)[m]]
      BY HeldFacts
    <2> QED
      BY <2>1, <1>5, <1>6 DEF Store!Over
  <1>8. ASSUME Become(t), saved' = saved, read' = read + 1 PROVE Store!StoreNext
    <2>1. \A h \in AllGroups : Held(Now, h)' = Held(t, h)
      BY <1>5, <1>8, NowIs DEF Housed
    <2>2. Store!Load(g)
      <3> DEFINE now == [h \in AllGroups |-> Held(Now, h)]
      <3>1. now' = [now EXCEPT ![g] = Store!Over(C, now[g])]
        BY <2>1, <1>5, <1>7
      <3> QED
        BY <3>1, <1>1, <1>8 DEF Store!Load, C
    <2> QED
      BY <2>2 DEF Store!StoreNext
  <1> QED
    BY <1>1, <1>5, <1>8 DEF t

LEMMA StepInitialize ==
    ASSUME SettingsInv, NEW g \in AllGroups, Initialize(g)
    PROVE  SettingsInv' /\ Implements
  <1> DEFINE t == Initialized(g, pos)
             rc == [reloadCount EXCEPT ![g] = @ + 1]
  <1>1. /\ Become(t) /\ reloadCount' = rc /\ mine' = Junk /\ pos < Len(buf) /\ Room(Len(Entries(pos)))
        /\ pos' = buf[pos + 2] /\ read' = read + 1
        /\ UNCHANGED <<buf, saved, pointsTo>>
    BY DEF Initialize, Reloaded
  <1>2. /\ Housed(t) /\ t.cache = cache /\ \A h \in AllGroups : h # g => t.map[h] = map[h]
        /\ FileIs(buf, buf[pos + 2], saved, read + 1) /\ Store!StoreNext
    BY <1>1, InitializedIs
  <1> HIDE DEF t
  <1>3. /\ rc \in [AllGroups -> Nat] /\ rc[g] = reloadCount[g] + 1
        /\ \A h \in AllGroups : h # g => rc[h] = reloadCount[h]
        /\ reloadCount[g] \in Nat
    BY InvFacts DEF Settled
  <1> HIDE DEF rc
  <1>4. Minds(t, rc)
    <2> SUFFICES ASSUME t.cache \in Chain, NEW l \in Layers PROVE Good(t, t.cache[l], rc)
      BY DEF Minds
    <2> DEFINE c == t.cache[l]
    <2>1. c \in Slots /\ Good(Now, c, reloadCount) /\ c.g \in AllGroups /\ c.reloadCnt \in Nat
      BY <1>2, InvFacts DEF Minds, Chain, Slots
    <2> HIDE DEF c
    <2>2. CASE c.g = g
      <3>1. c.reloadCnt <= reloadCount[g]
        BY <2>1, <2>2 DEF Good
      <3>2. c.reloadCnt <= rc[g] /\ c.reloadCnt # rc[g]
        BY <3>1, <2>1, <1>3
      <3> QED
        BY <3>2, <2>2 DEF Good, c
    <2>3. CASE c.g # g
      <3>1. t.map[c.g] = Now.map[c.g] /\ rc[c.g] = reloadCount[c.g]
        BY <2>1, <2>3, <1>2, <1>3, InvFacts
      <3> QED
        BY <3>1, <2>1 DEF Good, c
    <2> QED
      BY <2>2, <2>3
  <1>5. Sound(t, rc, pointsTo, Junk)
    BY <1>2, <1>3, <1>4, InvFacts DEF Sound, Settled
  <1>6. SettingsInv'
    BY <1>1, <1>2, <1>5, InvAfter DEF Housed
  <1> QED
    BY <1>2, <1>6 DEF Implements

LEMMA StepInitializeNew ==
    ASSUME SettingsInv, NEW g \in AllGroups, InitializeNew(g)
    PROVE  SettingsInv' /\ Implements
  <1> DEFINE t == Initialized(g, pos)
  <1>1. /\ Become(t) /\ mine' = Junk /\ pos < Len(buf) /\ Room(Len(Entries(pos)))
        /\ pos' = buf[pos + 2] /\ read' = read + 1 /\ map[g] = NoEntries
        /\ UNCHANGED <<buf, saved, pointsTo, reloadCount>>
    BY DEF InitializeNew
  <1>2. /\ Housed(t) /\ t.cache = cache /\ \A h \in AllGroups : h # g => t.map[h] = map[h]
        /\ FileIs(buf, buf[pos + 2], saved, read + 1) /\ Store!StoreNext
    BY <1>1, InitializedIs
  <1> HIDE DEF t
  <1>3. Minds(t, reloadCount)
    <2> SUFFICES ASSUME t.cache \in Chain, NEW l \in Layers PROVE Good(t, t.cache[l], reloadCount)
      BY DEF Minds
    <2> DEFINE c == t.cache[l]
    <2>1. c \in Slots /\ Good(Now, c, reloadCount) /\ c.g \in AllGroups
      BY <1>2, InvFacts DEF Minds, Chain, Slots
    <2> HIDE DEF c
    <2>2. CASE c.g = g
      <3>1. Opt \notin DOMAIN Now.map[g]
        BY <1>1, InvFacts DEF NoEntries
      <3> QED
        BY <3>1, <2>1, <2>2 DEF Good, c
    <2>3. CASE c.g # g
      <3>1. t.map[c.g] = Now.map[c.g]
        BY <2>1, <2>3, <1>2, InvFacts
      <3> QED
        BY <3>1, <2>1 DEF Good, c
    <2> QED
      BY <2>2, <2>3
  <1>4. Sound(t, reloadCount, pointsTo, Junk)
    BY <1>2, <1>3, InvFacts DEF Sound, Settled
  <1>5. SettingsInv'
    BY <1>1, <1>2, <1>4, InvAfter DEF Housed
  <1> QED
    BY <1>2, <1>5 DEF Implements

LEMMA FirstFile ==
    /\ SettingsInit => FileIs(buf, pos, saved, read)
    /\ SettingsInit => saved \in Seq(Store!Contents)
  <1> SUFFICES ASSUME SettingsInit PROVE FileIs(buf, pos, saved, read) /\ saved \in Seq(Store!Contents)
    OBVIOUS
  <1> DEFINE e == [crc |-> Other, data |-> <<1, 1>>]
             E == <<e>>
             C == With(NoEntries, Other, 1)
             at == [k \in 0 .. 1 |-> 6 * k]
             ends == [k \in 0 .. 1 |-> 2 + 4 * k]
  <1>1. /\ buf \in Seq(Things) /\ Len(buf) = 6
        /\ buf[1] = Magic /\ buf[2] = 6 /\ buf[3] = 2 /\ buf[4] = Other /\ buf[5] = 1 /\ buf[6] = 1
        /\ pos = 0 /\ read = 0 /\ saved = <<C>>
    <2> DEFINE a == <<Magic, 6, 2, Other>>
               b == <<1, 1>>
    <2>1. buf = a \o b /\ pos = 0 /\ read = 0 /\ saved = <<C>>
      BY DEF SettingsInit, WideData
    <2>2. /\ a \in Seq(Things) /\ Len(a) = 4 /\ b \in Seq(Things) /\ Len(b) = 2
          /\ a[1] = Magic /\ a[2] = 6 /\ a[3] = 2 /\ a[4] = Other /\ b[1] = 1 /\ b[2] = 1
      BY Facts
    <2> HIDE DEF a, b, C
    <2>3. IsJoin(buf, a, b) /\ buf \in Seq(Things)
      BY <2>1, <2>2, JoinIs, Joined
    <2>4. /\ Len(buf) = 6
          /\ \A j \in 1 .. 4 : buf[j] = a[j]
          /\ \A j \in 1 .. 2 : buf[4 + j] = b[j]
      BY <2>2, <2>3 DEF IsJoin
    <2>5. /\ buf[1] = a[1] /\ buf[2] = a[2] /\ buf[3] = a[3] /\ buf[4] = a[4]
          /\ buf[4 + 1] = b[1] /\ buf[4 + 2] = b[2]
      BY <2>4
    <2> QED
      BY <2>1, <2>2, <2>3, <2>4, <2>5
  <1>2. e \in EntryRecords /\ e.crc = Other /\ e.data = <<1, 1>> /\ Len(e.data) = 2
    <2>1. Other \in OptionNames /\ <<1, 1>> \in Seq(Things) /\ Len(<<1, 1>>) = 2
      BY Facts
    <2>2. e \in [crc : OptionNames, data : Seq(Things)] /\ e.crc = Other /\ e.data = <<1, 1>>
      BY <2>1
    <2> HIDE DEF e
    <2>3. Len(e.data) >= 1
      BY <2>1, <2>2
    <2> QED
      BY <2>1, <2>2, <2>3 DEF EntryRecords
  <1> HIDE DEF e
  <1>3. E \in Seq(EntryRecords) /\ Len(E) = 1 /\ E[1] = e
    BY <1>2
  <1> HIDE DEF E
  <1>4. C = [n \in {Other} |-> 1]
    BY DEF With, NoEntries
  <1>5. IsContent(E, C) /\ C \in Contents /\ C \in Store!Contents
    <2>1. 1 .. 1 = {1} /\ NamesTo(E, 1) = {Other}
      BY <1>2, <1>3 DEF NamesTo
    <2>2. {Other} \in SUBSET OptionNames /\ 1 \in Things /\ 1 \in 0 .. MaxValue
      BY Facts
    <2>3. C \in [{Other} -> Things] /\ C \in [{Other} -> 0 .. MaxValue]
      BY <2>2, <1>4
    <2>4. C \in Contents /\ C \in Store!Contents
      BY <2>2, <2>3 DEF Contents, Store!Contents
    <2>5. DOMAIN C = {Other} /\ C[Other] = 1
      BY <1>4
    <2>6. E[1].crc = Other /\ E[1].data[1] = 1
      BY <1>2, <1>3
    <2>7. \A k \in 1 .. Len(E) : C[E[k].crc] = E[k].data[1]
      BY <2>1, <2>5, <2>6, <1>3
    <2> HIDE DEF C
    <2> QED
      BY <2>1, <2>4, <2>5, <2>7, <1>3 DEF IsContent
  <1> HIDE DEF C
  <1>6. buf \in Seq(Things) /\ Len(buf) = 6
    BY <1>1
  <1>7. Spells(buf, 2, 6, E)
    <2>1. ends \in [0 .. 1 -> Nat] /\ ends[0] = 2 /\ ends[1] = 6
      OBVIOUS
    <2> HIDE DEF ends
    <2>2. SpelledAt(buf, 2, e)
      <3>1. \A j \in 1 .. 2 : j = 1 \/ j = 2
        OBVIOUS
      <3> QED
        BY <3>1, <1>1, <1>2, <1>6 DEF SpelledAt
    <2>3. \A k \in 1 .. 1 : k = 1
      OBVIOUS
    <2>4. SpelledBy(ends, buf, E)
      <3>1. SpelledAt(buf, ends[0], E[1]) /\ ends[1] = ends[0] + 2 + Len(E[1].data)
        <4>1. E[1] = e /\ Len(e.data) = 2 /\ ends[0] = 2 /\ ends[1] = 6
          BY <2>1, <1>2, <1>3
        <4>2. 6 = 2 + 2 + 2
          OBVIOUS
        <4> QED
          BY <4>1, <4>2, <2>2
      <3>2. \A k \in 1 .. 1 : k - 1 = 0
        OBVIOUS
      <3>3. \A k \in 1 .. Len(E) :
                SpelledAt(buf, ends[k - 1], E[k]) /\ ends[k] = ends[k - 1] + 2 + Len(E[k].data)
        BY <3>1, <3>2, <2>3, <1>3
      <3> QED
        BY <3>3, <2>1, <1>3 DEF SpelledBy
    <2> QED
      BY <2>1, <2>4, <1>3 DEF Spells
  <1>8. Section(buf, 0, 6, C)
    BY <1>1, <1>3, <1>5, <1>6, <1>7 DEF Section
  <1>9. at \in [0 .. 1 -> Nat] /\ at[0] = 0 /\ at[1] = 6
    OBVIOUS
  <1> HIDE DEF at
  <1>10. saved \in Seq(Contents) /\ Len(saved) = 1 /\ saved[1] = C /\ saved \in Seq(Store!Contents)
    BY <1>1, <1>5
  <1>11. Marks(at, buf, pos, saved, read)
    <2>1. \A k \in 1 .. 1 : k = 1
      OBVIOUS
    <2> QED
      BY <2>1, <1>1, <1>6, <1>8, <1>9, <1>10 DEF Marks
  <1> QED
    BY <1>1, <1>6, <1>10, <1>11 DEF FileIs

LEMMA InvStarts ==
    ASSUME SettingsInit
    PROVE  SettingsInv /\ Store!StoreInit
  <1>1. /\ map = [g \in AllGroups |-> NoEntries] /\ block = [b \in Blocks |-> <<>>]
        /\ reloadCount = [g \in AllGroups |-> 0] /\ cache = <<>> /\ mine = Junk
        /\ pointsTo = [l \in 1 .. NumPtrs |-> CHOOSE g \in Groups : TRUE] /\ read = 0
    BY DEF SettingsInit
  <1>2. NoEntries \in Maps /\ DOMAIN NoEntries = {}
    <2>1. NoEntries \in [{} -> Places] /\ {} \in SUBSET OptionNames
      BY DEF NoEntries
    <2> QED
      BY <2>1 DEF Maps
  <1>3. Now \in States /\ Now.map = map /\ Now.cache = <<>>
    <2>1. <<>> \in Seq(Things)
      OBVIOUS
    <2> QED
      BY <2>1, <1>1, <1>2 DEF Now, States, Memories
  <1>4. Housed(Now)
    BY <1>1, <1>2, <1>3 DEF Housed, Apart, Fits
  <1>5. Minds(Now, reloadCount)
    <2>1. Now.cache \notin Chain
      <3> SUFFICES ASSUME <<>> \in Chain PROVE FALSE
        BY <1>3
      <3>1. DOMAIN <<>> = Layers /\ DOMAIN <<>> = {}
        BY DEF Chain
      <3> QED
        BY <3>1, Facts
    <2> QED
      BY <2>1 DEF Minds
  <1>6. Sound(Now, reloadCount, pointsTo, mine)
    BY <1>1, <1>4, <1>5, Facts DEF Sound
  <1>7. SettingsInv
    BY <1>6, FirstFile DEF SettingsInv
  <1>8. \A g \in AllGroups : Held(Now, g) = [n \in {} |-> 0]
    BY <1>1, <1>2, <1>3 DEF Held
  <1>9. Store!StoreInit
    BY <1>1, <1>8, FirstFile DEF Store!StoreInit
  <1> QED
    BY <1>7, <1>9

LEMMA SettingsSteps ==
    ASSUME SettingsInv, [SettingsNext]_settingsVars
    PROVE  SettingsInv' /\ Implements
  <1>1. CASE UNCHANGED settingsVars
    <2>1. /\ Become(Now)
          /\ UNCHANGED <<reloadCount, pointsTo, mine, buf, pos, saved, read>>
      BY <1>1 DEF settingsVars, Become, Now
    <2>2. SettingsInv'
      BY <2>1, InvFacts, InvAfter
    <2>3. UNCHANGED Store!storeVars
      BY <2>1, InvFacts, StoreStays
    <2> QED
      BY <2>2, <2>3 DEF Implements
  <1>2. ASSUME NEW v \in 0 .. MaxValue, Construct(v) PROVE SettingsInv' /\ Implements
    BY <1>2, StepConstruct
  <1>3. ASSUME NEW v \in 0 .. MaxValue, SetOption(v) PROVE SettingsInv' /\ Implements
    BY <1>3, StepSet
  <1>4. CASE ConstructDefault
    BY <1>4, StepConstructDefault
  <1>5. CASE GetOption
    BY <1>5, StepGet
  <1>6. CASE AddToOption
    BY <1>6, StepAdd
  <1>7. ASSUME NEW g \in AllGroups, GetRuntime(g, Opt) PROVE SettingsInv' /\ Implements
    BY <1>7, StepGetRuntime
  <1>8. ASSUME NEW g \in AllGroups, NEW n \in OptionNames, NEW v \in 1 .. MaxValue, SetRuntime(g, n, v)
        PROVE  SettingsInv' /\ Implements
    BY <1>8, StepSetRuntime
  <1>9. ASSUME NEW l \in 1 .. NumPtrs, NEW g \in Groups, SwitchGroup(l, g)
        PROVE  SettingsInv' /\ Implements
    BY <1>9, StepSwitch
  <1>10. ASSUME NEW g \in AllGroups, NEW order \in SetToSeqs(DOMAIN map[g]), Serialize(g, order)
         PROVE  SettingsInv' /\ Implements
    BY <1>10, StepSerialize
  <1>11. ASSUME NEW g \in AllGroups, Initialize(g) PROVE SettingsInv' /\ Implements
    BY <1>11, StepInitialize
  <1>12. ASSUME NEW g \in AllGroups, InitializeNew(g) PROVE SettingsInv' /\ Implements
    BY <1>12, StepInitializeNew
  <1> QED
    BY <1>1, <1>2, <1>3, <1>4, <1>5, <1>6, <1>7, <1>8, <1>9, <1>10, <1>11, <1>12
    DEF SettingsNext

LEMMA SettingsAlways == SettingsSpec => []SettingsInv
  <1>1. SettingsInit => SettingsInv
    BY InvStarts
  <1>2. SettingsInv /\ [SettingsNext]_settingsVars => SettingsInv'
    BY SettingsSteps
  <1> QED
    BY <1>1, <1>2, PTL DEF SettingsSpec

(* A pointer the option goes on using is the one its group has for the     *)
(* name now, and no two entries share a block.                             *)
THEOREM CachesAreCurrent == SettingsSpec => []CachesCurrent
  <1>1. SettingsInv => CachesCurrent
    <2> SUFFICES ASSUME SettingsInv PROVE CachesCurrent
      OBVIOUS
    <2>1. ASSUME cache # <<>>, NEW l \in Layers, TryRefresh(Now, l).allocID # NoPtr
          PROVE  TryRefresh(Now, l).allocID = TryGetAlloc(Now, TargetOf(l), Opt)
      <3>1. Current(Now, l, TryRefresh(Now, l))
        BY <2>1, InvFacts, TryRefreshIs
      <3> QED
        BY <3>1, <2>1 DEF Current, TryGetAlloc
    <2>2. \A g, h \in AllGroups : \A n \in DOMAIN map[g], m \in DOMAIN map[h] :
              /\ map[g][n].ptr = map[h][m].ptr => g = h /\ n = m
              /\ Len(block[map[g][n].ptr]) >= map[g][n].size
      BY InvFacts DEF Housed, Apart, Fits
    <2> QED
      BY <2>1, <2>2 DEF CachesCurrent
  <1> QED
    BY <1>1, SettingsAlways, PTL

(* What the option was set to is what it reads as, until something else    *)
(* than the option is written, switched or loaded.                         *)
THEOREM OwnWritesAreRead == SettingsSpec => []ReadsOwnWrites
  <1>1. SettingsInv => ReadsOwnWrites
    <2> SUFFICES ASSUME SettingsInv, mine # Junk PROVE ValueOf(Now) = mine
      BY DEF ReadsOwnWrites
    <2>1. Keeps(Now, reloadCount, pointsTo, mine)
      BY InvFacts DEF Sound
    <2> QED
      BY <2>1, InvFacts, KeepsReads
  <1> QED
    BY <1>1, SettingsAlways, PTL

(* Groups, their blocks and the file's bytes implement SettingsStore.      *)
THEOREM StoreIsImplemented == SettingsSpec => ImplementsStore
  <1>1. SettingsInit => Store!StoreInit
    BY InvStarts
  <1>2. SettingsInv /\ [SettingsNext]_settingsVars => [Store!StoreNext]_Store!storeVars
    BY SettingsSteps DEF Implements
  <1> QED
    BY <1>1, <1>2, SettingsAlways, PTL DEF SettingsSpec, ImplementsStore, Store!StoreSpec
=============================================================================
