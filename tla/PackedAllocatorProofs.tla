----------------------- MODULE PackedAllocatorProofs -----------------------
(***************************************************************************)
(* The layout of a PackedAllocator's buffer, for every sequence of Alloc   *)
(* and Free: the chunks and the holes lie one behind the other from 0 to   *)
(* bufSize, which is what WalkBuffer, Free and the index rely on.          *)
(***************************************************************************)
EXTENDS MCPackedAllocator, Recursion

-----------------------------------------------------------------------------
(* A stretch of memory that is cut into chunks and holes                   *)

Tags == [kind : {"used", "free", "hole"}, size : Nat]

Memories == UNION {[D -> Tags] : D \in SUBSET Nat}

(* The chunks and holes that start at the elements of W lie one behind the *)
(* other from `from` to `to`, and the chunks have a tag at either end.     *)
Walks(m, W, from, to) ==
    /\ W \subseteq DOMAIN m
    /\ \A a \in W : /\ from <= a /\ a < StepUp(m, a) /\ StepUp(m, a) <= to
                    /\ StepUp(m, a) \in W \union {to}
    /\ \A a, c \in W : a < c => StepUp(m, a) <= c
    /\ from # to => from \in W
    /\ \A a \in W : m[a].kind # "hole" =>
           /\ a + MetaSize + m[a].size \in DOMAIN m
           /\ m[a + MetaSize + m[a].size] = m[a]

(* What a tag says is a natural number, and so is where it leads.          *)
LEMMA StepFacts ==
    ASSUME NEW m \in Memories, NEW a \in DOMAIN m
    PROVE  /\ a \in Nat /\ m[a] \in Tags
           /\ m[a].size \in Nat /\ StepUp(m, a) \in Nat
           /\ StepUp(m, a) = a + m[a].size + IF m[a].kind = "hole" THEN 0 ELSE 4
  <1>1. PICK D \in SUBSET Nat : m \in [D -> Tags]
    BY DEF Memories
  <1>2. a \in Nat /\ m[a] \in Tags
    BY <1>1
  <1> QED
    BY <1>2 DEF StepUp, MetaSize, Tags

(* The starts in front of a start or of the end.                           *)
LEMMA WalksLower ==
    ASSUME NEW m \in Memories, NEW W, NEW from \in Nat, NEW to \in Nat,
           Walks(m, W, from, to), NEW t \in W \union {to}
    PROVE  Walks(m, {a \in W : a < t}, from, t)
  <1> DEFINE V == {a \in W : a < t}
  <1>1. \A a \in W : a \in Nat /\ StepUp(m, a) \in Nat
    BY StepFacts DEF Walks
  <1>2. t \in Nat
    BY <1>1
  <1>3. ASSUME NEW a \in V
        PROVE  /\ from <= a /\ a < StepUp(m, a) /\ StepUp(m, a) <= t
               /\ StepUp(m, a) \in V \union {t}
    <2>1. StepUp(m, a) <= t
      BY <1>1, <1>3 DEF Walks
    <2> QED
      BY <1>1, <1>2, <2>1 DEF Walks
  <1>4. from # t => from \in V
    BY <1>1, <1>2 DEF Walks
  <1> QED
    BY <1>3, <1>4 DEF Walks

(* The starts from a start or the end on.                                  *)
LEMMA WalksUpper ==
    ASSUME NEW m \in Memories, NEW W, NEW from \in Nat, NEW to \in Nat,
           Walks(m, W, from, to), NEW t \in W \union {to}
    PROVE  Walks(m, {a \in W : a >= t}, t, to)
  <1> DEFINE V == {a \in W : a >= t}
  <1>1. \A a \in W : a \in Nat /\ StepUp(m, a) \in Nat
    BY StepFacts DEF Walks
  <1>2. t \in Nat
    BY <1>1
  <1>3. ASSUME NEW a \in V
        PROVE  /\ t <= a /\ a < StepUp(m, a) /\ StepUp(m, a) <= to
               /\ StepUp(m, a) \in V \union {to}
    BY <1>1, <1>2 DEF Walks
  <1>4. t # to => t \in V
    BY <1>1, <1>2
  <1> QED
    BY <1>3, <1>4 DEF Walks

(* Two stretches, one behind the other, are one.                           *)
LEMMA WalksJoin ==
    ASSUME NEW m \in Memories, NEW V, NEW W, NEW from \in Nat, NEW mid \in Nat, NEW to \in Nat,
           from <= mid, mid <= to, Walks(m, V, from, mid), Walks(m, W, mid, to)
    PROVE  Walks(m, V \union W, from, to)
  <1>1. \A a \in V \union W : a \in Nat /\ StepUp(m, a) \in Nat
    BY StepFacts DEF Walks
  <1>2. ASSUME NEW a \in V \union W
        PROVE  /\ from <= a /\ a < StepUp(m, a) /\ StepUp(m, a) <= to
               /\ StepUp(m, a) \in (V \union W) \union {to}
    BY <1>1 DEF Walks
  <1>3. ASSUME NEW a \in V \union W, NEW c \in V \union W, a < c PROVE StepUp(m, a) <= c
    BY <1>1, <1>3 DEF Walks
  <1>4. from # to => from \in V \union W
    BY DEF Walks
  <1> QED
    BY <1>2, <1>3, <1>4 DEF Walks

(* Nothing changes where the memory is the same.                           *)
LEMMA WalksSame ==
    ASSUME NEW m \in Memories, NEW n \in Memories, NEW W, NEW from \in Nat, NEW to \in Nat,
           Walks(m, W, from, to),
           \A a \in DOMAIN m : from <= a /\ a < to => a \in DOMAIN n /\ n[a] = m[a]
    PROVE  Walks(n, W, from, to)
  <1>1. ASSUME NEW a \in W
        PROVE  a \in DOMAIN n /\ n[a] = m[a] /\ StepUp(n, a) = StepUp(m, a)
    <2>1. a \in DOMAIN m /\ from <= a /\ a < to
      BY StepFacts DEF Walks
    <2> QED
      BY <2>1 DEF StepUp
  <1>2. ASSUME NEW a \in W, m[a].kind # "hole"
        PROVE  /\ a + MetaSize + m[a].size \in DOMAIN n
               /\ n[a + MetaSize + m[a].size] = m[a]
    <2>1. a \in Nat /\ m[a].size \in Nat /\ StepUp(m, a) = a + m[a].size + 4
      BY <1>2, StepFacts DEF Walks
    <2>2. from <= a + MetaSize + m[a].size /\ a + MetaSize + m[a].size < to
      BY <2>1 DEF Walks, MetaSize
    <2> QED
      BY <1>2, <2>2 DEF Walks
  <1> QED
    BY <1>1, <1>2 DEF Walks

(* Some chunk or hole ends where the stretch does.                         *)
LEMMA WalksEnd ==
    ASSUME NEW m \in Memories, NEW W, NEW from \in Nat, NEW to \in Nat,
           Walks(m, W, from, to), from # to
    PROVE  \E a \in W : StepUp(m, a) = to
  <1>1. \A a \in W : a \in Nat /\ StepUp(m, a) \in Nat /\ a <= to
    BY StepFacts DEF Walks
  <1>2. W \in SUBSET Nat /\ W # {}
    BY <1>1 DEF Walks
  <1>3. PICK a \in W : \A c \in W : c <= a
    BY <1>1, <1>2, Greatest
  <1>4. StepUp(m, a) \notin W
    BY <1>1, <1>3 DEF Walks
  <1> QED
    BY <1>4 DEF Walks

(* WalkBuffer meets these chunks and holes and no others.                  *)
LEMMA WalkBufferWalks ==
    ASSUME NEW m \in Memories, NEW W, NEW limit \in Nat, Walks(m, W, 0, limit)
    PROVE  WalkBuffer(m, limit) = W
  <1> DEFINE next(a) == IF a < limit /\ a \in DOMAIN m THEN StepUp(m, a) ELSE limit
             at[k \in 0 .. limit] == IF k = 0 THEN 0 ELSE next(at[k - 1])
             step == [a \in Nat |-> next(a)]
  <1>1. WalkBuffer(m, limit)
            = {at[k] : k \in 0 .. limit} \intersect (DOMAIN m \intersect 0 .. limit - 1)
    BY DEF WalkBuffer
  <1>2. step \in [Nat -> Nat]
    BY StepFacts
  <1>3. \A a \in Nat : step[a] = next(a)
    OBVIOUS
  <1>4. at = [k \in 0 .. limit |-> IF k = 0 THEN 0 ELSE next(at[k - 1])]
    <2> HIDE DEF step, next
    <2>1. PICK f \in [0 .. limit -> Nat] : Follows(f, 0, step, limit)
      BY <1>2, StepByStep
    <2>2. ASSUME NEW k \in 0 .. limit
          PROVE  f[k] = IF k = 0 THEN 0 ELSE next(f[k - 1])
      <3>1. f[k] = IF k = 0 THEN 0 ELSE step[f[k - 1]]
        BY <2>1 DEF Follows
      <3>2. CASE k = 0
        BY <3>1, <3>2
      <3>3. CASE k # 0
        <4>1. k - 1 \in 0 .. limit
          BY <3>3
        <4>2. f[k - 1] \in Nat
          BY <4>1
        <4>3. step[f[k - 1]] = next(f[k - 1])
          BY <1>3, <4>2
        <4> QED
          BY <3>1, <3>3, <4>3
      <3> QED
        BY <3>2, <3>3
    <2>3. f = [k \in 0 .. limit |-> IF k = 0 THEN 0 ELSE next(f[k - 1])]
      BY <2>2
    <2> QED
      BY <2>3
  <1>5. \A k \in 0 .. limit : at[k] = IF k = 0 THEN 0 ELSE next(at[k - 1])
    <2> HIDE DEF at
    <2> QED
      BY <1>4
  <1> HIDE DEF at, step
  <1>6. \A a \in W : a \in Nat /\ a < limit /\ StepUp(m, a) \in Nat /\ next(a) = StepUp(m, a)
    BY StepFacts DEF Walks
  <1>7. \A k \in 0 .. limit : at[k] \in W \union {limit} /\ at[k] >= k
    <2> DEFINE T == {k \in Nat : k <= limit => at[k] \in W \union {limit} /\ at[k] >= k}
    <2>1. 0 \in T
      BY <1>5 DEF Walks
    <2>2. ASSUME NEW k \in Nat, k \in T PROVE k + 1 \in T
      <3>1. SUFFICES ASSUME k + 1 <= limit
                     PROVE  at[k + 1] \in W \union {limit} /\ at[k + 1] >= k + 1
        OBVIOUS
      <3>2. at[k + 1] = next(at[k]) /\ at[k] \in W \union {limit} /\ at[k] >= k
        BY <1>5, <2>2, <3>1
      <3>3. CASE at[k] \in W
        <4>1. at[k + 1] = StepUp(m, at[k])
          BY <1>6, <3>2, <3>3
        <4>2. /\ StepUp(m, at[k]) \in W \union {limit} /\ at[k] < StepUp(m, at[k])
              /\ at[k] \in Nat /\ StepUp(m, at[k]) \in Nat
          BY <1>6, <3>3 DEF Walks
        <4> QED
          BY <3>2, <4>1, <4>2
      <3>4. CASE at[k] = limit
        BY <3>1, <3>2, <3>4
      <3> QED
        BY <3>2, <3>3, <3>4
    <2> HIDE DEF T
    <2>3. \A k \in Nat : k \in T
      BY <2>1, <2>2, Inductive
    <2> QED
      BY <2>3 DEF T
  <1>8. ASSUME NEW w \in W PROVE \E k \in 0 .. limit : at[k] = w
    <2>1. SUFFICES ASSUME \A k \in 0 .. limit : at[k] # w PROVE FALSE
      OBVIOUS
    <2> DEFINE T == {k \in Nat : k <= limit => at[k] < w}
    <2>2. 0 \in T
      <3>1. at[0] = 0 /\ at[0] # w /\ w \in Nat
        BY <1>5, <1>6, <2>1
      <3> QED
        BY <3>1
    <2>3. ASSUME NEW k \in Nat, k \in T PROVE k + 1 \in T
      <3>1. SUFFICES ASSUME k + 1 <= limit PROVE at[k + 1] < w
        OBVIOUS
      <3>2. at[k] < w /\ at[k] \in W /\ at[k + 1] = next(at[k]) /\ at[k + 1] # w
        BY <1>5, <1>6, <1>7, <2>1, <2>3, <3>1
      <3>3. at[k + 1] = StepUp(m, at[k]) /\ StepUp(m, at[k]) <= w
        BY <1>6, <3>2 DEF Walks
      <3> QED
        BY <1>6, <3>2, <3>3
    <2> HIDE DEF T
    <2>4. \A k \in Nat : k \in T
      BY <2>2, <2>3, Inductive
    <2>5. at[limit] < w /\ at[limit] >= limit /\ w < limit /\ at[limit] \in Nat
      BY <1>6, <1>7, <2>4 DEF T
    <2> QED
      BY <1>6, <2>5
  <1>9. ASSUME NEW a \in WalkBuffer(m, limit) PROVE a \in W
    <2>1. PICK k \in 0 .. limit : a = at[k] /\ a \in 0 .. limit - 1
      BY <1>1
    <2> QED
      BY <1>7, <2>1
  <1>10. ASSUME NEW a \in W PROVE a \in WalkBuffer(m, limit)
    <2>1. a \in DOMAIN m /\ a \in 0 .. limit - 1
      BY <1>6 DEF Walks
    <2> QED
      BY <1>1, <1>8, <2>1
  <1> QED
    BY <1>9, <1>10

-----------------------------------------------------------------------------
(* What is written to the memory                                           *)

(* A memory is a function from addresses to tags.                          *)
LEMMA MemoryFacts ==
    ASSUME NEW m \in Memories
    PROVE  m \in [DOMAIN m -> Tags] /\ DOMAIN m \in SUBSET Nat
  BY DEF Memories

(* And every such function is a memory.                                    *)
LEMMA MemoryIs ==
    ASSUME NEW D \in SUBSET Nat, NEW m \in [D -> Tags]
    PROVE  m \in Memories
  BY DEF Memories

(* n is m with two tags of the same contents,                              *)
WritesTags(m, n, a, kind, size) ==
    /\ n \in Memories
    /\ DOMAIN n = DOMAIN m \union {a, a + 2 + size}
    /\ n[a] = Tag(kind, size) /\ n[a + 2 + size] = Tag(kind, size)
    /\ \A x \in DOMAIN m \ {a, a + 2 + size} : n[x] = m[x]
    /\ Tag(kind, size).kind = kind /\ Tag(kind, size).size = size

(* m without what lay in a range,                                          *)
Wipes(m, n, from, to) ==
    /\ n \in Memories
    /\ DOMAIN n = DOMAIN m \ (from .. to - 1)
    /\ \A x \in DOMAIN m \ (from .. to - 1) : n[x] = m[x]

(* and m with a hole.                                                      *)
WritesHole(m, n, a, size) ==
    /\ n \in Memories
    /\ DOMAIN n = {a} \union (DOMAIN m \ (a .. a + size - 1))
    /\ n[a] = Tag("hole", size)
    /\ \A x \in DOMAIN m \ (a .. a + size - 1) : x # a => n[x] = m[x]
    /\ Tag("hole", size).kind = "hole" /\ Tag("hole", size).size = size

(* A chunk gets two tags with the same contents, the rest is as it was.    *)
LEMMA TaggedIs ==
    ASSUME NEW m \in Memories, NEW a \in Nat, NEW kind \in {"used", "free", "hole"},
           NEW size \in Nat
    PROVE  WritesTags(m, Tagged(m, a, kind, size), a, kind, size)
  <1> DEFINE tag == Tag(kind, size)
             f == [x \in DOMAIN m \union {a, a + 2 + size} |->
                      IF x \in {a, a + 2 + size} THEN tag ELSE m[x]]
  <1>1. tag \in Tags /\ tag.kind = kind /\ tag.size = size
    BY DEF Tag, Tags
  <1>2. Tagged(m, a, kind, size) = f
    BY DEF Tagged, MetaSize
  <1>3. f \in [DOMAIN m \union {a, a + 2 + size} -> Tags]
    BY <1>1, MemoryFacts
  <1>4. f \in Memories
    <2>1. DOMAIN m \union {a, a + 2 + size} \in SUBSET Nat
      BY MemoryFacts
    <2> HIDE DEF f
    <2> QED
      BY <1>3, <2>1, MemoryIs
  <1>5. f[a] = tag /\ f[a + 2 + size] = tag
    OBVIOUS
  <1>6. \A x \in DOMAIN m \ {a, a + 2 + size} : f[x] = m[x]
    OBVIOUS
  <1>7. DOMAIN f = DOMAIN m \union {a, a + 2 + size}
    OBVIOUS
  <1> HIDE DEF f
  <1> QED
    BY <1>1, <1>2, <1>4, <1>5, <1>6, <1>7 DEF WritesTags

(* Nothing is left of what a client writes to.                             *)
LEMMA WipedIs ==
    ASSUME NEW m \in Memories, NEW from, NEW to
    PROVE  Wipes(m, Wiped(m, from, to), from, to)
  <1> DEFINE D == DOMAIN m \ (from .. to - 1)
             f == [x \in D |-> m[x]]
  <1>1. Wiped(m, from, to) = f
    BY DEF Wiped
  <1>2. f \in [D -> Tags] /\ D \in SUBSET Nat
    BY MemoryFacts
  <1>3. f \in Memories
    <2> HIDE DEF f, D
    <2> QED
      BY <1>2, MemoryIs
  <1>4. DOMAIN f = D /\ \A x \in D : f[x] = m[x]
    OBVIOUS
  <1> HIDE DEF f
  <1> QED
    BY <1>1, <1>3, <1>4 DEF Wipes

(* A hole is a mark and nothing else.                                      *)
LEMMA FillHoleIs ==
    ASSUME NEW m \in Memories, NEW a \in Nat, NEW size \in Nat
    PROVE  WritesHole(m, FillHole(m, a, size), a, size)
  <1>1. Tag("hole", size) \in Tags /\ Tag("hole", size).kind = "hole" /\ Tag("hole", size).size = size
    BY DEF Tag, Tags
  <1>2. PICK w : w = Wiped(m, a, a + size)
    OBVIOUS
  <1> DEFINE f == [x \in {a} \union DOMAIN w |-> IF x = a THEN Tag("hole", size) ELSE w[x]]
  <1>3. FillHole(m, a, size) = f
    BY <1>2 DEF FillHole
  <1>4. Wipes(m, w, a, a + size)
    BY <1>2, WipedIs
  <1>5. f \in [{a} \union DOMAIN w -> Tags] /\ {a} \union DOMAIN w \in SUBSET Nat
    BY <1>1, <1>4, MemoryFacts DEF Wipes
  <1>6. f \in Memories
    <2> HIDE DEF f
    <2> QED
      BY <1>5, MemoryIs
  <1>7. DOMAIN f = {a} \union DOMAIN w /\ f[a] = Tag("hole", size)
    OBVIOUS
  <1>8. \A x \in DOMAIN w : x # a => f[x] = w[x]
    OBVIOUS
  <1> HIDE DEF f
  <1> QED
    BY <1>1, <1>3, <1>4, <1>6, <1>7, <1>8 DEF Wipes, WritesHole

(* n has part of m, with all that lies at W.                               *)
Copies(m, n, W, limit) ==
    /\ n \in Memories
    /\ DOMAIN n \subseteq DOMAIN m
    /\ \A x \in DOMAIN n : n[x] = m[x]
    /\ Walks(n, W, 0, limit)

(* What New copies to a larger buffer is all that was in the old one.      *)
LEMMA MoveChunksIs ==
    ASSUME NEW m \in Memories, NEW W, NEW limit \in Nat, Walks(m, W, 0, limit)
    PROVE  Copies(m, MoveChunks(m, limit), W, limit)
  <1> DEFINE upper == {a + MetaSize + m[a].size : a \in {b \in W : m[b].kind # "hole"}}
             D == W \union upper
             f == [x \in D |-> m[x]]
  <1>1. MoveChunks(m, limit) = f
    BY WalkBufferWalks DEF MoveChunks
  <1>2. W \subseteq DOMAIN m /\ upper \subseteq DOMAIN m
    BY DEF Walks
  <1>3. f \in [D -> Tags] /\ D \in SUBSET Nat
    BY <1>2, MemoryFacts
  <1>4. DOMAIN f = D /\ \A x \in D : f[x] = m[x]
    OBVIOUS
  <1>5. f \in Memories
    <2> HIDE DEF f, D
    <2> QED
      BY <1>3, MemoryIs
  <1>6. \A a \in W : a \in D /\ (m[a].kind # "hole" => a + MetaSize + m[a].size \in D)
    OBVIOUS
  <1> HIDE DEF f, D
  <1>7. \A a \in W : f[a] = m[a] /\ StepUp(f, a) = StepUp(m, a)
    BY <1>4, <1>6 DEF StepUp
  <1>8. Walks(f, W, 0, limit)
    BY <1>4, <1>6, <1>7 DEF Walks
  <1> QED
    BY <1>1, <1>2, <1>4, <1>5, <1>8 DEF D, Copies

(* And Alloc copies all there is.                                          *)
LEMMA MovedIs ==
    ASSUME NEW m \in Memories, NEW W, NEW limit \in Nat, Walks(m, W, 0, limit)
    PROVE  Copies(m, Moved(m, limit), W, limit)
  <1> DEFINE D == DOMAIN m \intersect 0 .. limit - 1
             f == [x \in D |-> m[x]]
  <1>1. CASE typed
    BY <1>1, MoveChunksIs DEF Moved
  <1>2. CASE ~typed
    <2>1. Moved(m, limit) = f
      BY <1>2 DEF Moved
    <2>2. f \in [D -> Tags] /\ D \in SUBSET Nat
      BY MemoryFacts
    <2>3. f \in Memories
      <3> HIDE DEF f, D
      <3> QED
        BY <2>2, MemoryIs
    <2>4. DOMAIN f = D /\ \A x \in D : f[x] = m[x]
      OBVIOUS
    <2> HIDE DEF f
    <2>5. \A x \in DOMAIN m : 0 <= x /\ x < limit => x \in DOMAIN f /\ f[x] = m[x]
      BY <2>4, MemoryFacts
    <2>6. Walks(f, W, 0, limit)
      BY <2>3, <2>5, WalksSame
    <2> QED
      BY <2>1, <2>3, <2>4, <2>6 DEF Copies
  <1> QED
    BY <1>1, <1>2

-----------------------------------------------------------------------------
(* Alignments                                                              *)

(* The alignments of the types that malloc's results are aligned for, a    *)
(* buffer to begin with, and no use after FreeAll.                         *)
Ordinary ==
    /\ Alignments \subseteq {1, 2, 4}
    /\ Capacity # 0
    /\ ~Reuse

Multiple(n, al) == n % al = 0

(* Sums and differences of multiples are multiples.                        *)
LEMMA Multiples ==
    ASSUME NEW al \in {1, 2, 4}
    PROVE  /\ Multiple(0, al) /\ Multiple(4, al)
           /\ \A m, n \in Int : Multiple(m, al) /\ Multiple(n, al) =>
                  Multiple(m + n, al) /\ Multiple(m - n, al)
           /\ \A n \in Nat : Multiple(n, al) /\ n # 0 => n >= al
           /\ \A n \in Nat : Multiple(n * al, al)
  <1>1. CASE al = 1
    BY <1>1 DEF Multiple
  <1>2. CASE al = 2
    BY <1>2 DEF Multiple
  <1>3. CASE al = 4
    BY <1>3 DEF Multiple
  <1> QED
    BY <1>1, <1>2, <1>3

(* AlignUp gives the next multiple; from the end of an empty buffer only   *)
(* the largest alignment leaves something.                                 *)
LEMMA AlignUpIs ==
    ASSUME alignment \in {1, 2, 4}
    PROVE  /\ \A n \in Nat : Multiple(n, alignment) => AlignUp(n) = n
           /\ AlignUp(2) = (IF alignment = 4 THEN 4 ELSE 2)
           /\ Multiple(AlignUp(2), alignment)
  <1>1. CASE alignment = 1
    BY <1>1 DEF Multiple, AlignUp
  <1>2. CASE alignment = 2
    BY <1>2 DEF Multiple, AlignUp
  <1>3. CASE alignment = 4
    BY <1>3 DEF Multiple, AlignUp
  <1> QED
    BY <1>1, <1>2, <1>3

-----------------------------------------------------------------------------
(* The buffer                                                              *)

(* Clients' indices and sizes are multiples of the alignment, and so are   *)
(* the holes, but for one at the start of the buffer.                      *)
Laid(m, W, al) ==
    \A a \in W : IF m[a].kind = "hole"
                 THEN a # 0 => Multiple(m[a].size, al)
                 ELSE Multiple(a + 2, al) /\ Multiple(m[a].size, al)

(* A buffer of `top` words with chunks and holes at W.                     *)
Buffer(m, W, top, al) ==
    /\ Walks(m, W, 0, top)
    /\ DOMAIN m \subseteq 0 .. top - 1
    /\ Laid(m, W, al)
    /\ top # 0 => Multiple(top + 2, al)

FreeChunks(m, W) == {<<m[a].size, a>> : a \in {c \in W : m[c].kind = "free"}}

HeldChunks(m, W) ==
    {[at |-> a + 2, size |-> m[a].size] : a \in {c \in W : m[c].kind = "used"}}

(* n has the chunks and holes that m has at `rest`, and others at V.       *)
Anew(m, n, rest, V, top, al) ==
    /\ Buffer(n, rest \union V, top, al)
    /\ FreeChunks(n, rest \union V) = FreeChunks(m, rest) \union FreeChunks(n, V)
    /\ HeldChunks(n, rest \union V) = HeldChunks(m, rest) \union HeldChunks(n, V)

(* A buffer where only what lies from a to t is laid out anew, with chunks *)
(* and holes at V, is a buffer.                                            *)
LEMMA Recut ==
    ASSUME NEW m \in Memories, NEW n \in Memories, NEW W, NEW top \in Nat, NEW al,
           Buffer(m, W, top, al),
           NEW a \in W, NEW t \in W \union {top}, a < t,
           DOMAIN n \subseteq 0 .. top - 1,
           \A x \in DOMAIN m : x < a \/ x >= t => x \in DOMAIN n /\ n[x] = m[x],
           NEW V, Walks(n, V, a, t), Laid(n, V, al),
           NEW rest, rest = {x \in W : x < a \/ x >= t}
    PROVE  Anew(m, n, rest, V, top, al)
  <1> DEFINE low == {x \in W : x < a}
             high == {x \in W : x >= t}
  <1>1. Walks(m, W, 0, top) /\ DOMAIN m \subseteq 0 .. top - 1
    BY DEF Buffer
  <1>2. a \in Nat /\ t \in Nat /\ t <= top
    BY <1>1 DEF Walks
  <1>3. Walks(m, low, 0, a)
    BY <1>1, WalksLower
  <1>4. Walks(m, high, t, top)
    BY <1>1, WalksUpper
  <1>5. Walks(n, low, 0, a)
    <2>1. \A x \in DOMAIN m : 0 <= x /\ x < a => x \in DOMAIN n /\ n[x] = m[x]
      OBVIOUS
    <2> HIDE DEF low
    <2> QED
      BY <1>2, <1>3, <2>1, WalksSame
  <1>6. Walks(n, high, t, top)
    <2>1. \A x \in DOMAIN m : t <= x /\ x < top => x \in DOMAIN n /\ n[x] = m[x]
      BY <1>1, <1>2
    <2> HIDE DEF high
    <2> QED
      BY <1>2, <1>4, <2>1, WalksSame
  <1>7. Walks(n, (low \union V) \union high, 0, top)
    <2> HIDE DEF low, high
    <2>1. Walks(n, low \union V, 0, t)
      BY <1>2, <1>5, WalksJoin
    <2> QED
      BY <1>2, <1>6, <2>1, WalksJoin
  <1>8. (low \union V) \union high = rest \union V
    OBVIOUS
  <1>9. \A x \in rest : x \in W /\ x \in DOMAIN m /\ n[x] = m[x]
    BY <1>1 DEF Walks
  <1>10. Laid(n, rest \union V, al)
    BY <1>9 DEF Laid, Buffer
  <1>11. FreeChunks(n, rest \union V) = FreeChunks(m, rest) \union FreeChunks(n, V)
    BY <1>9 DEF FreeChunks
  <1>12. HeldChunks(n, rest \union V) = HeldChunks(m, rest) \union HeldChunks(n, V)
    BY <1>9 DEF HeldChunks
  <1>13. Buffer(n, rest \union V, top, al)
    BY <1>7, <1>8, <1>10 DEF Buffer
  <1> QED
    BY <1>11, <1>12, <1>13 DEF Anew

(* m and n are the same outside from .. to - 1, and n has nothing new but  *)
(* there.                                                                  *)
SameOutside(m, n, from, to) ==
    /\ \A x \in DOMAIN m : x < from \/ x >= to => x \in DOMAIN n /\ n[x] = m[x]
    /\ DOMAIN n \subseteq DOMAIN m \union (from .. to - 1)

(* A chunk that is written is one stretch.                                 *)
WritesChunk(m, n, a, kind, size) ==
    /\ n \in Memories /\ SameOutside(m, n, a, a + size + 4)
    /\ Walks(n, {a}, a, a + size + 4)
    /\ n[a].kind = kind /\ n[a].size = size

(* This is what Tagged does.                                               *)
LEMMA ChunkCell ==
    ASSUME NEW m \in Memories, NEW a \in Nat, NEW size \in Nat, NEW kind \in {"used", "free"}
    PROVE  WritesChunk(m, Tagged(m, a, kind, size), a, kind, size)
  <1>1. PICK n : n = Tagged(m, a, kind, size)
    OBVIOUS
  <1>2. WritesTags(m, n, a, kind, size)
    <2>1. kind \in {"used", "free", "hole"}
      OBVIOUS
    <2> QED
      BY <1>1, <2>1, TaggedIs
  <1>3. SameOutside(m, n, a, a + size + 4)
    BY <1>2 DEF SameOutside, WritesTags
  <1>4. StepUp(n, a) = a + size + 4
    BY <1>2 DEF StepUp, MetaSize, WritesTags
  <1>5. Walks(n, {a}, a, a + size + 4)
    BY <1>2, <1>4 DEF Walks, MetaSize, WritesTags
  <1> QED
    BY <1>1, <1>2, <1>3, <1>5 DEF WritesChunk, WritesTags

(* What SetAside does with nothing, with too little and with enough.       *)
LEMMA SetAsideIs ==
    ASSUME NEW h, NEW a \in Nat, NEW size \in Nat
    PROVE  /\ size = 0 => SetAside(h, a, size) = h
           /\ size \in 1 .. 3 => SetAside(h, a, size) = [h EXCEPT !.mem = FillHole(@, a, size)]
           /\ size >= 4 => SetAside(h, a, size) = [mem |-> Tagged(h.mem, a, "free", size - 4),
                                                   tree |-> h.tree \union {<<size - 4, a>>}]
  <1>1. CASE size = 0
    BY <1>1 DEF SetAside, Fillable, MetaSize
  <1>2. CASE size \in 1 .. 3
    BY <1>2 DEF SetAside, Fillable, MetaSize
  <1>3. CASE size >= 4
    BY <1>3 DEF SetAside, Fillable, MetaSize
  <1> QED
    BY <1>1, <1>2, <1>3

(* h is a heap with the memory m, but that the words from a on are set     *)
(* aside: the chunk or hole that starts at U, if any.                      *)
IsSetAside(m, tree, h, U, a, size, al) ==
    /\ h = [mem |-> h.mem, tree |-> h.tree]
    /\ h.mem \in Memories /\ SameOutside(m, h.mem, a, a + size)
    /\ Walks(h.mem, U, a, a + size) /\ Laid(h.mem, U, al)
    /\ h.tree = tree \union FreeChunks(h.mem, U)
    /\ HeldChunks(h.mem, U) = {}

(* A rest that is set aside is one stretch: nothing, a hole or a chunk.    *)
LEMMA RestCell ==
    ASSUME NEW m \in Memories, NEW tree, NEW a \in Nat, NEW size \in Nat,
           NEW al \in {1, 2, 4}, a = 0 \/ (Multiple(a + 2, al) /\ Multiple(size, al)),
           a = 0 => size < 4,
           NEW g, g = [mem |-> m, tree |-> tree],
           NEW h, h = SetAside(g, a, size),
           NEW U, U = IF size = 0 THEN {} ELSE {a}
    PROVE  IsSetAside(m, tree, h, U, a, size, al)
  <1>1. CASE size = 0
    <2>1. h = g
      BY <1>1, SetAsideIs
    <2>2. SameOutside(m, m, a, a + size)
      BY DEF SameOutside
    <2>3. Walks(m, {}, a, a + size)
      BY <1>1 DEF Walks
    <2>4. Laid(m, {}, al) /\ FreeChunks(m, {}) = {} /\ HeldChunks(m, {}) = {}
      BY DEF Laid, FreeChunks, HeldChunks
    <2> QED
      BY <1>1, <2>1, <2>2, <2>3, <2>4 DEF IsSetAside
  <1>2. CASE size \in 1 .. 3
    <2>1. PICK n : n = FillHole(m, a, size)
      OBVIOUS
    <2>2. h = [mem |-> n, tree |-> tree]
      <3>1. h = [g EXCEPT !.mem = FillHole(@, a, size)]
        BY <1>2, SetAsideIs
      <3> QED
        BY <2>1, <3>1
    <2>3. WritesHole(m, n, a, size)
      BY <2>1, FillHoleIs
    <2>4. SameOutside(m, n, a, a + size)
      BY <1>2, <2>3, MemoryFacts DEF SameOutside, WritesHole
    <2>5. StepUp(n, a) = a + size
      BY <2>3 DEF StepUp, WritesHole
    <2>6. Walks(n, {a}, a, a + size)
      BY <1>2, <2>3, <2>5 DEF Walks, WritesHole
    <2>7. Laid(n, {a}, al) /\ FreeChunks(n, {a}) = {} /\ HeldChunks(n, {a}) = {}
      BY <2>3 DEF Laid, FreeChunks, HeldChunks, WritesHole
    <2>8. U = {a} /\ h.mem = n /\ h.tree = tree /\ n \in Memories
      BY <1>2, <2>2, <2>3 DEF WritesHole
    <2> QED
      BY <2>2, <2>4, <2>6, <2>7, <2>8 DEF IsSetAside
  <1>3. CASE size >= 4
    <2>1. PICK spot \in Nat : spot = size - 4
      BY <1>3
    <2>2. PICK n : n = Tagged(m, a, "free", spot)
      OBVIOUS
    <2>3. h = [mem |-> n, tree |-> tree \union {<<spot, a>>}]
      <3>1. h = [mem |-> Tagged(g.mem, a, "free", size - 4),
                 tree |-> g.tree \union {<<size - 4, a>>}]
        BY <1>3 DEF SetAside, Fillable, MetaSize
      <3> QED
        BY <2>1, <2>2, <3>1
    <2>4. a + spot + 4 = a + size
      BY <2>1
    <2>5. WritesChunk(m, n, a, "free", spot)
      BY <2>2, ChunkCell
    <2>6. Multiple(a + 2, al) /\ Multiple(spot, al)
      <3>1. Multiple(a + 2, al) /\ Multiple(size, al)
        BY <1>3
      <3>2. Multiple(4, al)
        BY Multiples
      <3>3. \A j, k \in Int : Multiple(j, al) /\ Multiple(k, al) => Multiple(j - k, al)
        BY Multiples
      <3>4. Multiple(size - 4, al)
        BY <3>1, <3>2, <3>3
      <3> QED
        BY <2>1, <3>1, <3>4
    <2>7. FreeChunks(n, {a}) = {<<spot, a>>} /\ HeldChunks(n, {a}) = {}
      BY <2>5 DEF FreeChunks, HeldChunks, WritesChunk
    <2>8. Laid(n, {a}, al)
      BY <2>5, <2>6 DEF Laid, WritesChunk
    <2>9. U = {a} /\ h.mem = n /\ h.tree = tree \union {<<spot, a>>}
      BY <1>3, <2>3
    <2> QED
      BY <2>3, <2>4, <2>5, <2>7, <2>8, <2>9 DEF WritesChunk, IsSetAside
  <1> QED
    BY <1>1, <1>2, <1>3
-----------------------------------------------------------------------------
(* The invariant                                                           *)

PackedTypes ==
    /\ alignment \in Alignments
    /\ {typed, closed} \subseteq BOOLEAN
    /\ overrun = FALSE
    /\ bufSize \in 0 .. MaxWords[alignment]
    /\ bufCapacity \in Nat /\ alignment <= bufCapacity
    /\ mem \in Memories /\ DOMAIN mem \subseteq 0 .. bufCapacity - 1
    /\ freeRegionsTree \subseteq Nat \X Nat
    /\ blocks \subseteq [at : Nat, size : Nat]

Starts == WalkBuffer(mem, bufSize)

(* What is held and what is free are the chunks WalkBuffer meets.          *)
BufferCut ==
    IF closed THEN blocks = {} ELSE
        /\ bufSize <= bufCapacity
        /\ Buffer(mem, Starts, bufSize, alignment)
        /\ freeRegionsTree = FreeChunks(mem, Starts)
        /\ blocks = HeldChunks(mem, Starts)

PackedInv == PackedTypes /\ BufferCut

(* A heap serves an alignment of at most four words.                       *)
LEMMA AlignmentIs ==
    ASSUME Ordinary, PackedTypes
    PROVE  alignment \in {1, 2, 4} /\ bufSize \in Nat /\ MaxWords[alignment] \in Nat
  BY PackedAssumption DEF Ordinary, PackedTypes

(* The invariant holds where there is some way to cut the buffer.          *)
LEMMA CutIs ==
    ASSUME PackedTypes', ~closed', NEW W, (bufSize <= bufCapacity)',
           Buffer(mem', W, bufSize', alignment'),
           freeRegionsTree' = FreeChunks(mem', W), blocks' = HeldChunks(mem', W)
    PROVE  PackedInv'
  <1>1. mem' \in Memories /\ bufSize' \in Nat
    BY DEF PackedTypes
  <1>2. Starts' = W
    BY <1>1, WalkBufferWalks DEF Starts, Buffer
  <1> QED
    BY <1>2 DEF PackedInv, BufferCut

(* The chunks are of natural sizes and addresses.                          *)
LEMMA ChunkTypes ==
    ASSUME NEW m \in Memories, NEW W, W \subseteq DOMAIN m
    PROVE  /\ FreeChunks(m, W) \subseteq Nat \X Nat
           /\ HeldChunks(m, W) \subseteq [at : Nat, size : Nat]
  <1>1. \A a \in W : a \in Nat /\ m[a].size \in Nat
    BY StepFacts
  <1> QED
    BY <1>1 DEF FreeChunks, HeldChunks

(* The initial state: a buffer of no words.                                *)
LEMMA PInit == Ordinary /\ Init => PackedInv
  <1> SUFFICES ASSUME Ordinary, Init PROVE PackedInv
    OBVIOUS
  <1>1. alignment \in {1, 2, 4}
    BY DEF Ordinary, Init
  <1>2. alignment <= Capacity * alignment /\ Capacity * alignment \in Nat
    <2>1. Capacity \in Nat /\ Capacity >= 1
      BY PackedAssumption DEF Ordinary
    <2> QED
      BY <1>1, <2>1
  <1>3. mem \in Memories /\ DOMAIN mem = {}
    <2>1. mem = <<>>
      BY DEF Init
    <2>2. mem \in [{} -> Tags] /\ DOMAIN mem = {}
      BY <2>1
    <2> QED
      BY <2>2, MemoryIs
  <1>4. PackedTypes
    <2>1. bufSize \in 0 .. MaxWords[alignment] /\ alignment \in Alignments
      BY PackedAssumption DEF Init
    <2>2. bufCapacity \in Nat /\ alignment <= bufCapacity
      BY <1>2 DEF Init
    <2>3. /\ {typed, closed} \subseteq BOOLEAN /\ overrun = FALSE
          /\ freeRegionsTree = {} /\ blocks = {}
      BY DEF Init
    <2> QED
      BY <1>3, <2>1, <2>2, <2>3 DEF PackedTypes
  <1>5. Walks(mem, {}, 0, bufSize)
    BY <1>3 DEF Walks, Init
  <1>6. Starts = {}
    BY <1>3, <1>5, WalkBufferWalks DEF Starts, Init
  <1>7. Buffer(mem, {}, bufSize, alignment)
    BY <1>3, <1>5 DEF Buffer, Laid, Init
  <1>8. FreeChunks(mem, {}) = {} /\ HeldChunks(mem, {}) = {}
    BY DEF FreeChunks, HeldChunks
  <1> QED
    BY <1>2, <1>4, <1>6, <1>7, <1>8 DEF PackedInv, BufferCut, Init

(* FreeAll ends the use of the heap.                                       *)
LEMMA PFreeAll == Ordinary /\ PackedInv /\ FreeAll => PackedInv'
  <1> SUFFICES ASSUME Ordinary, PackedInv, FreeAll PROVE PackedInv'
    OBVIOUS
  <1>1. closed' = TRUE
    BY DEF FreeAll, Ordinary
  <1>2. PackedTypes'
    <2>1. /\ UNCHANGED <<alignment, typed, mem, bufCapacity, freeRegionsTree, overrun>>
          /\ bufSize' = 0 /\ blocks' = {}
      BY DEF FreeAll
    <2>2. MaxWords[alignment] \in Nat /\ PackedTypes
      BY AlignmentIs DEF PackedInv
    <2>3. bufSize' \in 0 .. MaxWords[alignment]
      BY <2>1, <2>2
    <2> QED
      BY <1>1, <2>1, <2>2, <2>3 DEF PackedTypes
  <1> QED
    BY <1>1, <1>2 DEF PackedInv, BufferCut, FreeAll

(* Where a chunk fits, the best of those that fit is one of them.          *)
LEMMA BestFits ==
    ASSUME NEW sz, NEW top \in Nat, freeRegionsTree \subseteq Nat \X Nat,
           \A r \in freeRegionsTree : r[2] <= top, Fitting(sz) # {}
    PROVE  Best(Fitting(sz)) \in Fitting(sz)
  <1> DEFINE S == Fitting(sz)
  <1>1. S \subseteq Nat \X Nat /\ \A r \in S : r[2] <= top
    BY DEF Fitting
  <1> HIDE DEF S
  <1> DEFINE Sizes == {r[1] : r \in S}
  <1>2. Sizes \in SUBSET Nat /\ Sizes # {}
    BY <1>1 DEF S
  <1>3. PICK s \in Sizes : \A u \in Sizes : s <= u
    <2> HIDE DEF Sizes
    <2> QED
      BY <1>2, Least
  <1> DEFINE Places == {a \in Nat : <<s, a>> \in S}
  <1>4. Places \in SUBSET Nat /\ Places # {} /\ \A a \in Places : a <= top
    BY <1>1
  <1>5. PICK a \in Places : \A c \in Places : c <= a
    <2> HIDE DEF Places
    <2> QED
      BY <1>4, Greatest
  <1> DEFINE isBest(r) == \A u \in S : r[1] < u[1] \/ (r[1] = u[1] /\ r[2] >= u[2])
  <1>6. isBest(<<s, a>>)
    <2> SUFFICES ASSUME NEW u \in S PROVE s < u[1] \/ (s = u[1] /\ a >= u[2])
      OBVIOUS
    <2>1. s <= u[1] /\ s \in Nat /\ u[1] \in Nat /\ u[2] \in Nat /\ u = <<u[1], u[2]>>
      BY <1>1, <1>2, <1>3
    <2>2. s = u[1] => u[2] \in Places
      BY <2>1
    <2> QED
      BY <1>5, <2>1, <2>2
  <1>7. <<s, a>> \in S
    OBVIOUS
  <1>8. Best(S) \in S
    <2>1. Best(S) = CHOOSE r \in S : isBest(r)
      BY DEF Best
    <2> HIDE DEF isBest
    <2> QED
      BY <1>6, <1>7, <2>1
  <1> QED
    BY <1>8 DEF S

(* A block in a free chunk: what it leaves is set aside above it.          *)
LEMMA PAllocFree ==
    ASSUME Ordinary, PackedInv, ~closed, NEW sz \in Nat, sz # 0, Multiple(sz, alignment),
           AllocFree(sz)
    PROVE  PackedInv'
  <1>1. /\ alignment \in {1, 2, 4} /\ bufSize \in Nat /\ PackedTypes
        /\ bufSize <= bufCapacity /\ mem \in Memories
    BY AlignmentIs DEF PackedInv, PackedTypes, BufferCut
  <1>2. PICK W : W = Starts
    OBVIOUS
  <1>3. /\ Buffer(mem, W, bufSize, alignment)
        /\ freeRegionsTree = FreeChunks(mem, W) /\ blocks = HeldChunks(mem, W)
    BY <1>2 DEF PackedInv, BufferCut
  <1>4. Walks(mem, W, 0, bufSize) /\ Laid(mem, W, alignment) /\ W \subseteq DOMAIN mem
        /\ DOMAIN mem \subseteq 0 .. bufSize - 1
    BY <1>3 DEF Buffer, Walks
  <1>5. PICK a \in W : /\ Best(Fitting(sz)) = <<mem[a].size, a>>
                       /\ mem[a].kind = "free" /\ mem[a].size >= sz + alignment - 1
    <2>1. freeRegionsTree \subseteq Nat \X Nat /\ Fitting(sz) # {}
      BY <1>1 DEF PackedTypes, AllocFree
    <2>2. ASSUME NEW r \in freeRegionsTree PROVE r[2] <= bufSize
      <3>1. PICK c \in W : r = <<mem[c].size, c>>
        BY <1>3 DEF FreeChunks
      <3>2. c \in 0 .. bufSize - 1
        BY <1>4
      <3> QED
        BY <1>1, <3>1, <3>2
    <2>3. Best(Fitting(sz)) \in Fitting(sz)
      BY <1>1, <2>1, <2>2, BestFits
    <2> QED
      BY <1>3, <2>3 DEF Fitting, FreeChunks
  <1>6. PICK size \in Nat : size = mem[a].size /\ size >= sz
    BY <1>1, <1>4, <1>5, StepFacts
  <1>7. a \in Nat /\ Multiple(a + 2, alignment) /\ Multiple(size, alignment)
        /\ StepUp(mem, a) = a + size + 4
    BY <1>1, <1>4, <1>5, <1>6, StepFacts DEF Laid
  <1>8. PICK delta \in Nat : delta = size - sz
    BY <1>6
  <1>9. PICK e \in Nat : e = a + sz + 4
    BY <1>7
  <1>10. PICK t \in Nat : t = a + size + 4
    BY <1>7
  <1>11. t = e + delta /\ e > a /\ t \in W \union {bufSize} /\ a < t
    BY <1>4, <1>6, <1>7, <1>8, <1>9, <1>10 DEF Walks
  <1>12. PICK g : g = [mem |-> mem, tree |-> freeRegionsTree \ {<<size, a>>}]
    OBVIOUS
  <1>13. PICK h : h = SetAside(g, e, delta)
    OBVIOUS
  <1>14. /\ Hold(h, a + 2, sz)
         /\ UNCHANGED <<alignment, typed, bufSize, bufCapacity, overrun, closed>>
    <2>1. AlignUp(a + MetaSize) = a + 2
      BY <1>1, <1>7, AlignUpIs DEF MetaSize
    <2>2. SetAsideBelow([mem |-> mem, tree |-> Taken(<<size, a>>)], a + MetaSize,
                        AlignUp(a + MetaSize) - MetaSize - (a + MetaSize), sz) = g
      BY <1>7, <1>12, <2>1 DEF SetAsideBelow, Taken, MetaSize
    <2>3. mem[a].size - (AlignUp(a + MetaSize) - (a + MetaSize)) - sz = delta
      BY <1>6, <1>7, <1>8, <2>1 DEF MetaSize
    <2>4. AlignUp(a + MetaSize) + sz + MetaSize = e
      BY <1>7, <1>9, <2>1 DEF MetaSize
    <2> QED
      BY <1>5, <1>6, <1>13, <2>1, <2>2, <2>3, <2>4 DEF AllocFree
  <1>15. PICK U : U = IF delta = 0 THEN {} ELSE {e}
    OBVIOUS
  <1>16. /\ h.mem \in Memories /\ SameOutside(mem, h.mem, e, t)
         /\ Walks(h.mem, U, e, t) /\ Laid(h.mem, U, alignment)
         /\ h.tree = (freeRegionsTree \ {<<size, a>>}) \union FreeChunks(h.mem, U)
         /\ HeldChunks(h.mem, U) = {}
    <2>1. Multiple(e + 2, alignment) /\ Multiple(delta, alignment)
      <3>1. \A j, k \in Int : Multiple(j, alignment) /\ Multiple(k, alignment) =>
                Multiple(j + k, alignment) /\ Multiple(j - k, alignment)
        BY <1>1, Multiples
      <3>2. Multiple(4, alignment)
        BY <1>1, Multiples
      <3>3. Multiple((a + 2) + sz, alignment)
        BY <1>7, <3>1
      <3>4. Multiple(((a + 2) + sz) + 4, alignment)
        BY <1>7, <3>1, <3>2, <3>3
      <3>5. ((a + 2) + sz) + 4 = e + 2
        BY <1>7, <1>9
      <3>6. Multiple(size - sz, alignment)
        BY <1>7, <3>1
      <3> QED
        BY <1>8, <3>4, <3>5, <3>6
    <2>2. e # 0
      BY <1>9, <1>7
    <2>3. PICK tree : tree = freeRegionsTree \ {<<size, a>>}
      OBVIOUS
    <2>4. g = [mem |-> mem, tree |-> tree]
      BY <1>12, <2>3
    <2>5. IsSetAside(mem, tree, h, U, e, delta, alignment)
      BY <1>1, <1>13, <1>15, <2>1, <2>2, <2>4, RestCell
    <2> QED
      BY <1>11, <2>3, <2>5 DEF IsSetAside
  <1>17. PICK w : w = Wiped(h.mem, a + 2, a + 2 + sz)
    OBVIOUS
  <1>18. /\ mem' = Tagged(w, a, "used", sz)
         /\ freeRegionsTree' = h.tree
         /\ blocks' = blocks \union {[at |-> a + 2, size |-> sz]}
    <2>2. PICK ret : ret = a + 2
      OBVIOUS
    <2>3. Hold(h, ret, sz) /\ w = Wiped(h.mem, ret, ret + sz) /\ ret - MetaSize = a
      <3>1. Hold(h, ret, sz)
        BY <1>14, <2>2
      <3>2. w = Wiped(h.mem, ret, ret + sz)
        BY <1>17, <2>2, Zenon
      <3>3. ret - MetaSize = a
        BY <1>7, <2>2 DEF MetaSize
      <3> QED
        BY <3>1, <3>2, <3>3
    <2>4. mem' = Tagged(w, a, "used", sz)
      BY <2>3 DEF Hold
    <2>5. freeRegionsTree' = h.tree /\ blocks' = blocks \union {[at |-> a + 2, size |-> sz]}
      BY <1>14 DEF Hold
    <2> QED
      BY <2>4, <2>5
  <1>19. Wipes(h.mem, w, a + 2, a + 2 + sz)
    BY <1>16, <1>17, WipedIs
  <1>20. WritesChunk(w, mem', a, "used", sz)
    BY <1>7, <1>18, <1>19, ChunkCell DEF Wipes
  <1>21. mem' \in Memories /\ Walks(mem', {a}, a, e) /\ mem'[a].kind = "used" /\ mem'[a].size = sz
    BY <1>9, <1>7, <1>20 DEF WritesChunk
  <1>22. SameOutside(h.mem, mem', a, e)
    BY <1>7, <1>9, <1>16, <1>19, <1>20, MemoryFacts DEF SameOutside, Wipes, WritesChunk
  <1>23. SameOutside(mem, mem', a, t)
    <2>1. DOMAIN mem \subseteq Nat
      BY <1>4
    <2> QED
      BY <1>7, <1>11, <1>16, <1>22, <2>1 DEF SameOutside
  <1>24. Walks(mem', {a} \union U, a, t)
    <2>1. Walks(mem', U, e, t)
      BY <1>16, <1>21, <1>22, WalksSame DEF SameOutside
    <2> QED
      BY <1>7, <1>11, <1>21, <2>1, WalksJoin
  <1>25. \A x \in U : mem'[x] = h.mem[x] /\ x # a
    BY <1>9, <1>7, <1>15, <1>16, <1>22 DEF SameOutside, Walks
  <1>26. Laid(mem', {a} \union U, alignment)
    BY <1>7, <1>16, <1>21, <1>25 DEF Laid
  <1>27. /\ FreeChunks(mem', {a} \union U) = FreeChunks(h.mem, U)
         /\ HeldChunks(mem', {a} \union U) = {[at |-> a + 2, size |-> sz]}
    BY <1>16, <1>21, <1>25 DEF FreeChunks, HeldChunks
  <1>28. DOMAIN mem' \subseteq 0 .. bufSize - 1
    <2>1. t <= bufSize
      BY <1>1, <1>4, <1>7, <1>10, <1>11 DEF Walks
    <2> QED
      BY <1>1, <1>4, <1>7, <1>23, <2>1 DEF SameOutside
  <1>29. PICK rest : rest = {x \in W : x < a \/ x >= t}
    OBVIOUS
  <1>30. rest = W \ {a}
    <2>1. \A x \in W : x \in Nat /\ (a < x => t <= x)
      BY <1>1, <1>4, <1>7, <1>10 DEF Walks
    <2>2. \A x \in W : (x < a \/ x >= t) <=> x # a
      BY <1>7, <1>11, <2>1
    <2> QED
      BY <1>29, <2>2
  <1>31. /\ Buffer(mem', rest \union ({a} \union U), bufSize, alignment)
         /\ FreeChunks(mem', rest \union ({a} \union U))
                = FreeChunks(mem, rest) \union FreeChunks(mem', {a} \union U)
         /\ HeldChunks(mem', rest \union ({a} \union U))
                = HeldChunks(mem, rest) \union HeldChunks(mem', {a} \union U)
    <2>1. \A x \in DOMAIN mem : x < a \/ x >= t => x \in DOMAIN mem' /\ mem'[x] = mem[x]
      BY <1>23 DEF SameOutside
    <2>2. PICK Y : Y = {a} \union U
      OBVIOUS
    <2>3. Walks(mem', Y, a, t) /\ Laid(mem', Y, alignment)
      BY <1>24, <1>26, <2>2
    <2>4. mem' \in Memories /\ a < t /\ t \in W \union {bufSize}
      BY <1>11, <1>21
    <2>5. Anew(mem, mem', rest, Y, bufSize, alignment)
      BY <1>1, <1>3, <1>28, <1>29, <2>1, <2>3, <2>4, Recut
    <2> QED
      BY <2>2, <2>5 DEF Anew
  <1>32. /\ FreeChunks(mem, rest) = freeRegionsTree \ {<<size, a>>}
         /\ HeldChunks(mem, rest) = blocks
    BY <1>3, <1>5, <1>6, <1>30 DEF FreeChunks, HeldChunks
  <1>33. PICK V : V = rest \union ({a} \union U)
    OBVIOUS
  <1>34. freeRegionsTree' = FreeChunks(mem', V) /\ blocks' = HeldChunks(mem', V)
    BY <1>16, <1>18, <1>27, <1>31, <1>32, <1>33
  <1>35. PackedTypes'
    <2>1. V \subseteq DOMAIN mem'
      BY <1>31, <1>33 DEF Buffer, Walks
    <2>2. freeRegionsTree' \subseteq Nat \X Nat /\ blocks' \subseteq [at : Nat, size : Nat]
      BY <1>21, <1>34, <2>1, ChunkTypes
    <2>3. DOMAIN mem' \subseteq 0 .. bufCapacity' - 1
      BY <1>1, <1>14, <1>28 DEF PackedTypes
    <2> QED
      BY <1>1, <1>14, <1>21, <2>2, <2>3 DEF PackedTypes
  <1> QED
    BY <1>1, <1>14, <1>31, <1>33, <1>34, <1>35, CutIs

(* A block at the end of the buffer, which may be a new one.               *)
LEMMA PAllocEnd ==
    ASSUME Ordinary, PackedInv, ~closed, NEW sz \in Nat, sz # 0, Multiple(sz, alignment),
           AllocEnd(sz)
    PROVE  PackedInv'
  <1>1. /\ alignment \in {1, 2, 4} /\ bufSize \in Nat /\ PackedTypes
        /\ bufSize <= bufCapacity /\ mem \in Memories
        /\ bufCapacity \in Nat /\ alignment <= bufCapacity
    BY AlignmentIs DEF PackedInv, PackedTypes, BufferCut
  <1>2. PICK W : W = Starts
    OBVIOUS
  <1>3. /\ Buffer(mem, W, bufSize, alignment)
        /\ freeRegionsTree = FreeChunks(mem, W) /\ blocks = HeldChunks(mem, W)
    BY <1>2 DEF PackedInv, BufferCut
  <1>4. /\ Walks(mem, W, 0, bufSize) /\ Laid(mem, W, alignment) /\ W \subseteq DOMAIN mem
        /\ DOMAIN mem \subseteq 0 .. bufSize - 1
        /\ bufSize # 0 => Multiple(bufSize + 2, alignment)
    BY <1>3 DEF Buffer, Walks
  <1>5. PICK ret \in Nat : /\ ret = BaseIdx /\ Multiple(ret, alignment) /\ ret >= bufSize + 2
                           /\ bufSize # 0 => ret = bufSize + 2
                           /\ bufSize = 0 /\ alignment # 4 => ret = 2
                           /\ bufSize = 0 /\ alignment = 4 => ret = 4
    <2>1. CASE bufSize = 0
      <3>1. BaseIdx = AlignUp(2)
        BY <2>1 DEF BaseIdx, MetaSize
      <3> QED
        BY <1>1, <2>1, <3>1, AlignUpIs
    <2>2. CASE bufSize # 0
      <3>1. BaseIdx = bufSize + 2
        BY <1>1, <1>4, <2>2, AlignUpIs DEF BaseIdx, MetaSize
      <3> QED
        BY <1>1, <1>4, <2>2, <3>1
    <2> QED
      BY <2>1, <2>2
  <1>6. PICK limit \in Nat : limit = ret - 2
    BY <1>1, <1>5
  <1>7. PICK hole \in Nat : hole = limit - bufSize
    BY <1>1, <1>5, <1>6
  <1>8. /\ limit = bufSize + hole /\ hole \in 0 .. sz - 1
        /\ hole # 0 => bufSize = 0 /\ hole = 2 /\ alignment = 4
    <2>1. sz >= alignment
      BY <1>1, Multiples
    <2> QED
      BY <1>1, <1>5, <1>6, <1>7, <2>1
  <1>9. PICK g : g = [mem |-> mem, tree |-> freeRegionsTree]
    OBVIOUS
  <1>10. PICK below : below = SetAside(g, bufSize, hole)
    OBVIOUS
  <1>11. PICK top \in Nat : top = ret + sz + 2
    BY <1>5
  <1> DEFINE grows == bufCapacity < top
  <1>13. PICK h : h = IF grows THEN [below EXCEPT !.mem = Moved(@, limit)] ELSE below
    OBVIOUS
  <1>14. /\ Hold(h, ret, sz)
         /\ top <= MaxWords[alignment]
         /\ bufSize' = top
         /\ bufCapacity' = IF grows THEN top * GrowFactor ELSE bufCapacity
         /\ overrun' = (\/ hole \in 1 .. sz - 1 /\ limit > bufCapacity
                        \/ bufSize' > bufCapacity')
         /\ closed' = overrun'
         /\ UNCHANGED <<alignment, typed>>
    <2>1. BaseIdx - MetaSize - bufSize = hole /\ BaseIdx - MetaSize = limit
      BY <1>1, <1>5, <1>6, <1>7 DEF MetaSize
    <2>2. SetAsideBelow(g, bufSize, hole, sz) = below
      BY <1>8, <1>10 DEF SetAsideBelow
    <2>3. Needed(BaseIdx, sz) = top /\ BaseIdx + sz + MetaSize = top
      BY <1>5, <1>11 DEF Needed, MetaSize
    <2> QED
      BY <1>5, <1>9, <1>13, <2>1, <2>2, <2>3 DEF AllocEnd
  <1>15. PICK U : U = IF hole = 0 THEN {} ELSE {bufSize}
    OBVIOUS
  <1>16. IsSetAside(mem, freeRegionsTree, below, U, bufSize, hole, alignment)
    <2>1. Multiple(hole, alignment) \/ bufSize = 0
      BY <1>1, <1>8, Multiples
    <2>2. bufSize = 0 \/ (Multiple(bufSize + 2, alignment) /\ Multiple(hole, alignment))
      BY <1>4, <2>1
    <2>3. bufSize = 0 => hole < 4
      BY <1>8
    <2> QED
      BY <1>1, <1>9, <1>10, <1>15, <2>2, <2>3, RestCell
  <1>17. PICK m1 : m1 = below.mem
    OBVIOUS
  <1>18. /\ m1 \in Memories /\ SameOutside(mem, m1, bufSize, limit)
         /\ Walks(m1, U, bufSize, limit) /\ Laid(m1, U, alignment)
         /\ below.tree = freeRegionsTree \union FreeChunks(m1, U)
         /\ HeldChunks(m1, U) = {}
         /\ below = [mem |-> m1, tree |-> below.tree]
    BY <1>8, <1>16, <1>17 DEF IsSetAside
  <1>19. Walks(m1, W \union U, 0, limit)
    <2>1. \A x \in DOMAIN mem : 0 <= x /\ x < bufSize => x \in DOMAIN m1 /\ m1[x] = mem[x]
      BY <1>18 DEF SameOutside
    <2>2. Walks(m1, W, 0, bufSize)
      BY <1>1, <1>4, <1>18, <2>1, WalksSame
    <2> QED
      BY <1>1, <1>8, <1>18, <2>2, WalksJoin
  <1>20. PICK m2 : m2 = IF grows THEN Moved(m1, limit) ELSE m1
    OBVIOUS
  <1>21. Copies(m1, m2, W \union U, limit)
    <2>1. Copies(m1, m1, W \union U, limit)
      BY <1>18, <1>19 DEF Copies
    <2>2. Copies(m1, Moved(m1, limit), W \union U, limit)
      BY <1>18, <1>19, MovedIs
    <2> QED
      BY <1>20, <2>1, <2>2
  <1>22. h.mem = m2 /\ h.tree = below.tree
    BY <1>13, <1>18, <1>20
  <1>23. DOMAIN m2 \subseteq 0 .. limit - 1
    BY <1>1, <1>4, <1>8, <1>18, <1>21 DEF SameOutside, Copies
  <1>24. PICK w : w = Wiped(m2, ret, ret + sz)
    OBVIOUS
  <1>25. /\ mem' = Tagged(w, limit, "used", sz)
         /\ freeRegionsTree' = below.tree
         /\ blocks' = blocks \union {[at |-> limit + 2, size |-> sz]}
    <2>1. ret - MetaSize = limit /\ ret = limit + 2
      BY <1>5, <1>6 DEF MetaSize
    <2> QED
      BY <1>14, <1>22, <1>24, <2>1 DEF Hold
  <1>26. Wipes(m2, w, ret, ret + sz)
    BY <1>21, <1>24, WipedIs DEF Copies
  <1>27. WritesChunk(w, mem', limit, "used", sz)
    BY <1>25, <1>26, ChunkCell DEF Wipes
  <1>28. /\ mem' \in Memories /\ Walks(mem', {limit}, limit, top)
         /\ mem'[limit].kind = "used" /\ mem'[limit].size = sz
    <2>1. limit + sz + 4 = top
      BY <1>5, <1>6, <1>11
    <2> QED
      BY <1>27, <2>1 DEF WritesChunk
  <1>29. SameOutside(m2, mem', limit, top)
    BY <1>5, <1>6, <1>11, <1>21, <1>26, <1>27, MemoryFacts
       DEF SameOutside, Wipes, WritesChunk, Copies
  <1>30. \A x \in W \union U : x \in DOMAIN m2 /\ mem'[x] = m1[x] /\ x # limit
    <2>1. ASSUME NEW x \in W \union U
          PROVE  x \in DOMAIN m2 /\ mem'[x] = m1[x] /\ x # limit
      <3>1. x \in DOMAIN m2 /\ m2[x] = m1[x]
        BY <1>21 DEF Copies, Walks
      <3>2. x < limit /\ x # limit
        BY <1>23, <3>1
      <3> QED
        BY <1>29, <3>1, <3>2 DEF SameOutside
    <2> QED
      BY <2>1
  <1>31. \A x \in W : m1[x] = mem[x]
    <2>1. \A x \in W : x \in DOMAIN mem /\ x < bufSize
      BY <1>1, <1>4
    <2> QED
      BY <1>18, <2>1 DEF SameOutside
  <1>32. PICK V : V = (W \union U) \union {limit}
    OBVIOUS
  <1>33. Walks(mem', V, 0, top)
    <2>1. \A x \in DOMAIN m2 : 0 <= x /\ x < limit => x \in DOMAIN mem' /\ mem'[x] = m2[x]
      BY <1>29 DEF SameOutside
    <2>2. PICK Y : Y = W \union U
      OBVIOUS
    <2>3. Walks(m2, Y, 0, limit) /\ m2 \in Memories
      BY <1>21, <2>2 DEF Copies
    <2>4. Walks(mem', Y, 0, limit)
      BY <1>28, <2>1, <2>3, WalksSame
    <2>5. limit <= top /\ 0 <= limit
      BY <1>5, <1>6, <1>11
    <2>6. Walks(mem', Y \union {limit}, 0, top)
      BY <1>28, <2>4, <2>5, WalksJoin
    <2> QED
      BY <1>32, <2>2, <2>6
  <1>34. DOMAIN mem' \subseteq 0 .. top - 1
    BY <1>5, <1>6, <1>11, <1>23, <1>29 DEF SameOutside
  <1>35. Multiple(limit + 2, alignment) /\ Multiple(top + 2, alignment)
    <2>1. \A j, k \in Int : Multiple(j, alignment) /\ Multiple(k, alignment) =>
              Multiple(j + k, alignment)
      BY <1>1, Multiples
    <2>2. Multiple(4, alignment)
      BY <1>1, Multiples
    <2>3. Multiple(ret + sz, alignment)
      BY <1>5, <2>1
    <2>4. Multiple((ret + sz) + 4, alignment)
      BY <2>1, <2>2, <2>3
    <2>5. (ret + sz) + 4 = top + 2 /\ limit + 2 = ret
      BY <1>5, <1>6, <1>11
    <2> QED
      BY <1>5, <2>4, <2>5
  <1>36. Laid(mem', V, alignment)
    BY <1>4, <1>18, <1>28, <1>30, <1>31, <1>32, <1>35 DEF Laid
  <1>37. Buffer(mem', V, top, alignment)
    BY <1>33, <1>34, <1>35, <1>36 DEF Buffer
  <1>38. FreeChunks(mem', V) = FreeChunks(mem, W) \union FreeChunks(m1, U)
    BY <1>28, <1>30, <1>31, <1>32 DEF FreeChunks
  <1>39. HeldChunks(mem', V) = HeldChunks(mem, W) \union {[at |-> limit + 2, size |-> sz]}
    <2>1. HeldChunks(mem', V) = (HeldChunks(mem, W) \union HeldChunks(m1, U))
                                    \union {[at |-> limit + 2, size |-> sz]}
      BY <1>28, <1>30, <1>31, <1>32 DEF HeldChunks
    <2> QED
      BY <1>18, <2>1
  <1>40. freeRegionsTree' = FreeChunks(mem', V) /\ blocks' = HeldChunks(mem', V)
    BY <1>3, <1>18, <1>25, <1>38, <1>39
  <1>41. bufCapacity' \in Nat /\ top <= bufCapacity' /\ alignment <= bufCapacity'
    <2>1. CASE grows
      BY <1>1, <1>14, <2>1 DEF GrowFactor
    <2>2. CASE ~grows
      BY <1>1, <1>14, <2>2
    <2> QED
      BY <2>1, <2>2
  <1>42. overrun' = FALSE /\ closed' = FALSE
    <2>1. hole \in 1 .. sz - 1 => limit <= bufCapacity
      BY <1>1, <1>8
    <2>2. ~(bufSize' > bufCapacity')
      BY <1>14, <1>41
    <2> QED
      BY <1>1, <1>14, <2>1, <2>2
  <1>43. PackedTypes'
    <2>1. V \subseteq DOMAIN mem'
      BY <1>33 DEF Walks
    <2>2. freeRegionsTree' \subseteq Nat \X Nat /\ blocks' \subseteq [at : Nat, size : Nat]
      BY <1>28, <1>40, <2>1, ChunkTypes
    <2>3. DOMAIN mem' \subseteq 0 .. bufCapacity' - 1
      BY <1>34, <1>41
    <2>4. bufSize' \in 0 .. MaxWords[alignment]'
      BY <1>14, AlignmentIs, <1>1
    <2> QED
      BY <1>1, <1>14, <1>28, <1>41, <1>42, <2>2, <2>3, <2>4 DEF PackedTypes
  <1> QED
    BY <1>14, <1>37, <1>40, <1>41, <1>42, <1>43, CutIs

(* Free finds the tags of a block, and a hole above it joins the chunk.    *)
LEMMA PFree ==
    ASSUME Ordinary, PackedInv, NEW b \in blocks, Free(b)
    PROVE  PackedInv'
  <1>1. /\ alignment \in {1, 2, 4} /\ bufSize \in Nat /\ PackedTypes
        /\ bufSize <= bufCapacity /\ mem \in Memories /\ ~closed
    BY AlignmentIs DEF PackedInv, PackedTypes, BufferCut, Free
  <1>2. PICK W : W = Starts
    OBVIOUS
  <1>3. /\ Buffer(mem, W, bufSize, alignment)
        /\ freeRegionsTree = FreeChunks(mem, W) /\ blocks = HeldChunks(mem, W)
    BY <1>1, <1>2 DEF PackedInv, BufferCut
  <1>4. /\ Walks(mem, W, 0, bufSize) /\ Laid(mem, W, alignment) /\ W \subseteq DOMAIN mem
        /\ DOMAIN mem \subseteq 0 .. bufSize - 1
    BY <1>3 DEF Buffer, Walks
  <1>5. PICK a \in W : mem[a].kind = "used" /\ b = [at |-> a + 2, size |-> mem[a].size]
    BY <1>3 DEF HeldChunks
  <1>6. PICK size \in Nat : size = mem[a].size
    BY <1>1, <1>4, StepFacts
  <1>7. PICK end \in Nat : end = a + size + 4
    BY <1>1, <1>4, <1>6, StepFacts
  <1>8. /\ a \in Nat /\ Multiple(a + 2, alignment) /\ Multiple(size, alignment)
        /\ StepUp(mem, a) = end /\ end \in W \union {bufSize}
        /\ b.at = a + 2 /\ b.size = size
    BY <1>1, <1>4, <1>5, <1>6, <1>7, StepFacts DEF Laid, Walks
  <1>9. Valid(b.at) /\ b.at - MetaSize = a
    <2>1. a + 2 + size \in DOMAIN mem /\ mem[a + 2 + size] = mem[a]
      BY <1>4, <1>5, <1>6 DEF Walks, MetaSize
    <2>2. b.at - MetaSize = a
      BY <1>8 DEF MetaSize
    <2>3. a \in DOMAIN mem
      BY <1>4
    <2> QED
      BY <1>5, <1>6, <1>8, <2>1, <2>2, <2>3 DEF Valid
  <1>10. /\ HoleAt(end) \in Nat /\ Multiple(HoleAt(end), alignment)
         /\ end + HoleAt(end) \in W \union {bufSize}
         /\ \A x \in W : x < a \/ x = a \/ (x = end /\ HoleAt(end) # 0) \/ x >= end + HoleAt(end)
         /\ HoleAt(end) # 0 => end \in W /\ mem[end].kind = "hole"
    <2>1. \A x \in W : x \in Nat /\ (x < a \/ x = a \/ x >= end)
      BY <1>1, <1>4, <1>8 DEF Walks
    <2>2. CASE end \in DOMAIN mem /\ mem[end].kind = "hole"
      <3>1. end \in W /\ HoleAt(end) = mem[end].size
        BY <1>1, <1>4, <1>8, <2>2 DEF HoleAt
      <3>2. /\ mem[end].size \in Nat /\ StepUp(mem, end) = end + mem[end].size
            /\ StepUp(mem, end) > end
        BY <1>1, <1>4, <2>2, <3>1, StepFacts DEF Walks
      <3>3. \A x \in W : x <= end \/ x >= StepUp(mem, end)
        BY <1>4, <1>7, <2>1, <3>1 DEF Walks
      <3>4. StepUp(mem, end) \in W \union {bufSize}
        BY <1>4, <3>1 DEF Walks
      <3>5. Multiple(mem[end].size, alignment)
        BY <1>4, <1>7, <1>8, <2>2, <3>1 DEF Laid
      <3> QED
        BY <2>1, <2>2, <3>1, <3>2, <3>3, <3>4, <3>5
    <2>3. CASE ~(end \in DOMAIN mem /\ mem[end].kind = "hole")
      <3>1. HoleAt(end) = 0
        BY <2>3 DEF HoleAt
      <3>2. Multiple(0, alignment)
        BY <1>1, Multiples
      <3>3. end + HoleAt(end) = end
        BY <1>7, <3>1
      <3>4. HoleAt(end) \in Nat /\ Multiple(HoleAt(end), alignment)
        BY <3>1, <3>2
      <3> QED
        BY <1>8, <2>1, <3>1, <3>3, <3>4
    <2> QED
      BY <2>2, <2>3
  <1>11. PICK sz \in Nat : sz = size + HoleAt(end)
    BY <1>6, <1>10
  <1>12. PICK t \in Nat : t = end + HoleAt(end)
    BY <1>7, <1>10
  <1>13. t = a + sz + 4 /\ t > a /\ t \in W \union {bufSize} /\ t <= bufSize
    <2>1. t = a + sz + 4 /\ t > a /\ t \in W \union {bufSize}
      BY <1>6, <1>7, <1>8, <1>10, <1>11, <1>12
    <2> QED
      BY <1>1, <1>4, <2>1
  <1>14. /\ mem' = Tagged(mem, a, "free", sz)
         /\ freeRegionsTree' = freeRegionsTree \union {<<sz, a>>}
         /\ blocks' = blocks \ {b}
         /\ UNCHANGED <<alignment, typed, bufSize, bufCapacity, overrun, closed>>
    <2>1. b.at + mem[b.at - MetaSize].size + MetaSize = end
      BY <1>6, <1>7, <1>8, <1>9 DEF MetaSize
    <2>2. end + HoleAt(end) - MetaSize - b.at = sz
      BY <1>6, <1>7, <1>8, <1>10, <1>11 DEF MetaSize
    <2>3. Freed(b.at, sz) = {<<sz, a>>}
      BY <1>9 DEF Freed
    <2> QED
      BY <1>9, <2>1, <2>2, <2>3 DEF Free
  <1>15. WritesChunk(mem, mem', a, "free", sz)
    BY <1>1, <1>8, <1>14, ChunkCell
  <1>16. /\ mem' \in Memories /\ SameOutside(mem, mem', a, t) /\ Walks(mem', {a}, a, t)
         /\ mem'[a].kind = "free" /\ mem'[a].size = sz
    BY <1>13, <1>15 DEF WritesChunk
  <1>17. Laid(mem', {a}, alignment)
    <2>1. \A j, k \in Int : Multiple(j, alignment) /\ Multiple(k, alignment) =>
              Multiple(j + k, alignment)
      BY <1>1, Multiples
    <2>2. PICK hole \in Nat : hole = HoleAt(end)
      BY <1>10
    <2>3. Multiple(size, alignment) /\ Multiple(hole, alignment) /\ sz = size + hole
      BY <1>8, <1>10, <1>11, <2>2
    <2>4. Multiple(size + hole, alignment)
      BY <2>1, <2>3
    <2>5. Multiple(sz, alignment)
      BY <2>3, <2>4
    <2> QED
      BY <1>8, <1>16, <2>5 DEF Laid
  <1>18. PICK V : V = {a}
    OBVIOUS
  <1>19. PICK rest : rest = {x \in W : x < a \/ x >= t}
    OBVIOUS
  <1>20. Anew(mem, mem', rest, V, bufSize, alignment)
    <2>1. \A x \in DOMAIN mem : x < a \/ x >= t => x \in DOMAIN mem' /\ mem'[x] = mem[x]
      BY <1>16 DEF SameOutside
    <2>2. DOMAIN mem' \subseteq 0 .. bufSize - 1
      BY <1>1, <1>4, <1>8, <1>13, <1>16 DEF SameOutside
    <2>3. Walks(mem', V, a, t) /\ Laid(mem', V, alignment)
      BY <1>16, <1>17, <1>18
    <2> QED
      BY <1>1, <1>3, <1>13, <1>16, <1>19, <2>1, <2>2, <2>3, Recut
  <1>21. \A x \in W : x \in rest \/ x = a \/ mem[x].kind = "hole"
    BY <1>10, <1>12, <1>19
  <1>22. a \notin rest /\ rest \subseteq W
    BY <1>8, <1>13, <1>19
  <1>23. freeRegionsTree' = FreeChunks(mem', rest \union V)
    <2>1. FreeChunks(mem, rest) = FreeChunks(mem, W)
      BY <1>5, <1>21, <1>22 DEF FreeChunks
    <2>2. FreeChunks(mem', V) = {<<sz, a>>}
      BY <1>16, <1>18 DEF FreeChunks
    <2> QED
      BY <1>3, <1>14, <1>20, <2>1, <2>2 DEF Anew
  <1>24. blocks' = HeldChunks(mem', rest \union V)
    <2>1. HeldChunks(mem, rest) = HeldChunks(mem, W) \ {b}
      <3>1. \A x \in W : x \in Nat
        BY <1>4
      <3>2. \A x \in rest : [at |-> x + 2, size |-> mem[x].size] # b
        BY <1>8, <1>22, <3>1
      <3>3. \A x \in W : mem[x].kind = "used" /\ [at |-> x + 2, size |-> mem[x].size] # b => x \in rest
        BY <1>5, <1>21
      <3> QED
        BY <1>22, <3>2, <3>3 DEF HeldChunks
    <2>2. HeldChunks(mem', V) = {}
      BY <1>16, <1>18 DEF HeldChunks
    <2> QED
      BY <1>3, <1>14, <1>20, <2>1, <2>2 DEF Anew
  <1>25. Buffer(mem', rest \union V, bufSize, alignment)
    BY <1>20 DEF Anew
  <1>26. PackedTypes'
    <2>1. rest \union V \subseteq DOMAIN mem' /\ DOMAIN mem' \subseteq 0 .. bufSize - 1
      BY <1>25 DEF Buffer, Walks
    <2>2. freeRegionsTree' \subseteq Nat \X Nat /\ blocks' \subseteq [at : Nat, size : Nat]
      BY <1>16, <1>23, <1>24, <2>1, ChunkTypes
    <2>3. DOMAIN mem' \subseteq 0 .. bufCapacity' - 1
      BY <1>1, <1>14, <2>1 DEF PackedTypes
    <2> QED
      BY <1>1, <1>14, <1>16, <2>2, <2>3 DEF PackedTypes
  <1>27. PICK Y : Y = rest \union V
    OBVIOUS
  <1>28. /\ Buffer(mem', Y, bufSize', alignment') /\ (bufSize <= bufCapacity)'
         /\ freeRegionsTree' = FreeChunks(mem', Y) /\ blocks' = HeldChunks(mem', Y)
    BY <1>1, <1>14, <1>23, <1>24, <1>25, <1>27
  <1> QED
    BY <1>1, <1>14, <1>26, <1>28, CutIs

(* Every step keeps the invariant.                                         *)
LEMMA PNext == Ordinary /\ PackedInv /\ [Next]_vars => PackedInv'
  <1> SUFFICES ASSUME Ordinary, PackedInv, [Next]_vars PROVE PackedInv'
    OBVIOUS
  <1>1. ASSUME NEW count \in Counts, Alloc(count) PROVE PackedInv'
    <2>1. alignment \in {1, 2, 4} /\ count \in Nat /\ count # 0
      BY PackedAssumption, AlignmentIs DEF PackedInv
    <2>2. PICK sz \in Nat : sz = count * alignment
      BY <2>1
    <2>3. Multiple(sz, alignment) /\ sz # 0
      <3>1. Multiple(count * alignment, alignment)
        BY <2>1, Multiples
      <3>2. count * alignment # 0
        BY <2>1
      <3> QED
        BY <2>2, <3>1, <3>2
    <2>4. ~closed /\ (AllocFree(sz) \/ AllocEnd(sz))
      BY <1>1, <2>2 DEF Alloc
    <2> QED
      BY <2>3, <2>4, PAllocFree, PAllocEnd
  <1>2. ASSUME NEW b \in blocks, Free(b) PROVE PackedInv'
    BY <1>2, PFree
  <1>3. CASE FreeAll
    BY <1>3, PFreeAll
  <1>4. CASE UNCHANGED vars
    BY <1>4 DEF vars, PackedInv, PackedTypes, BufferCut, Starts, WalkBuffer, StepUp
  <1> QED
    BY <1>1, <1>2, <1>3, <1>4 DEF Next

(* The invariant holds of every heap of this kind.                         *)
LEMMA PackedAlways == ASSUME Ordinary PROVE Spec => []PackedInv
  <1>1. Init => PackedInv
    BY PInit
  <1>2. PackedInv /\ [Next]_vars => PackedInv'
    BY PNext
  <1> QED
    BY <1>1, <1>2, PTL DEF Spec

-----------------------------------------------------------------------------
(* What follows                                                            *)

(* Every word that is written lies in the buffer: when an alignment leaves *)
(* a hole in front of the first block, the buffer that was made has room   *)
(* for it, and every later block lies where the last one ended.            *)
THEOREM WritesInBuffer == ASSUME Ordinary PROVE Spec => []StaysInside
  <1>1. PackedInv => StaysInside
    BY DEF PackedInv, PackedTypes, StaysInside
  <1> QED
    BY <1>1, PackedAlways, PTL

(* The types of the state.                                                 *)
THEOREM PackedTyped == ASSUME Ordinary PROVE Spec => []TypeOK
  <1>1. Ordinary /\ PackedInv => TypeOK
    <2> SUFFICES ASSUME Ordinary, PackedInv PROVE TypeOK
      OBVIOUS
    <2>1. \A a \in DOMAIN mem : mem[a] \in [kind : {"used", "free", "hole"}, size : Nat]
      BY MemoryFacts DEF PackedInv, PackedTypes, Tags
    <2> QED
      BY <2>1 DEF PackedInv, PackedTypes, TypeOK
  <1> QED
    BY <1>1, PackedAlways, PTL

(* Where two chunks start apart they lie apart.                            *)
LEMMA ChunksApart ==
    ASSUME NEW m \in Memories, NEW W, NEW top \in Nat, Walks(m, W, 0, top),
           NEW a \in W, NEW c \in W, a # c, m[a].kind # "hole", m[c].kind # "hole"
    PROVE  a + m[a].size + 4 <= c \/ c + m[c].size + 4 <= a
  <1>1. /\ a \in Nat /\ c \in Nat
        /\ StepUp(m, a) = a + m[a].size + 4 /\ StepUp(m, c) = c + m[c].size + 4
    BY StepFacts DEF Walks
  <1>2. a < c \/ c < a
    BY <1>1
  <1> QED
    BY <1>1, <1>2 DEF Walks

(* A block with its tags is a chunk of the buffer.                         *)
LEMMA BlockIs ==
    ASSUME Ordinary, PackedInv, ~closed, NEW b \in blocks
    PROVE  \E a \in Starts : /\ a \in Nat /\ mem[a].kind = "used" /\ mem[a].size \in Nat
                             /\ b = [at |-> a + 2, size |-> mem[a].size]
                             /\ Chunk(b) = [from |-> a, to |-> a + mem[a].size + 4]
                             /\ Multiple(b.at, alignment) /\ a + mem[a].size + 4 <= bufSize
                             /\ Valid(b.at) /\ b.at - MetaSize = a
  <1>1. /\ Buffer(mem, Starts, bufSize, alignment) /\ blocks = HeldChunks(mem, Starts)
        /\ mem \in Memories /\ bufSize \in Nat
    BY AlignmentIs DEF PackedInv, BufferCut, PackedTypes
  <1>2. Walks(mem, Starts, 0, bufSize) /\ Laid(mem, Starts, alignment)
    BY <1>1 DEF Buffer
  <1>3. PICK a \in Starts : mem[a].kind = "used" /\ b = [at |-> a + 2, size |-> mem[a].size]
    BY <1>1 DEF HeldChunks
  <1>4. PICK size : size = mem[a].size
    OBVIOUS
  <1>5. /\ a \in Nat /\ size \in Nat /\ a \in DOMAIN mem
        /\ StepUp(mem, a) = a + size + 4 /\ StepUp(mem, a) <= bufSize
    BY <1>1, <1>2, <1>3, <1>4, StepFacts DEF Walks
  <1>6. Chunk(b) = [from |-> a, to |-> a + size + 4]
    <2>1. (a + 2) - MetaSize = a /\ (a + 2) + size + MetaSize = a + size + 4
      BY <1>5 DEF MetaSize
    <2>2. b.at = a + 2 /\ b.size = size
      BY <1>3, <1>4
    <2>3. Chunk(b) = [from |-> b.at - MetaSize, to |-> b.at + b.size + MetaSize]
      BY DEF Chunk
    <2> QED
      BY <2>1, <2>2, <2>3
  <1>7. Multiple(b.at, alignment)
    BY <1>2, <1>3 DEF Laid
  <1>8. Valid(b.at) /\ b.at - MetaSize = a
    <2>1. a + 2 + size \in DOMAIN mem /\ mem[a + 2 + size] = mem[a]
      BY <1>2, <1>3, <1>4 DEF Walks, MetaSize
    <2>2. b.at - MetaSize = a /\ b.at = a + 2
      BY <1>3, <1>5 DEF MetaSize
    <2> QED
      BY <1>3, <1>4, <1>5, <2>1, <2>2 DEF Valid
  <1> QED
    BY <1>3, <1>4, <1>5, <1>6, <1>7, <1>8

(* No block shares a word, of its own or of its tags, with another block   *)
(* or with memory that will be handed out, and each is aligned and inside  *)
(* the buffer.                                                             *)
THEOREM BlocksApart == ASSUME Ordinary PROVE Spec => []Apart
  <1>1. ASSUME Ordinary, PackedInv PROVE Apart
    <2>1. CASE closed
      <3>1. blocks = {}
        BY <1>1, <2>1 DEF PackedInv, BufferCut
      <3> QED
        BY <3>1 DEF Apart
    <2>2. CASE ~closed
      <3>1. /\ Walks(mem, Starts, 0, bufSize) /\ mem \in Memories /\ bufSize \in Nat
            /\ freeRegionsTree = FreeChunks(mem, Starts)
        BY <1>1, <2>2, AlignmentIs DEF PackedInv, BufferCut, PackedTypes, Buffer
      <3>2. ASSUME NEW b \in blocks
            PROVE  b.at % alignment = 0 /\ Chunk(b).from >= 0 /\ Chunk(b).to <= bufSize
        <4>1. PICK a \in Starts : /\ a \in Nat
                                  /\ Chunk(b) = [from |-> a, to |-> a + mem[a].size + 4]
                                  /\ Multiple(b.at, alignment)
                                  /\ a + mem[a].size + 4 <= bufSize
          BY <1>1, <2>2, BlockIs
        <4> QED
          BY <4>1 DEF Multiple
      <3>3. ASSUME NEW b \in blocks, NEW c \in blocks, b # c
            PROVE  Disjoint(Chunk(b), Chunk(c))
        <4>1. PICK a \in Starts : /\ b = [at |-> a + 2, size |-> mem[a].size]
                                  /\ mem[a].kind = "used"
                                  /\ Chunk(b) = [from |-> a, to |-> a + mem[a].size + 4]
          BY <1>1, <2>2, BlockIs
        <4>2. PICK d \in Starts : /\ c = [at |-> d + 2, size |-> mem[d].size]
                                  /\ mem[d].kind = "used"
                                  /\ Chunk(c) = [from |-> d, to |-> d + mem[d].size + 4]
          BY <1>1, <2>2, BlockIs
        <4>3. a # d
          BY <3>3, <4>1, <4>2
        <4>4. a + mem[a].size + 4 <= d \/ d + mem[d].size + 4 <= a
          BY <3>1, <4>1, <4>2, <4>3, ChunksApart
        <4> QED
          BY <4>1, <4>2, <4>4 DEF Disjoint
      <3>4. ASSUME NEW b \in blocks, NEW r \in freeRegionsTree
            PROVE  Disjoint(Chunk(b), Region(r))
        <4>1. PICK a \in Starts : /\ mem[a].kind = "used"
                                  /\ Chunk(b) = [from |-> a, to |-> a + mem[a].size + 4]
          BY <1>1, <2>2, BlockIs
        <4>2. PICK d \in Starts : mem[d].kind = "free" /\ r = <<mem[d].size, d>>
          BY <3>1 DEF FreeChunks
        <4>3. Region(r) = [from |-> d, to |-> d + mem[d].size + 4]
          BY <4>2 DEF Region, MetaSize
        <4>4. a + mem[a].size + 4 <= d \/ d + mem[d].size + 4 <= a
          BY <3>1, <4>1, <4>2, ChunksApart
        <4> QED
          BY <4>1, <4>3, <4>4 DEF Disjoint
      <3> QED
        BY <3>2, <3>3, <3>4 DEF Apart
    <2> QED
      BY <2>1, <2>2
  <1> QED
    BY <1>1, PackedAlways, PTL

(* WalkBuffer meets every block and every free chunk, with their sizes,    *)
(* and passes from each to the next up to the end; and Free accepts every  *)
(* block.                                                                  *)
THEOREM WalkMeetsAll == ASSUME Ordinary PROVE Spec => []TagsAgree
  <1>1. ASSUME Ordinary, PackedInv PROVE WalkFindsAll
    <2>1. SUFFICES ASSUME ~closed
          PROVE  LET of(kind) == {a \in Starts : mem[a].kind = kind}
                 IN  /\ {<<mem[a].size, a>> : a \in of("used")}
                            = {<<b.size, b.at - MetaSize>> : b \in blocks}
                     /\ {<<mem[a].size, a>> : a \in of("free")} = freeRegionsTree
                     /\ bufSize # 0 => \E a \in Starts : StepUp(mem, a) = bufSize
      BY DEF WalkFindsAll, Starts
    <2>2. /\ Walks(mem, Starts, 0, bufSize) /\ mem \in Memories /\ bufSize \in Nat
          /\ freeRegionsTree = FreeChunks(mem, Starts) /\ blocks = HeldChunks(mem, Starts)
      BY <1>1, <2>1, AlignmentIs DEF PackedInv, BufferCut, PackedTypes, Buffer
    <2>3. bufSize # 0 => \E a \in Starts : StepUp(mem, a) = bufSize
      BY <2>2, WalksEnd
    <2>4. \A a \in Starts : a \in Nat /\ (a + 2) - MetaSize = a
      BY <2>2, StepFacts DEF Walks, MetaSize
    <2> DEFINE used == {<<mem[a].size, a>> : a \in {c \in Starts : mem[c].kind = "used"}}
               held == {<<b.size, b.at - MetaSize>> : b \in blocks}
    <2>5. ASSUME NEW p \in used PROVE p \in held
      <3>1. PICK a \in Starts : mem[a].kind = "used" /\ p = <<mem[a].size, a>>
        OBVIOUS
      <3>2. PICK b : b = [at |-> a + 2, size |-> mem[a].size]
        OBVIOUS
      <3>3. b \in blocks /\ b.size = mem[a].size /\ b.at - MetaSize = a
        BY <2>2, <2>4, <3>1, <3>2 DEF HeldChunks
      <3> QED
        BY <3>1, <3>3
    <2>6. ASSUME NEW p \in held PROVE p \in used
      <3>1. PICK b \in blocks : p = <<b.size, b.at - MetaSize>>
        OBVIOUS
      <3>2. PICK a \in Starts : mem[a].kind = "used" /\ b = [at |-> a + 2, size |-> mem[a].size]
        BY <2>2 DEF HeldChunks
      <3>3. b.size = mem[a].size /\ b.at - MetaSize = a
        BY <2>4, <3>2
      <3> QED
        BY <3>1, <3>2, <3>3
    <2>7. used = held
      BY <2>5, <2>6
    <2> QED
      BY <2>2, <2>3, <2>7 DEF FreeChunks
  <1>2. ASSUME Ordinary, PackedInv PROVE AllCanBeFreed
    <2>1. CASE closed
      <3>1. blocks = {}
        BY <1>2, <2>1 DEF PackedInv, BufferCut
      <3> QED
        BY <3>1 DEF AllCanBeFreed
    <2>2. CASE ~closed
      <3> SUFFICES ASSUME NEW b \in blocks
                   PROVE  Valid(b.at) /\ mem[b.at - MetaSize].size = b.size
        BY DEF AllCanBeFreed
      <3>1. PICK a \in Starts : /\ b = [at |-> a + 2, size |-> mem[a].size]
                                /\ Valid(b.at) /\ b.at - MetaSize = a
        BY <1>2, <2>2, BlockIs
      <3>2. b.size = mem[a].size
        BY <3>1
      <3> QED
        BY <3>1, <3>2
    <2> QED
      BY <2>1, <2>2
  <1>3. Ordinary /\ PackedInv => TagsAgree
    BY <1>1, <1>2 DEF TagsAgree
  <1> QED
    BY <1>3, PackedAlways, PTL

=============================================================================
