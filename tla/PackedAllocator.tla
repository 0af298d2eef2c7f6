-------------------------- MODULE PackedAllocator --------------------------
(***************************************************************************)
(* PackedAllocator and PackedHeap<T> (utils/packed_heap.h, .cpp): a buffer *)
(* of chunks with a boundary tag at either end, an index of the free ones  *)
(* by size, and marked holes where a rest is too small for a chunk.        *)
(*                                                                         *)
(* The unit is a word of 4 bytes, the least alignment.  A tag (MetaData)   *)
(* is two words; a chunk of size s that starts at a has its tags at a and  *)
(* a + 2 + s, and a client's index is a + 2.  A heap serves one alignment, *)
(* and sizes that are multiples of it, as every use in the repository.     *)
(*                                                                         *)
(* mem holds the words that were written by the allocator and not by a     *)
(* client since: the first word of a tag or of a hole.  What the byte at   *)
(* the end of the last chunk holds, which Free reads although nobody wrote *)
(* it, is taken not to be the mark of a hole.  The build is the default    *)
(* one, where PACKED_HEAP_MERGE_REGIONS is 0.                              *)
(***************************************************************************)
EXTENDS Integers, SequencesExt

CONSTANTS
    Alignments,     \* alignments a heap may be made for, in words
    Counts,         \* how many elements, of the size of the alignment, are asked for
    Capacity,       \* bufCapacity a heap is made with, in elements
    Reuse,          \* whether the heap is used again after FreeAll: then the index
                    \* names chunks of the old buffer, and WalkFindsAll fails
    MaxWords        \* bound: for each alignment, the most bufSize may be

ASSUME PackedAssumption ==
    /\ Alignments \subseteq Nat \ {0}
    /\ Counts \subseteq Nat \ {0}
    /\ Capacity \in Nat
    /\ Reuse \in BOOLEAN
    /\ MaxWords \in [Alignments -> Nat]

VARIABLES
    alignment,      \* std::alignment_of<T>, and the size of an element
    typed,          \* PackedHeap<T>, not a bare PackedAllocator
    mem, bufSize, bufCapacity,
    freeRegionsTree,    \* the free chunks, as pairs of size and address
    blocks,         \* history: the blocks clients hold
    overrun,        \* history: the allocator wrote beyond its buffer
    closed          \* the heap is not used any more

vars == <<alignment, typed, mem, bufSize, bufCapacity, freeRegionsTree, blocks,
          overrun, closed>>

MetaSize == 2       \* sizeof(MetaData)
GrowFactor == 2

Tag(kind, size) == [kind |-> kind, size |-> size]

AlignUp(a) == ((a + alignment - 1) \div alignment) * alignment

-----------------------------------------------------------------------------
(* Memory                                                                  *)

Wiped(m, from, to) == [a \in DOMAIN m \ (from .. to - 1) |-> m[a]]

(* The tags at both ends of a chunk.                                       *)
Tagged(m, a, kind, size) ==
    LET ends == {a, a + MetaSize + size}
    IN  [x \in DOMAIN m \union ends |-> IF x \in ends THEN Tag(kind, size) ELSE m[x]]

(* Too little for a chunk, FillHole marks it.                              *)
Fillable(size) == size \in 1 .. 2 * MetaSize - 1

FillHole(m, a, size) ==
    LET rest == Wiped(m, a, a + size)
    IN  [x \in {a} \union DOMAIN rest |-> IF x = a THEN Tag("hole", size) ELSE rest[x]]

(* A heap is its memory and its index of free chunks.  A rest of `size`    *)
(* words at a becomes a hole or a free chunk.                              *)
SetAside(h, a, size) ==
    LET spot == size - 2 * MetaSize
    IN  CASE size = 0       -> h
          [] Fillable(size) -> [h EXCEPT !.mem = FillHole(@, a, size)]
          [] OTHER          -> [mem |-> Tagged(h.mem, a, "free", spot),
                                tree |-> h.tree \union {<<spot, a>>}]

(* The same below a block whose alignment leaves a hole.  The distance is  *)
(* unsigned in the code: a negative one is not below sz.                   *)
SetAsideBelow(h, a, size, sz) ==
    IF size \in 0 .. sz - 1 THEN SetAside(h, a, size) ELSE h

(* WalkBuffer: the starts of the chunks and holes from 0 up to limit.      *)
StepUp(m, a) == a + m[a].size + IF m[a].kind = "hole" THEN 0 ELSE 2 * MetaSize

WalkBuffer(m, limit) ==
    LET next(a) == IF a < limit /\ a \in DOMAIN m THEN StepUp(m, a) ELSE limit
        at[k \in 0 .. limit] == IF k = 0 THEN 0 ELSE next(at[k - 1])
    IN  {at[k] : k \in 0 .. limit} \intersect (DOMAIN m \intersect 0 .. limit - 1)

(* Mutant of MoveChunks: holes are not copied.                             *)
MoveChunksOnly(m, limit) ==
    LET chunks == {a \in WalkBuffer(m, limit) : m[a].kind # "hole"}
    IN  [a \in chunks \union {b + MetaSize + m[b].size : b \in chunks} |-> m[a]]

(* What WalkBuffer finds below limit, copied to a new buffer.              *)
MoveChunks(m, limit) ==
    LET walked == WalkBuffer(m, limit)
        upper == {a + MetaSize + m[a].size : a \in {b \in walked : m[b].kind # "hole"}}
    IN  [a \in walked \union upper |-> m[a]]

(* A buffer that grows is copied as it is by Alloc, by chunks in New.      *)
Moved(m, limit) == IF typed THEN MoveChunks(m, limit)
                            ELSE [a \in DOMAIN m \intersect 0 .. limit - 1 |-> m[a]]

-----------------------------------------------------------------------------
(* Operations                                                              *)

(* Mutant of Fitting: the tags of the chunk are counted as room.           *)
FittingShort(sz) == {r \in freeRegionsTree : r[1] + MetaSize >= sz + alignment - 1}

(* lower_bound in the index, with room to align; of one size, rbegin().    *)
Fitting(sz) == {r \in freeRegionsTree : r[1] >= sz + alignment - 1}

Best(regions) ==
    CHOOSE r \in regions : \A s \in regions : r[1] < s[1] \/ (r[1] = s[1] /\ r[2] >= s[2])

(* The client's data overwrites what was in the block.                     *)
Hold(h, ret, sz) ==
    /\ mem' = Tagged(Wiped(h.mem, ret, ret + sz), ret - MetaSize, "used", sz)
    /\ freeRegionsTree' = h.tree
    /\ blocks' = blocks \union {[at |-> ret, size |-> sz]}

(* Mutant of Taken: the chunk stays in the index.                          *)
TakenKept(region) == freeRegionsTree

Taken(region) == freeRegionsTree \ {region}

(* _Alloc from the index: what the block leaves below and above it is set  *)
(* aside.                                                                  *)
AllocFree(sz) ==
    LET region == Best(Fitting(sz))
        origRet == region[2] + MetaSize
        ret == AlignUp(origRet)
        delta == mem[region[2]].size - (ret - origRet) - sz
        below == SetAsideBelow([mem |-> mem, tree |-> Taken(region)],
                               origRet, ret - MetaSize - origRet, sz)
    IN  /\ Fitting(sz) # {}
        /\ Hold(SetAside(below, ret + sz + MetaSize, delta), ret, sz)
        /\ UNCHANGED <<alignment, typed, bufSize, bufCapacity, overrun, closed>>

(* Mutant of Needed: no room for the upper tag.                            *)
NeededShort(ret, sz) == ret + sz

BaseIdx == AlignUp(bufSize + MetaSize)
Needed(ret, sz) == ret + sz + MetaSize

(* _Alloc at the end of the buffer, which may have to grow.  What lies     *)
(* below the block is set aside before that, in the old buffer.  When a    *)
(* write went beyond the buffer, nothing is claimed of what follows.       *)
AllocEnd(sz) ==
    LET ret == BaseIdx
        hole == ret - MetaSize - bufSize
        below == SetAsideBelow([mem |-> mem, tree |-> freeRegionsTree], bufSize, hole, sz)
        grows == bufCapacity < Needed(ret, sz)
    IN  /\ Fitting(sz) = {}
        /\ ret + sz + MetaSize <= MaxWords[alignment]
        /\ Hold(IF grows THEN [below EXCEPT !.mem = Moved(@, ret - MetaSize)] ELSE below,
                ret, sz)
        /\ bufSize' = ret + sz + MetaSize
        /\ bufCapacity' = IF grows THEN Needed(ret, sz) * GrowFactor ELSE bufCapacity
        /\ overrun' = (\/ hole \in 1 .. sz - 1 /\ ret - MetaSize > bufCapacity
                       \/ bufSize' > bufCapacity')
        /\ closed' = overrun'
        /\ UNCHANGED <<alignment, typed>>

(* Alloc and New.                                                          *)
Alloc(count) ==
    /\ ~closed
    /\ AllocFree(count * alignment) \/ AllocEnd(count * alignment)

HoleAt(a) == IF a \in DOMAIN mem /\ mem[a].kind = "hole" THEN mem[a].size ELSE 0

(* Free takes a chunk with the same tag at both ends and no other.         *)
Valid(at) ==
    LET lower == mem[at - MetaSize]
    IN  /\ at - MetaSize \in DOMAIN mem
        /\ lower.kind = "used"
        /\ at + lower.size \in DOMAIN mem
        /\ mem[at + lower.size] = lower

Freed(at, size) == {<<size, at - MetaSize>>}

(* Free and Delete: the chunk, and a hole above it, become a free chunk.   *)
Free(b) ==
    LET end == b.at + mem[b.at - MetaSize].size + MetaSize
        size == end + HoleAt(end) - MetaSize - b.at
    IN  /\ ~closed
        /\ blocks' = blocks \ {b}
        /\ IF Valid(b.at)
           THEN /\ mem' = Tagged(mem, b.at - MetaSize, "free", size)
                /\ freeRegionsTree' = freeRegionsTree \union Freed(b.at, size)
           ELSE UNCHANGED <<mem, freeRegionsTree>>
        /\ UNCHANGED <<alignment, typed, bufSize, bufCapacity, overrun, closed>>

(* FreeAll, and DeleteAll and ~PackedHeap: the index is left as it is.     *)
FreeAll ==
    /\ ~closed
    /\ bufSize' = 0
    /\ blocks' = {}
    /\ closed' = ~Reuse
    /\ UNCHANGED <<alignment, typed, mem, bufCapacity, freeRegionsTree, overrun>>

Init ==
    /\ alignment \in Alignments
    /\ typed \in BOOLEAN
    /\ mem = <<>>
    /\ bufSize = 0
    /\ bufCapacity = Capacity * alignment
    /\ freeRegionsTree = {}
    /\ blocks = {}
    /\ overrun = FALSE
    /\ closed = FALSE

Next ==
    \/ \E count \in Counts : Alloc(count)
    \/ \E b \in blocks : Free(b)
    \/ FreeAll

Spec == Init /\ [][Next]_vars

-----------------------------------------------------------------------------

TypeOK ==
    /\ alignment \in Alignments
    /\ {typed, overrun, closed} \subseteq BOOLEAN
    /\ bufCapacity \in Nat
    /\ bufSize \in 0 .. MaxWords[alignment]
    /\ DOMAIN mem \subseteq 0 .. bufCapacity - 1
    /\ \A a \in DOMAIN mem : mem[a] \in [kind : {"used", "free", "hole"}, size : Nat]
    /\ freeRegionsTree \subseteq Nat \X Nat
    /\ blocks \subseteq [at : Nat, size : Nat]

Chunk(b) == [from |-> b.at - MetaSize, to |-> b.at + b.size + MetaSize]
Region(r) == [from |-> r[2], to |-> r[2] + r[1] + 2 * MetaSize]

Disjoint(r, s) == r.to <= s.from \/ s.to <= r.from

(* A block and its tags are aligned, inside the buffer, and share no word  *)
(* with another block or with memory that will be handed out: not after a  *)
(* region was split, a hole was absorbed or the buffer was moved.          *)
Apart ==
    /\ \A b \in blocks : b.at % alignment = 0 /\ Chunk(b).from >= 0 /\ Chunk(b).to <= bufSize
    /\ \A b, c \in blocks : b # c => Disjoint(Chunk(b), Chunk(c))
    /\ \A b \in blocks : \A r \in freeRegionsTree : Disjoint(Chunk(b), Region(r))

(* WalkBuffer, which moves, copies and destroys the objects, meets all     *)
(* blocks that are held and all free chunks, and passes from each to the   *)
(* next up to the end: nothing lies between them but marked holes.         *)
WalkFindsAll ==
    LET walked == WalkBuffer(mem, bufSize)
        of(kind) == {a \in walked : mem[a].kind = kind}
    IN  ~closed =>
        /\ {<<mem[a].size, a>> : a \in of("used")} = {<<b.size, b.at - MetaSize>> : b \in blocks}
        /\ {<<mem[a].size, a>> : a \in of("free")} = freeRegionsTree
        /\ bufSize # 0 => \E a \in walked : StepUp(mem, a) = bufSize

(* What Free checks before it takes a block back holds of every block: no  *)
(* tag was overwritten by a neighbour's data, hole or tag.                 *)
AllCanBeFreed == \A b \in blocks : Valid(b.at) /\ mem[b.at - MetaSize].size = b.size

(* Every write lands in the buffer: what an alignment leaves below a block *)
(* is set aside before the buffer is grown to hold the block, and still    *)
(* has room there.                                                         *)
StaysInside == ~overrun
=============================================================================
