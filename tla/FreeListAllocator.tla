------------------------- MODULE FreeListAllocator -------------------------
(***************************************************************************)
(* FreeListAllocator (utils/freelistallocator.h): a buffer whose free      *)
(* parts are nodes of a linked list, kept in the buffer itself.  Addresses *)
(* are offsets from BASE, as offset_pointer_t stores them, and the buffer  *)
(* starts at 0; growing it moves BASE and no offset.                       *)
(*                                                                         *)
(* mem holds what the allocator reads again: at the address of a free node *)
(* its blockSize and next, at the address of the header of a block its     *)
(* blockSize and padding.  The two share blockSize, as they do in memory.  *)
(* Nodes and headers that overlap at different addresses are still kept    *)
(* apart in mem: such a state violates Apart, and nothing is claimed of    *)
(* the states after it.                                                    *)
(***************************************************************************)
EXTENDS Integers, SequencesExt

CONSTANTS
    Policy,         \* PlacementPolicy: "FIND_FIRST" or "FIND_BEST"
    InitialSize,    \* totalSize the allocator is made with
    Sizes,          \* sizes, in bytes, that are asked for
    Alignments,     \* alignments that are asked for
    MaxTotal,       \* bound: totalSize never grows beyond it
    MaxBlocks       \* bound: blocks in use at one time

ASSUME FreeListAssumption ==
    /\ Policy \in {"FIND_FIRST", "FIND_BEST"}
    /\ MaxTotal \in Nat /\ MaxBlocks \in Nat
    /\ InitialSize \in 0 .. MaxTotal
    /\ Sizes \subseteq Nat
    /\ Alignments \subseteq Nat

VARIABLES
    reallocatable,  \* the template parameter REALLOCATABLE, either value
    totalSize, used, peak,
    head, mem,      \* freeList.head, and the nodes and headers in the buffer
    blocks,         \* history: the blocks clients hold
    lost,           \* history: bytes given back that no node covers
    failed          \* Allocate found no room and threw

vars == <<reallocatable, totalSize, used, peak, head, mem, blocks, lost, failed>>

Null == -1          \* offset_pointer_t keeps ~0 for nullptr
NodeSize == 16      \* sizeof(Node), two words
HeaderSize == 8     \* sizeof(AllocationHeader)

AtLeast(n, m) == IF n < m THEN m ELSE n

-----------------------------------------------------------------------------
(* The list                                                                *)

(* A list is a pair of its head and the memory it runs through.            *)
list == [head |-> head, mem |-> mem]

NodesOf(l) ==
    LET after(a) == IF a = Null THEN Null ELSE l.mem[a].next
        most == Cardinality(DOMAIN l.mem)
        chain[k \in 0 .. most] == IF k = 0 THEN l.head ELSE after(chain[k - 1])
        n == Cardinality({k \in 0 .. most - 1 : chain[k] # Null})
    IN  [k \in 1 .. n |-> chain[k - 1]]

(* Predecessor in a sequence of nodes, or Null.                            *)
Before(nodes, k) == IF k = 1 THEN Null ELSE nodes[k - 1]

Node(size, next) == [blockSize |-> size, padding |-> 0, next |-> next]

(* The memory with a cell written at an address.                           *)
Put(m, a, cell) == [x \in DOMAIN m \union {a} |-> IF x = a THEN cell ELSE m[x]]

InsertNode(l, previous, new, size) ==
    IF previous = Null
    THEN [head |-> new, mem |-> Put(l.mem, new, Node(size, l.head))]
    ELSE [l EXCEPT !.mem = Put([@ EXCEPT ![previous].next = new], new,
                               Node(size, @[previous].next))]

RemoveNode(l, previous, node) ==
    IF previous = Null
    THEN [l EXCEPT !.head = l.mem[node].next]
    ELSE [l EXCEPT !.mem[previous].next = l.mem[node].next]

(* The part of the memory that is read again: nodes, and of headers the    *)
(* first word.                                                             *)
Kept(l, bs) ==
    LET nodes == ToSet(NodesOf(l))
    IN  [a \in nodes \union {b.at - HeaderSize : b \in bs} |->
            IF a \in nodes THEN l.mem[a] ELSE [l.mem[a] EXCEPT !.next = Null]]

-----------------------------------------------------------------------------
(* Finding room                                                            *)

CalculatePadding(base, alignment) == (base \div alignment + 1) * alignment - base

CalculatePaddingWithHeader(base, alignment, headerSize) ==
    LET padding == CalculatePadding(base, alignment)
        needed == headerSize - padding
    IN  IF padding >= headerSize THEN padding
        ELSE IF needed % alignment > 0
             THEN padding + alignment * (1 + needed \div alignment)
             ELSE padding + alignment * (needed \div alignment)

PaddingAt(node, alignment) ==
    CalculatePaddingWithHeader(node, alignment, HeaderSize)

Fitting(l, nodes, size, alignment) ==
    {k \in DOMAIN nodes :
        l.mem[nodes[k]].blockSize >= size + PaddingAt(nodes[k], alignment)}

NotFound(nodes) ==
    [found |-> Null, padding |-> 0, previous |-> Before(nodes, Len(nodes) + 1)]

FindFirst(l, size, alignment) ==
    LET nodes == NodesOf(l)
        k == Min(Fitting(l, nodes, size, alignment))
    IN  IF Fitting(l, nodes, size, alignment) = {} THEN NotFound(nodes)
        ELSE [found |-> nodes[k], padding |-> PaddingAt(nodes[k], alignment),
              previous |-> Before(nodes, k)]

(* smallestDiff is never lowered, so the last node that fits is taken; the *)
(* predecessor and the padding are those of the end of the loop.           *)
FindBest(l, size, alignment) ==
    LET nodes == NodesOf(l)
        n == Len(nodes)
    IN  IF Fitting(l, nodes, size, alignment) = {} THEN NotFound(nodes)
        ELSE [found |-> nodes[Max(Fitting(l, nodes, size, alignment))],
              padding |-> PaddingAt(nodes[n], alignment),
              previous |-> nodes[n]]

Find(l, size, alignment) ==
    IF Policy = "FIND_FIRST" THEN FindFirst(l, size, alignment)
                             ELSE FindBest(l, size, alignment)

-----------------------------------------------------------------------------
(* Joining and growing                                                     *)

(* Mutant of Coalescence: a node is never joined with the one before it.   *)
CoalescenceUpwards(l, previous, node) ==
    LET next == l.mem[node].next
    IN  IF next # Null /\ node + l.mem[node].blockSize = next
        THEN RemoveNode([l EXCEPT !.mem[node].blockSize = @ + l.mem[next].blockSize],
                    node, next)
        ELSE l

(* A node is joined with the one after it and the result with the one      *)
(* before it, where they touch.                                            *)
Coalescence(l, previous, node) ==
    LET next == l.mem[node].next
        up == IF next # Null /\ node + l.mem[node].blockSize = next
              THEN RemoveNode([l EXCEPT !.mem[node].blockSize = @ + l.mem[next].blockSize],
                          node, next)
              ELSE l
    IN  IF previous # Null /\ previous + up.mem[previous].blockSize = node
        THEN RemoveNode([up EXCEPT !.mem[previous].blockSize = @ + up.mem[node].blockSize],
                    previous, node)
        ELSE up

(* Mutant of NewSize: room for the block and none for its header.          *)
NewSizeExact(neededSize) == totalSize + neededSize

NewSize(neededSize) == (totalSize + neededSize) * 2

(* The new part of the buffer becomes the last node.                       *)
Reallocate(l, neededSize) ==
    LET nodes == NodesOf(l)
        last == Before(nodes, Len(nodes) + 1)
        grown == InsertNode(l, last, totalSize, NewSize(neededSize) - totalSize)
    IN  Coalescence(grown, last, totalSize)

-----------------------------------------------------------------------------
(* Operations                                                              *)

(* The first node covers the whole buffer.                                 *)
Reset ==
    /\ ~failed
    /\ used' = 0
    /\ peak' = 0
    /\ head' = 0
    /\ mem' = [a \in {0} |-> Node(totalSize, Null)]
    /\ blocks' = {}
    /\ lost' = 0
    /\ UNCHANGED <<reallocatable, totalSize, failed>>

(* Mutant of Splits: the rest may be too small for the node written to it. *)
SplitsAny(l, node, requiredSize, total) ==
    l.mem[node].blockSize > requiredSize

(* Whether what is left of a node becomes a node of its own.               *)
Splits(l, node, requiredSize, total) ==
    LET next == l.mem[node].next
        rest == AtLeast(l.mem[node].blockSize - requiredSize, 0)
        end == node + requiredSize
    IN  /\ rest >= NodeSize
        /\ rest > 16 \/ next = Null \/ next - end > NodeSize
        /\ end + NodeSize < total

(* The list and the header once a block was cut from the node of `place`.  *)
Taken(l, place, size, total) ==
    LET node == place.found
        alignmentPadding == place.padding - HeaderSize
        requiredSize == size + place.padding
        split == Splits(l, node, requiredSize, total)
        l2 == IF split
              THEN InsertNode(l, node, node + requiredSize,
                          AtLeast(l.mem[node].blockSize - requiredSize, 0))
              ELSE l
    IN  [list |-> RemoveNode(l2, place.previous, node),
         header |-> node + alignmentPadding,
         padding |-> alignmentPadding,
         blockSize |-> IF split THEN requiredSize
                       ELSE l.mem[node].blockSize - alignmentPadding]

Charge(amount) ==
    /\ used' = used + amount
    /\ peak' = AtLeast(peak, used')

CutBlock(l, place, asked, size, total) ==
    LET t == Taken(l, place, size, total)
        bs == blocks \union {[at |-> t.header + HeaderSize, size |-> asked]}
        next == IF t.header \in DOMAIN t.list.mem THEN t.list.mem[t.header].next
                                                  ELSE Null
        written == [t.list EXCEPT !.mem = Put(@, t.header,
            [blockSize |-> t.blockSize, padding |-> t.padding, next |-> next])]
    IN  /\ head' = written.head
        /\ mem' = Kept(written, bs)
        /\ blocks' = bs
        /\ Charge(t.blockSize + t.padding)
        /\ totalSize' = total
        /\ UNCHANGED <<reallocatable, lost, failed>>

(* The allocator throws outside any handler, which ends the program.       *)
OutOfMemory ==
    /\ failed' = TRUE
    /\ UNCHANGED <<reallocatable, totalSize, used, peak, head, mem, blocks, lost>>

(* Where there is no room, a reallocatable allocator grows and looks again. *)
Allocate(asked, minAlignment) ==
    LET size == AtLeast(asked, NodeSize)
        alignment == AtLeast(minAlignment, 8)
        grows == reallocatable /\ Find(list, size, alignment).found = Null
        l == IF grows THEN Reallocate(list, size) ELSE list
        total == IF grows THEN NewSize(size) ELSE totalSize
        place == Find(l, size, alignment)
    IN  /\ ~failed
        /\ total <= MaxTotal
        /\ Cardinality(blocks) < MaxBlocks
        /\ \/ place.found # Null /\ CutBlock(l, place, asked, size, total)
           \/ place.found = Null /\ OutOfMemory

(* A block becomes a node before the first free node above it; above all   *)
(* free nodes it is only given back if it touches the last of them.        *)
Free(b) ==
    LET header == b.at - HeaderSize
        size == mem[header].blockSize + mem[header].padding
        nodes == NodesOf(list)
        above == {k \in DOMAIN nodes : b.at < nodes[k]}
        previous == Before(nodes, IF above = {} THEN Len(nodes) + 1 ELSE Min(above))
        placed == IF above # {} THEN InsertNode(list, previous, header, size)
                  ELSE [list EXCEPT !.mem = Put(@, header, Node(size, Null))]
        l == Coalescence(placed, previous, header)
        touches == previous # Null /\ previous + mem[previous].blockSize = header
    IN  /\ ~failed
        /\ head' = l.head
        /\ mem' = Kept(l, blocks \ {b})
        /\ blocks' = blocks \ {b}
        /\ used' = used - size
        /\ lost' = IF above = {} /\ ~touches THEN lost + size ELSE lost
        /\ UNCHANGED <<reallocatable, totalSize, peak, failed>>

-----------------------------------------------------------------------------

Init ==
    /\ reallocatable \in BOOLEAN
    /\ totalSize = InitialSize
    /\ used = 0
    /\ peak = 0
    /\ head = 0
    /\ mem = [a \in {0} |-> Node(InitialSize, Null)]
    /\ blocks = {}
    /\ lost = 0
    /\ failed = FALSE

Next ==
    \/ \E size \in Sizes, alignment \in Alignments : Allocate(size, alignment)
    \/ \E b \in blocks : Free(b)
    \/ Reset

Spec == Init /\ [][Next]_vars

-----------------------------------------------------------------------------

FreeNodes == NodesOf(list)

Header(b) == mem[b.at - HeaderSize]

TypeOK ==
    /\ reallocatable \in BOOLEAN /\ failed \in BOOLEAN
    /\ totalSize \in 0 .. MaxTotal
    /\ used \in 0 .. totalSize /\ peak \in used .. totalSize /\ lost \in 0 .. totalSize
    /\ head \in Nat \union {Null}
    /\ \A a \in DOMAIN mem :
          /\ a \in Nat
          /\ mem[a].blockSize \in Nat /\ mem[a].padding \in Nat
          /\ mem[a].next \in Nat \union {Null}

FreeSize(k) == mem[FreeNodes[k]].blockSize

(* The bytes of a free node, which is written to even if it is meant to be *)
(* smaller, and of a block with its header.                                *)
NodeBytes(k) == [from |-> FreeNodes[k],
                 to |-> FreeNodes[k] + AtLeast(FreeSize(k), NodeSize)]
BlockBytes(b) == [from |-> b.at - HeaderSize, to |-> b.at + b.size]

Disjoint(r, s) == r.to <= s.from \/ s.to <= r.from

(* What a client asked for lies in the buffer and shares no byte with      *)
(* another block or with a free node, wherever the buffer was split,       *)
(* joined or grown: a client's writes never reach the allocator's nodes,   *)
(* nor another client's data.                                              *)
Apart ==
    /\ \A b \in blocks : 0 <= b.at - HeaderSize /\ b.at + b.size <= totalSize
    /\ \A b, c \in blocks : b # c => Disjoint(BlockBytes(b), BlockBytes(c))
    /\ \A b \in blocks : \A k \in DOMAIN FreeNodes :
          Disjoint(BlockBytes(b), NodeBytes(k))

(* The list runs upwards through the buffer and two free nodes never       *)
(* touch: every Free and every Reallocate joins all it can, and a node     *)
(* that is joined leaves the list.                                         *)
Coalesced ==
    \A k \in DOMAIN FreeNodes :
        FreeNodes[k] + FreeSize(k) <
            IF k < Len(FreeNodes) THEN FreeNodes[k + 1] ELSE totalSize + 1

(* Every byte is in a free node, charged to `used`, or lost in a Free      *)
(* above all free nodes, and `used` is what the headers of the blocks in   *)
(* use say.                                                                *)
Accounting ==
    /\ used = SumFunction([b \in blocks |-> Header(b).blockSize + Header(b).padding])
    /\ used + lost + SumFunction([k \in DOMAIN FreeNodes |-> FreeSize(k)]) = totalSize

(* A reallocatable allocator never runs out: what Reallocate adds always   *)
(* has room for the block it was called for.                               *)
GrowthSuffices == reallocatable => ~failed
=============================================================================
