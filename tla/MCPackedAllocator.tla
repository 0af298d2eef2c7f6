------------------------- MODULE MCPackedAllocator -------------------------
(* PackedAllocator on small buffers, for several alignments.               *)
EXTENDS PackedAllocator

(* Room for some blocks of the least size, for every alignment.            *)
Words == [a \in Alignments |-> 24 + 2 * a]
MoreWords == [a \in Alignments |-> 100]

(* tests/allocator.cpp:63 runs a PackedHeap for a type that is             *)
(* alignas(128): blocks are laid out in the buffer for such types too.     *)
AlignedTypesStayInside == StaysInside

(* The buffer can be read from the front and from each block: WalkBuffer   *)
(* meets every block and every free chunk of the index with their sizes,   *)
(* and Free accepts every block by the tags at both of its ends.           *)
TagsAgree == WalkFindsAll /\ AllCanBeFreed
=============================================================================
