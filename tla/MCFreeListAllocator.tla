------------------------ MODULE MCFreeListAllocator ------------------------
(* FreeListAllocator on small buffers: with sizes in whole words, and with *)
(* a container of an odd number of 4-byte elements.                        *)
EXTENDS FreeListAllocator

(* freelistallocator.h:26 says the allocator is "usable by all stl         *)
(* containers": what a container of ints asks for shares no byte with      *)
(* another block or a free node either.                                    *)
UsableByContainers == Apart

(* No byte is lost: the free list is sorted and joined wherever two free   *)
(* nodes touch, and its nodes, what is charged to the blocks in use and    *)
(* what a Free above all nodes forgot add up to the buffer; no count is    *)
(* above it, and the peak is never below what is in use.                   *)
NothingLost == TypeOK /\ Coalesced /\ Accounting
=============================================================================
