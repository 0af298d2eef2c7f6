--------------------------- MODULE OffsetPointer ---------------------------
(***************************************************************************)
(* src/utils/allocwraps.h: offset_pointer_t, and pointer_t around it, keep *)
(* the distance of an object from BASE, so that they go on pointing to it  *)
(* when its memory moves, or is mapped elsewhere by another process        *)
(* (tests/shmemalloc.cpp).  Addresses are words and wrap around; a null    *)
(* pointer has all bits set.                                               *)
(*                                                                         *)
(* Pointers lie in the memory shared; every process uses them with its own *)
(* BASE.  generic_free_list_allocator hands out elements of that memory    *)
(* (FreeListAllocator, here any element that is free).                     *)
(***************************************************************************)
EXTENDS Integers, FiniteSets

CONSTANTS
    Pointers,       \* the pointers in the memory
    Processes,
    BaseOf,         \* BaseOf[p]: where a process has the memory mapped
    AddressSpace,   \* how many values a uintptr_t has, 2 ^ 64
    ElementSize,    \* sizeof(T)
    Elements        \* how many elements the memory has

Addresses == 0 .. AddressSpace - 1
Wrap(a) == a % AddressSpace
SignBit == AddressSpace \div 2

(* The memory does not hold address zero, leaves an address free and is    *)
(* not too large for the distance of two addresses in it, a ptrdiff_t.     *)
ASSUME OffsetPointerAssumption ==
    /\ AddressSpace \in Nat /\ ElementSize \in Nat \ {0} /\ Elements \in Nat
    /\ AddressSpace = 2 * SignBit /\ Elements * ElementSize < SignBit
    /\ BaseOf \in [Processes -> Addresses \ {0}]
    /\ \A p \in Processes : BaseOf[p] + Elements * ElementSize < AddressSpace

Null == AddressSpace - 1        \* ~0ul
NoElement == -1

VARIABLES
    ptr,        \* the word in each pointer
    inUse,      \* the offsets of the elements the allocator handed out
    at,         \* history: the element each pointer was pointed to,
    held        \* history: and the elements clients have

pointerVars == <<ptr, inUse, at, held>>

PointerInit ==
    /\ ptr = [x \in Pointers |-> Null]
    /\ inUse = {}
    /\ at = [x \in Pointers |-> NoElement] /\ held = {}

-----------------------------------------------------------------------------
(* The conversions, in a process.                                          *)

FromRaw(p, raw) == IF raw = 0 THEN Null ELSE Wrap(raw - BaseOf[p])

(* Mutant of GetRawPtr: null pointers are converted, too.                  *)
GetRawPtrAlways(p, word) == Wrap(BaseOf[p] + word)

GetRawPtr(p, word) == IF word = Null THEN 0 ELSE Wrap(BaseOf[p] + word)

IsSet(word) == word # Null

(* T* arithmetic on the word itself.                                       *)
Moved(word, n) == Wrap(word + n * ElementSize)

(* operator+ and - go by way of an address.                                *)
Plus(p, word, n) == FromRaw(p, Wrap(Moved(word, n) + BaseOf[p]))

(* As signed words.                                                        *)
Signed(a) == IF a >= SignBit THEN a - AddressSpace ELSE a

Difference(v, w) == Signed(Wrap(v - w)) \div ElementSize

-----------------------------------------------------------------------------

Set(x, word, e) ==
    /\ ptr' = [ptr EXCEPT ![x] = word]
    /\ at' = [at EXCEPT ![x] = e]

RawOf(p, e) == Wrap(BaseOf[p] + e * ElementSize)

(* Assigns an address of the process, or a null pointer.                   *)
AssignRaw(x, p, e) ==
    /\ Set(x, FromRaw(p, IF e = NoElement THEN 0 ELSE RawOf(p, e)), e)
    /\ UNCHANGED <<inUse, held>>

CopyPointer(x, y) == Set(x, ptr[y], at[y]) /\ UNCHANGED <<inUse, held>>

(* Arithmetic within the memory, or to its end.                            *)
Within(e) == e \in 0 .. Elements

Advance(x, n) ==
    /\ at[x] # NoElement /\ Within(at[x] + n)
    /\ Set(x, Moved(ptr[x], n), at[x] + n)
    /\ UNCHANGED <<inUse, held>>

AssignSum(x, p, y, n) ==
    /\ at[y] # NoElement /\ Within(at[y] + n)
    /\ Set(x, Plus(p, ptr[y], n), at[y] + n)
    /\ UNCHANGED <<inUse, held>>

(* allocate converts what Allocate returned to an address and back.        *)
Allocate(x, p, e) ==
    /\ e \notin held
    /\ inUse' = inUse \union {e * ElementSize} /\ held' = held \union {e}
    /\ Set(x, FromRaw(p, GetRawPtr(p, e * ElementSize)), e)

(* deallocate gives Free the address as an offset again.                   *)
Deallocate(x, p) ==
    /\ IsSet(ptr[x]) /\ at[x] \in held
    /\ inUse' = inUse \ {FromRaw(p, GetRawPtr(p, ptr[x]))} /\ held' = held \ {at[x]}
    /\ UNCHANGED <<ptr, at>>

PointerNext ==
    \E x, y \in Pointers, p \in Processes :
        \/ \E e \in 0 .. Elements - 1 : AssignRaw(x, p, e) \/ Allocate(x, p, e)
        \/ AssignRaw(x, p, NoElement)
        \/ CopyPointer(x, y)
        \/ \E n \in -Elements .. Elements : Advance(x, n) \/ AssignSum(x, p, y, n)
        \/ Deallocate(x, p)

PointerSpec == PointerInit /\ [][PointerNext]_pointerVars

-----------------------------------------------------------------------------

PointerTypeOK ==
    /\ ptr \in [Pointers -> Addresses]
    /\ at \in [Pointers -> 0 .. Elements \union {NoElement}]
    /\ inUse \subseteq {e * ElementSize : e \in 0 .. Elements - 1}

(* Whatever process a pointer was set, moved or copied in, it points in    *)
(* every process to the element it was pointed to, also where addresses    *)
(* wrap around; it is null exactly when it was set to null, and comparing  *)
(* and subtracting pointers gives what the elements' places give.  Every   *)
(* element the allocator handed out and got back by such pointers is free  *)
(* again.                                                                  *)
PointersFollow ==
    /\ inUse = {e * ElementSize : e \in held}
    /\ \A x \in Pointers :
          /\ IsSet(ptr[x]) <=> at[x] # NoElement
          /\ \A p \in Processes :
                GetRawPtr(p, ptr[x]) = IF at[x] = NoElement THEN 0 ELSE RawOf(p, at[x])
    /\ \A x, y \in Pointers :
          /\ ptr[x] = ptr[y] <=> at[x] = at[y]
          /\ at[x] # NoElement /\ at[y] # NoElement =>
                Difference(ptr[x], ptr[y]) = at[x] - at[y]
=============================================================================
