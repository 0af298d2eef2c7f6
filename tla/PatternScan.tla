---------------------------- MODULE PatternScan ----------------------------
(***************************************************************************)
(* src/utils/pattern_scan.cpp: ParsePattern turns a pattern such as        *)
(*     34 24 [E8 *? ? ? ?] E9                                              *)
(* into bytes to look for and operations on the address where they are     *)
(* found; ProduceScanData packs the bytes into words with masks, and       *)
(* ScanPattern looks for the words in memory.                              *)
(*                                                                         *)
(* The parser goes on with one element of the pattern per step; that the   *)
(* pattern ends its asserts is up to the client.  Addresses stay           *)
(* expressions, so the operations can be compared with what pattern_scan.h *)
(* says they do.                                                           *)
(***************************************************************************)
EXTENDS Integers, Sequences, FiniteSets, SequencesExt, FiniteSetsExt

CONSTANTS
    ByteValues,     \* the bytes patterns and memory consist of,
    Masked,         \* the byte 0xff,
    WordSize,       \* sizeof(long)
    Sizes,          \* what readSizes can say,
    Offsets,        \* numbers after + and :
    MemorySize, MaxElements     \* bounds

ASSUME PatternScanAssumption ==
    /\ Masked \notin ByteValues
    /\ WordSize \in Nat \ {0}
    /\ MemorySize \in Nat /\ MaxElements \in Nat
    /\ Offsets \subseteq Int /\ Sizes \subseteq {1, 2, 4, 8}

AnyByte == -1
PointerSize == 8

VARIABLES
    patternBytes, operations,
    inRelDeref, derefDone, relIdx, relStartIdx, initDerefIdx,
    inTail,         \* the loop over what follows a dereference goes on
    elements        \* history: the pattern so far

scanVars == <<patternBytes, operations, inRelDeref, derefDone, relIdx, relStartIdx,
              initDerefIdx, inTail, elements>>

relVars == <<inRelDeref, relIdx, relStartIdx>>

Op(op, offset, v1) == [op |-> op, offset |-> offset, v1 |-> v1]
NoOp == Op(0, 0, 0)

ParseInit ==
    /\ patternBytes = <<>> /\ operations = <<>>
    /\ inRelDeref = FALSE /\ derefDone = FALSE
    /\ relIdx = 0 /\ relStartIdx = 0 /\ initDerefIdx = 0
    /\ inTail = FALSE
    /\ elements = <<>>

ByteCount == Len(patternBytes)

Consume(kind, size, num) ==
    /\ Len(elements) < MaxElements
    /\ elements' = Append(elements, [kind |-> kind, size |-> size, num |-> num, at |-> ByteCount])
    /\ inTail' = (kind \in {"deref", "again", "plus", "plusDeref", "rel"})

ParseByte(byte) ==
    /\ Consume(IF byte = AnyByte THEN "?" ELSE "byte", 0, 0)
    /\ patternBytes' = Append(patternBytes, byte)
    /\ UNCHANGED <<operations, derefDone, initDerefIdx, relVars>>

(* Offsets by 0 are left out.                                              *)
MoveTo == IF ByteCount = 0 THEN <<>> ELSE <<Op(1, ByteCount, 0)>>

ParseAt ==
    /\ Consume("@", 0, 0)
    /\ ~inRelDeref /\ ~derefDone /\ operations = <<>>
    /\ operations' = MoveTo
    /\ derefDone' = TRUE
    /\ UNCHANGED <<patternBytes, initDerefIdx, relVars>>

ParseOpen ==
    /\ Consume("[", 0, 0)
    /\ ~inRelDeref /\ ~derefDone
    /\ inRelDeref' = TRUE
    /\ relStartIdx' = ByteCount
    /\ relIdx' = relIdx + Len(MoveTo)
    /\ operations' = operations \o MoveTo \o <<NoOp>>
    /\ UNCHANGED <<patternBytes, derefDone, initDerefIdx>>

ParseClose ==
    /\ Consume("]", 0, 0)
    /\ inRelDeref
    /\ inRelDeref' = FALSE /\ derefDone' = TRUE
    /\ operations' = [operations EXCEPT ![relIdx + 1].offset = initDerefIdx - relStartIdx,
                                        ![relIdx + 1].v1 = ByteCount - relStartIdx]
    /\ UNCHANGED <<patternBytes, initDerefIdx, relIdx, relStartIdx>>

ParseDeref(size) ==
    /\ Consume("deref", size, 0)
    /\ ~derefDone
    /\ derefDone' = TRUE
    /\ initDerefIdx' = ByteCount
    /\ operations' = IF inRelDeref
                     THEN [operations EXCEPT ![relIdx + 1].op = 20 + size]
                     ELSE Append(operations, Op(10 + size, ByteCount, 0))
    /\ UNCHANGED <<patternBytes, relVars>>

(* What follows it: another read, an offset, an offset and a read in one,  *)
(* or a relative read :OFF,SIZE.                                           *)
ParseMore(kind, size, num, op) ==
    /\ Consume(kind, size, num)
    /\ inTail
    /\ operations' = Append(operations, op)
    /\ UNCHANGED <<patternBytes, derefDone, initDerefIdx, relVars>>

ParseTail ==
    \/ \E size \in Sizes :
          /\ inTail /\ elements[Len(elements)].kind # "plus"
          /\ ParseMore("again", size, 0, Op(10 + size, 0, 0))
    \/ \E num \in Offsets : ParseMore("plus", 0, num, Op(1, num, 0))
    \/ \E num \in Offsets, size \in Sizes :
          ParseMore("plusDeref", size, num, Op(10 + size, num, 0))
    \/ \E off, size \in Offsets : ParseMore("rel", size, off, Op(20 + PointerSize, off, size))

ParseNext ==
    \/ \E byte \in ByteValues \union {AnyByte} : ParseByte(byte)
    \/ ParseAt \/ ParseOpen \/ ParseClose
    \/ \E size \in Sizes : ParseDeref(size)
    \/ ParseTail

ParseSpec == ParseInit /\ [][ParseNext]_scanVars

-----------------------------------------------------------------------------
(* The operations.  An address is a number added to the place of the match *)
(* or to what was read somewhere.                                          *)

Match == [of |-> <<"match">>, plus |-> 0]
Add(addr, n) == [addr EXCEPT !.plus = @ + n]
ReadAt(size, addr) == [of |-> <<"read", size, addr>>, plus |-> 0]

GetAbsoluteAddress(size, addr, offset, instructionSize) ==
    [of |-> <<"sum", addr.of, "signed", size, Add(addr, offset)>>,
     plus |-> addr.plus + instructionSize]

RunOp(addr, p) ==
    CASE p.op = 1 -> Add(addr, p.offset)
      [] p.op \in {11, 12, 14, 18} -> ReadAt(p.op - 10, Add(addr, p.offset))
      [] p.op \in {21, 22, 24} -> GetAbsoluteAddress(p.op - 20, addr, p.offset, p.v1)
      [] p.op = 28 -> GetAbsoluteAddress(4, addr, p.offset, p.v1)
      [] OTHER -> addr

Result == FoldLeft(RunOp, Match, operations)

(* Mutant of WordCount: only the whole words.                              *)
WordCountWhole == ByteCount \div WordSize

(* The bytes as words, with the mask over the rest of the last word.       *)
WordCount == (ByteCount - 1) \div WordSize + 1

Length == WordCount * WordSize

MaskAt(n) == n >= ByteCount \/ patternBytes[n + 1] = AnyByte
DataAt(n) == IF MaskAt(n) THEN Masked ELSE patternBytes[n + 1]

ByteAt(memory, n) == IF n \in DOMAIN memory THEN memory[n] ELSE AnyByte

(* One word at a time, from the first address on; what is read is compared *)
(* with the mask set in it.                                                *)
Hit(memory, i) ==
    \A o \in 0 .. WordCount - 1 :
        LET word == o * WordSize .. (o + 1) * WordSize - 1
        IN  [n \in word |-> DataAt(n)] =
            [n \in word |-> IF MaskAt(n) THEN Masked ELSE ByteAt(memory, i + n)]

ScanPattern(memory, start, end) ==
    LET hits == {i \in start .. end - Length - 1 : Hit(memory, i)}
    IN  IF hits = {} THEN 0 ELSE Min(hits)

-----------------------------------------------------------------------------

ParseTypeOK ==
    /\ patternBytes \in Seq(ByteValues \union {AnyByte})
    /\ \A n \in DOMAIN operations : operations[n].offset \in Int /\ operations[n].op \in 0 .. 28
    /\ {relIdx, relStartIdx, initDerefIdx} \subseteq 0 .. MaxElements

Has(kind) == \E n \in DOMAIN elements : elements[n].kind = kind
The(kind) == elements[CHOOSE n \in DOMAIN elements : elements[n].kind = kind]

(* What pattern_scan.h:11-24 says of a pattern.  The first dereference     *)
(* reads where it stands, or is relative to the brackets around it: the    *)
(* value is added to the address where they end.                           *)
FirstAddress ==
    LET first == The("deref")
    IN  IF Has("@") THEN Add(Match, The("@").at)
        ELSE IF Has("[")
        THEN IF ~Has("deref")
             THEN Add(Match, The("[").at)
             ELSE [of |-> <<"sum", Match.of, "signed", IF first.size = 8 THEN 4 ELSE first.size,
                            Add(Match, first.at)>>,
                   plus |-> The("]").at]
        ELSE IF Has("deref") THEN ReadAt(first.size, Add(Match, first.at))
        ELSE Match

Then(addr, e) ==
    CASE e.kind = "again" -> ReadAt(e.size, addr)
      [] e.kind = "plus" -> Add(addr, e.num)
      [] e.kind = "plusDeref" -> ReadAt(e.size, Add(addr, e.num))
      [] e.kind = "rel" -> GetAbsoluteAddress(4, addr, e.num, e.size)
      [] OTHER -> addr

(* The operations do what the documentation says of the elements: @, [],   *)
(* the first dereference and what follows it, wherever they stand among    *)
(* the bytes.  The parser fills in the operation of a bracket when it      *)
(* comes to the dereference and to the end, behind operations made since.  *)
OperationsMean == ~inRelDeref => Result = FoldLeft(Then, FirstAddress, elements)

(* The scan returns the first place where every byte of the pattern        *)
(* matches, also when the pattern ends inside a word or has wildcards at   *)
(* the end, up to the length of its words before the end of the memory.    *)
ScanFindsFirst ==
    operations = <<>> /\ ByteCount > 0 =>
        \A memory \in [1 .. MemorySize -> ByteValues] :
            LET end == MemorySize + 1
                fits == {i \in 1 .. end - Length - 1 :
                            \A n \in 1 .. ByteCount :
                                patternBytes[n] \in {AnyByte, ByteAt(memory, i + n - 1)}}
            IN  ScanPattern(memory, 1, end) = IF fits = {} THEN 0 ELSE Min(fits)

(* What pattern_scan.h:11-24 says of operations, and of the scan.          *)
PatternsMean == OperationsMean /\ ScanFindsFirst
=============================================================================
