-------------------------------- MODULE MD5 --------------------------------
(***************************************************************************)
(* src/utils/md5.cpp: Update takes a message in pieces of any length and   *)
(* Final pads it; whole blocks go to Transform.  What Transform does with  *)
(* a block is left out; which blocks it gets, in which order, is all the   *)
(* rest is about.  A byte of the message is its number.                    *)
(***************************************************************************)
EXTENDS Integers, Sequences, FiniteSets

CONSTANTS
    BlockSize,      \* 64 bytes
    CountSize,      \* bytes at the end of the last block for the two counts, 8
    CountLimit,     \* the values of an unsigned int, 2^32
    MaxPiece, MaxLength     \* bounds

ASSUME MD5Assumption ==
    /\ CountSize \in Nat /\ BlockSize \in Nat /\ 0 < CountSize /\ CountSize < BlockSize
    /\ CountLimit \in Nat \ {0} /\ CountLimit % (8 * BlockSize) = 0
    /\ MaxPiece \in Nat /\ MaxLength \in Nat

Wrapped(n) == n % CountLimit

Byte(n) == <<"byte", n>>      \* of the message
Mark == <<"0x80", 0>>
Zero == <<"zero", 0>>
Old == <<"old", 0>>     \* bytes of in that were never written

VARIABLES
    bits,       \* <<bits[0], bits[1]>>
    in,         \* the block that is filled
    blocks,     \* what Transform got
    length,     \* history: the length of the message so far
    done

md5Vars == <<bits, in, blocks, length, done>>

Md5Init ==
    /\ bits = <<0, 0>>
    /\ in = [n \in 0 .. BlockSize - 1 |-> Old]
    /\ blocks = <<>>
    /\ length = 0 /\ done = FALSE

(* memcpy of count bytes of the message from the byte number first on.     *)
Copied(to, at, first, count) ==
    [n \in 0 .. BlockSize - 1 |-> IF n \in at .. at + count - 1 THEN Byte(first + n - at) ELSE to[n]]

Filled(to, first, last, byte) ==
    [n \in 0 .. BlockSize - 1 |-> IF n \in first .. last THEN byte ELSE to[n]]

(* The count of bits is two words.  Mutant: the second is forgotten.       *)
CarryLost(sum) == 0

Carry(sum) == IF sum < bits[1] THEN 1 ELSE 0

Update(len) ==
    LET sum == Wrapped(bits[1] + Wrapped(8 * len))
        t == (bits[1] \div 8) % BlockSize
        first == IF t = 0 THEN 0 ELSE BlockSize - t     \* the bytes that complete in
        rest == len - first
        whole == rest \div BlockSize
        completed == IF t = 0 THEN <<>> ELSE <<Copied(in, t, length, first)>>
        direct == [k \in 1 .. whole |-> Copied(in, 0, length + first + (k - 1) * BlockSize, BlockSize)]
        all == completed \o direct
    IN  /\ ~done /\ length + len <= MaxLength
        /\ bits' = <<sum, Wrapped(bits[2] + Carry(sum) + (8 * len) \div CountLimit)>>
        /\ length' = length + len
        /\ IF t # 0 /\ len < first
           THEN in' = Copied(in, t, length, len) /\ UNCHANGED blocks
           ELSE /\ blocks' = blocks \o all
                /\ in' = Copied(IF all = <<>> THEN in ELSE all[Len(all)], 0,
                                length + first + whole * BlockSize, rest - whole * BlockSize)
        /\ UNCHANGED done

WithCounts(block) ==
    [n \in 0 .. BlockSize - 1 |->
        IF n >= BlockSize - CountSize THEN <<"count", n - (BlockSize - CountSize), bits>> ELSE block[n]]

Final ==
    LET used == (bits[1] \div 8) % BlockSize
        marked == [in EXCEPT ![used] = Mark]
        count == BlockSize - 1 - used
        padded == Filled(marked, used + 1, used + count, Zero)
    IN  /\ ~done /\ done' = TRUE
        /\ blocks' = blocks \o
              IF count < CountSize
              THEN <<padded, WithCounts(Filled(padded, 0, BlockSize - CountSize - 1, Zero))>>
              ELSE <<WithCounts(Filled(marked, used + 1, used + count - CountSize, Zero))>>
        /\ bits' = <<0, 0>> /\ in' = [n \in 0 .. BlockSize - 1 |-> Zero]
        /\ UNCHANGED length

(* The context is used again after Init.                                   *)
Again == done /\ bits' = <<0, 0>> /\ blocks' = <<>> /\ length' = 0 /\ done' = FALSE /\ UNCHANGED in

Md5Next == Final \/ Again \/ \E len \in 0 .. MaxPiece : Update(len)

Md5Spec == Md5Init /\ [][Md5Next]_md5Vars

-----------------------------------------------------------------------------

Md5TypeOK ==
    /\ bits \in (0 .. CountLimit - 1) \X (0 .. CountLimit - 1)
    /\ DOMAIN in = 0 .. BlockSize - 1 /\ length \in 0 .. MaxLength

(* The message as MD5 defines it: a mark, zeros to the end of a block less *)
(* the counts, and the number of its bits.                                 *)
Padded ==
    LET zeros == (BlockSize - CountSize - 1 - length) % BlockSize
        counts == <<Wrapped(8 * length), Wrapped((8 * length) \div CountLimit)>>
    IN  [n \in 1 .. length |-> Byte(n - 1)] \o <<Mark>> \o [n \in 1 .. zeros |-> Zero]
        \o [n \in 1 .. CountSize |-> <<"count", n - 1, counts>>]

(* However a message is cut into pieces, Transform gets its blocks in      *)
(* order, each once, and the padding of a message of that length, also     *)
(* when the padding takes a block more and when the count of bits carries. *)
BlocksAreMessage ==
    LET got == [n \in 1 .. Len(blocks) * BlockSize |->
                    blocks[((n - 1) \div BlockSize) + 1][(n - 1) % BlockSize]]
        left == length % BlockSize
    IN  IF done
        THEN got = Padded
        ELSE /\ got = [n \in 1 .. length - left |-> Byte(n - 1)]
             /\ \A n \in 0 .. left - 1 : in[n] = Byte(length - left + n)
=============================================================================
