------------------------------ MODULE Checksum ------------------------------
(***************************************************************************)
(* The CRC-32 that ends every block (crc.rs), bit for bit: a word is the   *)
(* set of the positions of its one bits, a byte a subset of 0..7, a block  *)
(* a sequence of bytes whose last four are the checksum.                   *)
(***************************************************************************)
EXTENDS Integers, Sequences

Bits == 0..31
ByteBits == 0..7

BytesOfWord == 4

Xor(a, b) == (a \ b) \cup (b \ a)

ShiftRight(a, n) == {i - n : i \in {j \in a : j >= n}}

(* 0xEDB88320                                                              *)
Poly == {5, 8, 9, 15, 19, 20, 21, 23, 24, 26, 27, 29, 30, 31}

(* Mutant: the bit that comes next decides.                                *)
DivideLate(crc) ==
  LET next == ShiftRight(crc, 1) IN IF 0 \in next THEN Xor(next, Poly) ELSE next

(* One bit of the division: the bit that leaves decides.                   *)
Divide(crc) == IF 0 \in crc THEN Xor(ShiftRight(crc, 1), Poly) ELSE ShiftRight(crc, 1)

CrcTable == [byte \in SUBSET ByteBits |->
              LET after[n \in 0..8] == IF n = 0 THEN byte ELSE Divide(after[n - 1])
              IN  after[8]]

Crc32Update(crc, data) ==
  LET after[i \in 0..Len(data)] ==
        IF i = 0 THEN crc
        ELSE LET c == after[i - 1]
             IN  Xor(ShiftRight(c, 8), CrcTable[Xor(c \cap ByteBits, data[i])])
  IN  after[Len(data)]

(* The bytes before the checksum of a block.                               *)
Body(block) == SubSeq(block, 1, Len(block) - BytesOfWord)

(* The checksum of a block, its own field taken as zero.                   *)
ComputeBlockCrc32(block) ==
  Xor(Bits, Crc32Update(Bits, Body(block) \o [i \in 1..BytesOfWord |-> {}]))

LittleEndian(word) == [i \in 1..BytesOfWord |-> ShiftRight(word, 8 * (i - 1)) \cap ByteBits]

WriteBlockCrc(block) == Body(block) \o LittleEndian(ComputeBlockCrc32(block))

VerifyBlockCrc(block) == WriteBlockCrc(block) = block

-----------------------------------------------------------------------------
(***************************************************************************)
(* The reference: CRC-32 by its definition.  The message, its bits as the  *)
(* coefficients of a polynomial from the highest power down, the low bit   *)
(* of each byte first, is multiplied by x^32, its 32 highest coefficients  *)
(* are inverted, and the remainder of the division by the generator is     *)
(* inverted and read with the lowest power as the high bit.                *)
(***************************************************************************)
Generator == {32 - 1 - i : i \in Poly} \cup {32}

(* What long division leaves of a polynomial with powers below "bound".    *)
Remainder(poly, bound) ==
  LET divide[p \in SUBSET (0..bound - 1)] ==
        LET degree == CHOOSE d \in p \cup {0} : \A i \in p : i <= d
        IN  IF degree < 32 THEN p ELSE divide[Xor(p, {degree - 32 + i : i \in Generator})]
  IN  divide[poly]

ReferenceCrc32(message) ==
  LET bits == 8 * Len(message)
      power(i, b) == 32 + bits - 1 - (8 * (i - 1) + b)
      poly == UNION {{power(i, b) : b \in message[i]} : i \in 1..Len(message)}
  IN  Xor(Bits, {31 - i : i \in Remainder(Xor(poly, {bits + i : i \in Bits}), 32 + bits)})

(* A block after the bits in "flips", counted from its first, have turned. *)
Flip(block, flips) ==
  [i \in DOMAIN block |-> Xor(block[i], {f - 8 * (i - 1) : f \in flips} \cap ByteBits)]
=============================================================================
