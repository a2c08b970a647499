------------------------------ MODULE Checksum ------------------------------
(***************************************************************************)
(* The checksum arithmetic of firmware/uip/uip.c, for bytes of any size.   *)
(***************************************************************************)
EXTENDS Integers, Sequences, SequencesExt

CONSTANTS
    Byte,          \* values of a byte, 256
    Echo           \* ICMP_ECHO; the reply is type 0

ASSUME ChecksumAssumption == Byte \in Nat \ {0, 1} /\ Echo \in 1..(Byte - 1)

Word == Byte * Byte
Words == 0..(Word - 1)
Bytes == 0..(Byte - 1)

\* Mutant: the carry is dropped.
AddCarry_Dropped(sum, t) == (sum + t) % Word
\* One step of chksum: sum += t, plus the carry.
AddCarry(sum, t) == LET s == (sum + t) % Word IN IF s < t THEN s + 1 ELSE s

\* Network order; an odd last byte is followed by a zero.
Pairs(bytes) ==
    [i \in 1..((Len(bytes) + 1) \div 2) |->
        bytes[2 * i - 1] * Byte + (IF 2 * i <= Len(bytes) THEN bytes[2 * i] ELSE 0)]
SumWords(sum, words) == FoldLeft(AddCarry, sum, words)
chksum(sum, bytes) == SumWords(sum, Pairs(bytes))
NeverZero(sum) == IF sum = 0 THEN Word - 1 ELSE sum
Complement(w) == Word - 1 - w

\* A word of memory in a register of a little-endian processor, and back.
Swap(w) == (w % Byte) * Byte + w \div Byte
\* Mutant: the register is taken to be in network order.
EchoReplySum_HostOrder(c) ==
    IF c >= Complement(Echo) THEN (c + Echo + 1) % Word ELSE (c + Echo) % Word
\* The type falls by Echo in the high byte; the checksum rises by as much.
EchoReplySum(c) ==
    LET r == Swap(c)
        rise == Swap(Echo * Byte)
    IN Swap(IF r >= Swap(Complement(Echo * Byte)) THEN (r + rise + 1) % Word
            ELSE (r + rise) % Word)

\* uip_add32: four bytes, most significant first, and a word.  Each byte
\* wraps; the carry goes to the next higher one.
Bump(b) == (b + 1) % Byte
uip_add32(op32, op16) ==
    LET lo == op16 % Byte
        hi == op16 \div Byte
        a4 == (op32[4] + lo) % Byte
        a3 == (op32[3] + hi) % Byte
        c3 == a3 < hi
        a2 == IF c3 THEN Bump(op32[2]) ELSE op32[2]
        a1 == IF c3 /\ a2 = 0 THEN Bump(op32[1]) ELSE op32[1]
        c4 == a4 < lo
        b3 == IF c4 THEN Bump(a3) ELSE a3
        b2 == IF c4 /\ b3 = 0 THEN Bump(a2) ELSE a2
        b1 == IF c4 /\ b3 = 0 /\ b2 = 0 THEN Bump(a1) ELSE a1
    IN <<b1, b2, b3, a4>>

=============================================================================
