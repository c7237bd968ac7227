------------------------------ MODULE BitMasks ------------------------------
(***************************************************************************)
(* Words as sets of bit positions: the x86 instructions on them that the   *)
(* translator uses, DecodeBitMasks of common.h, and the manual's           *)
(* definition of the masks it must produce.                                *)
(***************************************************************************)
EXTENDS Integers, FiniteSetsExt

Bits(size) == 0 .. size - 1

\* ones_mask, for 64-bit words.
ones_mask(n) == Bits(IF n >= 64 THEN 64 ELSE n)

----------------------------------------------------------------------------
(* x86, on operands of size bits.                                          *)

Not(x, size)    == Bits(size) \ x
Shl(x, n, size) == {i + n : i \in {j \in x : j + n < size}}
Shr(x, n)       == {i - n : i \in {j \in x : j >= n}}
Ror(x, n, size) == Shr(x, n) \cup Shl(x, size - n, size)
Neg1(x, size)   == IF x = {} THEN {} ELSE Bits(size)   \* neg of 0 or 1
Sar(x, n, size) == Shr(x, n) \cup (IF size - 1 \in x THEN (size - n) .. (size - 1) ELSE {})
Shrd(lo, hi, n, size) == Shr(lo, n) \cup Shl(hi, size - n, size)
Bswap(x, size)  == {(size - 8) - 8 * (i \div 8) + (i % 8) : i \in x}
Bsr(x)          == Max(x)
Xor(x, y)       == (x \ y) \cup (y \ x)

\* The lowest bits of a number, in two's complement if it is negative, and
\* the number whose bits a word is.
WordOf(n, size) == {i \in Bits(size) : (n \div 2 ^ i) % 2 = 1}
NumOf(x, size)  == CHOOSE n \in 0 .. 2 ^ size - 1 : WordOf(n, size) = x

----------------------------------------------------------------------------
(* decode_bit_masks                                                        *)

\* Slip: the element is rotated to the left.
TurnedLeft(welem, R, esize) == Ror(welem, (esize - R) % esize, esize)

\* wrot
Turned(welem, R, esize) ==
  IF R = 0 THEN welem ELSE (Shr(welem, R) \cup Shl(welem, esize - R, 64)) \cap ones_mask(esize)

replicate(elem, esize) == {i \in Bits(64) : i % esize \in elem}

\* The masks, or none.
decode_bit_masks(N, imms, immr, immediate, datasize) ==
  LET combined == N * 64 + (63 - imms)
      len      == Bsr(WordOf(combined, 7))
      esize    == 2 ^ len
      S        == imms % esize
      R        == immr % esize
  IN IF \/ combined = 0 \/ len < 1 \/ datasize < esize
        \/ immediate /\ S = esize - 1
     THEN {}
     ELSE {[wmask |-> replicate(Turned(ones_mask(S + 1), R, esize), esize),
            tmask |-> replicate(ones_mask(((S - R) % esize) + 1), esize)]}

----------------------------------------------------------------------------
(* The manual: the size of the element is read off a table, and a bit of   *)
(* the mask is set if R places further on lies one of the S + 1 ones.      *)

ElementSizes(N, imms) ==
  IF N = 1 THEN {64}
  ELSE CASE imms \in 0 .. 31  -> {32}
         [] imms \in 32 .. 47 -> {16}
         [] imms \in 48 .. 55 -> {8}
         [] imms \in 56 .. 59 -> {4}
         [] imms \in 60 .. 61 -> {2}
         [] OTHER             -> {}

\* The logical immediates of an operand of size bits; none if reserved.
LogicalImmediates(N, imms, immr, size) ==
  {{i \in Bits(size) : (i + immr) % e <= imms % e} :
     e \in {f \in ElementSizes(N, imms) : f <= size /\ imms % f # f - 1}}
=============================================================================
