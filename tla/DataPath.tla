------------------------------ MODULE DataPath ------------------------------
(***************************************************************************)
(* What the instructions compute whose host code is more than one matching *)
(* x86 instruction: masks, bit fields, extracts, reversals, counts, wide   *)
(* moves, divisions and long multiplications (tr_dp_imm, tr_dp_reg).       *)
(*                                                                         *)
(* One instruction is decoded and executed by one step.  Where its         *)
(* registers live is RegFile's subject, its flags are LazyFlags'.  Words   *)
(* are sets of bit positions, 64 or 32 of them; divisions and              *)
(* multiplications, which use the words as numbers, have Digits bits and   *)
(* half of them instead.                                                   *)
(***************************************************************************)
EXTENDS BitMasks

CONSTANTS
  Insns,   \* the decoded instructions with the values of their operands
  Digits   \* width of an X register in divisions and multiplications

\* 64, but fewer for TLC.
ASSUME DigitsAssumption == Digits \in {2 * k : k \in 1 .. 32}

\* What the fields of an instruction and the registers it names can hold.
\* sbfx has imms >= immr, sbfiz has not; both are SBFM.
Words   == SUBSET Bits(64)
Numbers == SUBSET Bits(Digits)

Decoded(f) ==
  \/ f \in [form : {"and", "orr", "eor"}, sf : BOOLEAN, N : 0 .. 1, immr : 0 .. 63, imms : 0 .. 63, n : Words]
  \/ f \in [form : {"movn", "movz", "movk"}, sf : BOOLEAN, hw : 0 .. 3, imm : SUBSET Bits(16), d : Words]
  \/ f \in [form : {"ubfm", "bfm"}, sf : BOOLEAN, N : 0 .. 1, immr : 0 .. 63, imms : 0 .. 63, n : Words, d : Words]
  \/ /\ f \in [form : {"sbfx", "sbfiz"}, sf : BOOLEAN, N : 0 .. 1, immr : 0 .. 63, imms : 0 .. 63, n : Words]
     /\ (f.form = "sbfx") = (f.imms >= f.immr)
  \/ f \in [form : {"extr"}, sf : BOOLEAN, lsb : 0 .. 63, n : Words, m : Words]
  \/ f \in [form : {"rbit", "rev16", "rev", "clz", "cls"}, sf : BOOLEAN, n : Words]
  \/ f \in [form : {"rev32"}, sf : {TRUE}, n : Words]
  \/ f \in [form : {"udiv", "sdiv"}, sf : BOOLEAN, n : Numbers, m : Numbers]
  \/ f \in [form : {"madd", "msub"}, sf : BOOLEAN, n : Numbers, m : Numbers, d : Numbers]
  \/ f \in [form : {"smaddl", "smsubl", "umaddl", "umsubl"}, sf : {TRUE}, n : Numbers, m : Numbers, d : Numbers]
  \/ f \in [form : {"umulh", "smulh"}, sf : {TRUE}, n : Numbers, m : Numbers]

ASSUME InsnsAssumption == \A f \in Insns : Decoded(f)

VARIABLES
  insn,    \* the instruction
  rd,      \* the value its destination gets
  outcome  \* how its host code ended

vars == <<insn, rd, outcome>>

i == insn

\* Widths, and the operands as ld_r loads them.
Width  == IF i.sf THEN 64 ELSE 32
Narrow == IF i.sf THEN Digits ELSE Digits \div 2
Ld(x)  == x \cap Bits(Width)
LdN(x) == x \cap Bits(Narrow)

Is(forms) == outcome = "fetched" /\ i.form \in forms

St(v)  == rd' = v /\ outcome' = "kNext" /\ UNCHANGED insn
Bad    == outcome' = "kBad" /\ UNCHANGED <<insn, rd>>
Trap   == outcome' = "trap" /\ UNCHANGED <<insn, rd>>

----------------------------------------------------------------------------
(* tr_dp_imm                                                               *)

LogicalImm ==
  /\ Is({"and", "orr", "eor"})
  /\ LET masks == IF ~i.sf /\ i.N = 1 THEN {}
                  ELSE decode_bit_masks(i.N, i.imms, i.immr, TRUE, Width)
     IN \/ masks = {} /\ Bad
        \/ \E k \in masks :
             LET wmask == Ld(k.wmask) IN
             St(CASE i.form = "and" -> Ld(i.n) \cap wmask
                  [] i.form = "orr" -> Ld(i.n) \cup wmask
                  [] i.form = "eor" -> Xor(Ld(i.n), wmask))

\* Slip: the constant of a 32-bit MOVN goes to its register in 64 bits.
MovedUncut(form, field, size) == IF form = "movn" THEN Not(field, 64) ELSE field

\* The constant of MOVN and MOVZ.
Moved(form, field, size) == IF form = "movn" THEN Not(field, size) ELSE field

MoveWide ==
  /\ Is({"movn", "movz", "movk"})
  /\ IF ~i.sf /\ i.hw > 1 THEN Bad
     ELSE LET field == Shl(i.imm, 16 * i.hw, 64)
              keep  == Not(Shl(Bits(16), 16 * i.hw, 64), 64)
          IN St(IF i.form = "movk" THEN (Ld(i.d) \cap keep) \cup field
                ELSE Moved(i.form, field, Width))

Bitfield ==
  /\ Is({"ubfm", "sbfx", "sbfiz", "bfm"})
  /\ LET masks == IF i.sf # (i.N = 1) THEN {}
                  ELSE decode_bit_masks(i.N, i.imms, i.immr, FALSE, Width)
     IN \/ masks = {} /\ Bad
        \/ \E k \in masks :
             LET R    == i.immr % Width
                 S    == i.imms % Width
                 m    == Ld(k.wmask \cap k.tmask)
                 bot  == Ror(Ld(i.n), R, Width) \cap m
                 sign == Neg1(Shr(Ld(i.n), S) \cap {0}, Width)
             IN St(CASE i.form = "ubfm" -> bot
                     [] i.form = "bfm"  -> bot \cup (Ld(i.d) \cap Not(m, Width))
                     [] OTHER           -> bot \cup (sign \cap Not(m, Width)))

\* shrd takes its count modulo the width.
Extract == Is({"extr"}) /\ St(Shrd(Ld(i.m), Ld(i.n), i.lsb % Width, Width))

----------------------------------------------------------------------------
(* tr_dp_reg: one source                                                   *)

\* k: blocks of s bits, every second one, from the low end.
Evens(s) == {b \in Bits(Width) : (b \div s) % 2 = 0}

swap_step(v, s) == Shr(v \cap Evens(s), s) \cup Shl(v \cap Evens(s), s, Width)

Reverse ==
  \/ /\ Is({"rbit"})
     /\ LET v   == swap_step(swap_step(swap_step(swap_step(swap_step(
                     Ld(i.n), 1), 2), 4), 8), 16)
        IN St(IF i.sf THEN Shr(v, 32) \cup Shl(v, 32, 64) ELSE v)
  \/ Is({"rev16"}) /\ St(swap_step(Ld(i.n), 8))
  \/ Is({"rev32"}) /\ i.sf /\ St(swap_step(swap_step(Ld(i.n), 8), 16))
  \/ Is({"rev"}) /\ St(Bswap(Ld(i.n), Width))

Count ==
  /\ Is({"clz", "cls"})
  /\ LET x == IF i.form = "clz" THEN Ld(i.n)
              ELSE Xor(Ld(i.n), Sar(Ld(i.n), Width - 1, Width))
     IN St(WordOf(IF x = {} THEN Width ELSE Width - 1 - Bsr(x), 7))

----------------------------------------------------------------------------
(* tr_dp_reg: divisions and multiplications                                *)

SNum(x, size) == NumOf(x, size) - (IF size - 1 \in x THEN 2 ^ size ELSE 0)
Abs(v) == IF v < 0 THEN -v ELSE v

\* Division rounds towards zero.
Quotient(v, w) == IF (v < 0) = (w < 0) THEN Abs(v) \div Abs(w) ELSE -(Abs(v) \div Abs(w))

\* div and idiv raise #DE for a quotient that the register does not hold.
Div(v, w, least, size) ==
  IF w = 0 \/ ~(Quotient(v, w) \in least .. (least + 2 ^ size - 1)) THEN Trap
  ELSE St(WordOf(Quotient(v, w), size))

\* Slip: no case for a divisor of -1.
NegatesNever(x, size) == FALSE
Negates(x, size) == x = Bits(size)

Divide ==
  \/ /\ Is({"udiv"})
     /\ IF LdN(i.m) = {} THEN St({})
        ELSE Div(NumOf(LdN(i.n), Narrow), NumOf(LdN(i.m), Narrow), 0, Narrow)
  \/ /\ Is({"sdiv"})
     /\ LET n == LdN(i.n)
            m == LdN(i.m)
        IN IF m = {} THEN St({})
           ELSE IF Negates(m, Narrow) THEN St(WordOf(-NumOf(n, Narrow), Narrow))
           ELSE Div(SNum(n, Narrow), SNum(m, Narrow), -(2 ^ (Narrow - 1)), Narrow)

\* imul keeps the low half, whatever the signs.
Imul(v, w, size) == (v * w) % 2 ^ size

Multiply ==
  \/ /\ Is({"madd", "msub"})
     /\ LET p == Imul(NumOf(LdN(i.n), Narrow), NumOf(LdN(i.m), Narrow), Narrow)
            a == NumOf(LdN(i.d), Narrow)
        IN St(WordOf(IF i.form = "msub" THEN a - p ELSE a + p, Narrow))
  \/ /\ Is({"smaddl", "smsubl", "umaddl", "umsubl"}) /\ i.sf
     /\ LET half == Digits \div 2
            Wide(x) == IF i.form \in {"smaddl", "smsubl"}
                       THEN SNum(x \cap Bits(half), half) ELSE NumOf(x \cap Bits(half), half)
            p == Imul(Wide(i.n), Wide(i.m), Digits)
            a == NumOf(i.d, Digits)
        IN St(WordOf(IF i.form \in {"smsubl", "umsubl"} THEN a - p ELSE a + p, Digits))
  \/ /\ Is({"umulh"}) /\ i.sf
     /\ St(WordOf((NumOf(i.n, Digits) * NumOf(i.m, Digits)) \div 2 ^ Digits, Digits))
  \/ /\ Is({"smulh"}) /\ i.sf
     /\ St(WordOf((SNum(i.n, Digits) * SNum(i.m, Digits)) \div 2 ^ Digits, Digits))

----------------------------------------------------------------------------

Init == insn \in Insns /\ rd = {} /\ outcome = "fetched"

\* The block's next instruction is another behaviour.
Done == outcome # "fetched" /\ UNCHANGED vars

Next == \/ LogicalImm \/ MoveWide \/ Bitfield \/ Extract
        \/ Reverse \/ Count \/ Divide \/ Multiply \/ Done

Spec == Init /\ [][Next]_vars

----------------------------------------------------------------------------
(* The manual, by what an instruction is for: where each bit of the result *)
(* comes from, which number it is.                                         *)

\* The bits a bit field is taken from or put to, and the field there.
FieldAt == IF i.imms >= i.immr THEN 0 .. (i.imms - i.immr)
           ELSE (Width - i.immr) .. (Width - i.immr + i.imms)
FieldIs == {b \in FieldAt : (b + i.immr) % Width \in i.n}

\* The bytes of each group of k bytes in the opposite order.
BytesReversed(k) ==
  {b \in Bits(Width) : 8 * k * (b \div (8 * k)) + 8 * (k - 1 - ((b \div 8) % k)) + (b % 8) \in i.n}

\* Highest bits that are like the topmost one.
SignRun == {k \in 1 .. Width : \A b \in (Width - k) .. (Width - 1) :
                                 (b \in i.n) = (Width - 1 \in i.n)}
ZeroRun == {k \in 0 .. Width : (Width - k) .. (Width - 1) \cap i.n = {}}

\* The low half, as a number with or without a sign.
Low(x) == IF i.form \in {"smaddl", "smsubl"} THEN SNum(x \cap Bits(Digits \div 2), Digits \div 2)
          ELSE NumOf(x \cap Bits(Digits \div 2), Digits \div 2)

Arm ==
  CASE i.form \in {"and", "orr", "eor"} ->
         {CASE i.form = "and" -> Ld(i.n) \cap w
            [] i.form = "orr" -> Ld(i.n) \cup w
            [] i.form = "eor" -> Xor(Ld(i.n), w) :
            w \in IF i.N = 1 /\ ~i.sf THEN {}
                  ELSE LogicalImmediates(i.N, i.imms, i.immr, Width)}
    [] i.form \in {"movz", "movn", "movk"} ->
         IF ~i.sf /\ i.hw > 1 THEN {}
         ELSE {{b \in Bits(Width) :
                  IF b \div 16 = i.hw THEN ((b % 16) \in i.imm) # (i.form = "movn")
                  ELSE CASE i.form = "movz" -> FALSE
                         [] i.form = "movn" -> TRUE
                         [] i.form = "movk" -> b \in i.d}}
    [] i.form \in {"ubfm", "bfm", "sbfx", "sbfiz"} ->
         IF i.sf # (i.N = 1) \/ i.immr >= Width \/ i.imms >= Width THEN {}
         ELSE {FieldIs \cup
                 CASE i.form = "ubfm" -> {}
                   [] i.form = "bfm"  -> Ld(i.d) \ FieldAt
                   [] OTHER -> IF i.imms \in i.n
                               THEN {b \in Bits(Width) : \A c \in FieldAt : b > c} ELSE {}}
    [] i.form = "extr" ->
         IF i.lsb >= Width THEN {}
         ELSE {{b \in Bits(Width) : IF b + i.lsb < Width THEN b + i.lsb \in i.m
                                    ELSE b + i.lsb - Width \in i.n}}
    [] i.form = "rbit"  -> {{b \in Bits(Width) : Width - 1 - b \in i.n}}
    [] i.form = "rev16" -> {BytesReversed(2)}
    [] i.form = "rev32" -> {BytesReversed(4)}
    [] i.form = "rev"   -> {BytesReversed(Width \div 8)}
    [] i.form = "clz"   -> {WordOf(Max(ZeroRun), 7)}
    [] i.form = "cls"   -> {WordOf(Max(SignRun) - 1, 7)}
    [] i.form = "udiv"  ->
         {IF LdN(i.m) = {} THEN {}
          ELSE WordOf(NumOf(LdN(i.n), Narrow) \div NumOf(LdN(i.m), Narrow), Narrow)}
    [] i.form = "sdiv"  ->
         {IF LdN(i.m) = {} THEN {}
          ELSE WordOf(Quotient(SNum(LdN(i.n), Narrow), SNum(LdN(i.m), Narrow)), Narrow)}
    [] i.form = "madd" -> {WordOf(NumOf(i.d, Digits) + NumOf(i.n, Digits) * NumOf(i.m, Digits), Narrow)}
    [] i.form = "msub" -> {WordOf(NumOf(i.d, Digits) - NumOf(i.n, Digits) * NumOf(i.m, Digits), Narrow)}
    [] i.form \in {"smaddl", "umaddl"} -> {WordOf(NumOf(i.d, Digits) + Low(i.n) * Low(i.m), Digits)}
    [] i.form \in {"smsubl", "umsubl"} -> {WordOf(NumOf(i.d, Digits) - Low(i.n) * Low(i.m), Digits)}
    [] i.form = "umulh" -> {{b \in Bits(Digits) : b + Digits \in WordOf(NumOf(i.n, Digits) * NumOf(i.m, Digits), 2 * Digits)}}
    [] i.form = "smulh" -> {{b \in Bits(Digits) :
          b + Digits \in WordOf(SNum(i.n, Digits) * SNum(i.m, Digits), 2 * Digits)}}

----------------------------------------------------------------------------
(* Properties.                                                             *)

\* What the translation is right for: not for cls; for sbfiz of a field whose
\* sign is not set; for reversals of one low bit or byte, as the swap network
\* loses or doubles the others; not for the encodings of 32-bit bit fields and
\* extracts that the manual reserves and the code takes.
Exact(f) ==
  LET width == IF f.sf THEN 64 ELSE 32 IN
  /\ f.form # "cls"
  /\ f.form = "sbfiz" => f.imms \notin f.n
  /\ f.form = "rbit" => f.n \cap Bits(width) \subseteq {0}
  /\ f.form \in {"rev16", "rev32"} => f.n \cap Bits(width) \subseteq Bits(8)
  /\ f.form \in {"ubfm", "sbfx", "sbfiz", "bfm"} /\ f.sf = (f.N = 1) =>
       (f.immr < width /\ f.imms < width) \/ (~f.sf /\ f.imms > 61)
  /\ f.form = "extr" => f.lsb < width

\* A 32-bit instruction leaves a word of 32 bits: what st_r relies on.
TypeOK ==
  /\ insn \in Insns
  /\ outcome \in {"fetched", "kNext", "kBad", "trap"}
  /\ rd \subseteq Bits(Width)

\* Every instruction that is translated computes what the manual says of it,
\* and none is refused that the manual defines (decode_bit_masks, tr_dp_imm,
\* tr_dp_reg).
AgreesWithArm ==
  /\ outcome = "kNext" => Arm = {rd}
  /\ outcome = "kBad"  => Arm = {}

\* No division takes the host process down: neither by zero nor of the least
\* number by -1 (UDIV, SDIV).
NoTrap == outcome # "trap"
=============================================================================
