----------------------------- MODULE MCDataPath -----------------------------
(***************************************************************************)
(* Instances of DataPath for TLC: every mask, every position and width of  *)
(* a bit field, every count, on a few patterns; all operands of four bits  *)
(* for divisions and multiplications; reserved encodings.                  *)
(***************************************************************************)
EXTENDS DataPath

\* No bit of these is where a shift, a turn or a reversal would put another.
Pattern == {b \in 0 .. 63 : (b * b + b \div 9) % 11 \in {0, 1, 3, 7}}
Patterns == {Pattern, Not(Pattern, 64)}
Ones == Bits(64)

\* Words in which bits are alike from the top down to one of them.
Runs == {Bits(k) : k \in 0 .. 64} \cup {Bits(64) \ Bits(k) : k \in 0 .. 63}
        \cup {{k} : k \in 0 .. 63}

All == UNION {
  [form : {"and"}, sf : BOOLEAN, N : 0 .. 1, immr : 0 .. 63, imms : 0 .. 63, n : {Ones}],
  [form : {"orr", "eor"}, sf : BOOLEAN, N : 0 .. 1, immr : {0, 5}, imms : 0 .. 63, n : {Pattern}],
  [form : {"movn", "movz", "movk"}, sf : BOOLEAN, hw : 0 .. 3,
   imm : {{}, {0, 15}, Bits(16)}, d : Patterns],
  [form : {"ubfm", "bfm"}, sf : {TRUE}, N : {1}, immr : 0 .. 63, imms : 0 .. 63,
   n : {Pattern}, d : {Not(Pattern, 64)}],
  [form : {"ubfm", "bfm"}, sf : {FALSE}, N : {0}, immr : 0 .. 31, imms : 0 .. 31,
   n : Patterns, d : Patterns],
  [form : {"ubfm", "bfm"}, sf : BOOLEAN, N : 0 .. 1, immr : {3, 40}, imms : {5, 40, 61, 62, 63},
   n : {Pattern}, d : {{}}],
  {f \in [form : {"sbfx", "sbfiz"}, sf : {TRUE}, N : {1}, immr : 0 .. 63, imms : 0 .. 63, n : {Pattern}] :
     (f.form = "sbfx") = (f.imms >= f.immr)},
  {f \in [form : {"sbfx", "sbfiz"}, sf : {FALSE}, N : {0}, immr : 0 .. 31, imms : 0 .. 31, n : Patterns] :
     (f.form = "sbfx") = (f.imms >= f.immr)},
  [form : {"extr"}, sf : {TRUE}, lsb : 0 .. 63, n : Patterns, m : Patterns],
  [form : {"extr"}, sf : {FALSE}, lsb : 0 .. 63, n : Patterns, m : Patterns],
  [form : {"rev", "clz", "cls"}, sf : BOOLEAN, n : Runs \cup Patterns],
  [form : {"rbit", "rev16"}, sf : BOOLEAN, n : Runs \cup Patterns],
  [form : {"rev32"}, sf : {TRUE}, n : Runs \cup Patterns],
  [form : {"udiv", "sdiv"}, sf : BOOLEAN, n : SUBSET Bits(Digits), m : SUBSET Bits(Digits)],
  [form : {"madd", "msub"}, sf : BOOLEAN, n : SUBSET Bits(Digits), m : SUBSET Bits(Digits),
   d : {{}, {0}, Bits(Digits)}],
  [form : {"smaddl", "smsubl", "umaddl", "umsubl"}, sf : {TRUE}, n : SUBSET Bits(Digits),
   m : SUBSET Bits(Digits), d : {{}, {0}, Bits(Digits)}],
  [form : {"umulh", "smulh"}, sf : {TRUE}, n : SUBSET Bits(Digits), m : SUBSET Bits(Digits)]}

\* Those the translation is right for, and the ones of the swap network.
ExactInsns == {f \in All : Exact(f)}
Reversals  == {f \in All : f.form \in {"rbit", "rev16", "rev32"}}
=============================================================================
