-------------------------------- MODULE Flags --------------------------------
(***************************************************************************)
(* The condition flags of the two processors: what an addition or a        *)
(* subtraction of words leaves in ARM's N, Z, C, V and in x86's S, Z, C, O *)
(* and which conditions hold then.  A word is a number below 2 * Half; its *)
(* upper half stands for the negative values.  The x86 side is modelled    *)
(* from how translator.h uses it, the ARM side is what it must amount to.  *)
(***************************************************************************)
EXTENDS Integers

CONSTANT Half     \* 2^63 for Xn, 2^31 for Wn

ASSUME HalfAssumption == Half \in Nat \ {0}

Size == 2 * Half
Word == 0 .. Size - 1

Nzcv   == [N : BOOLEAN, Z : BOOLEAN, C : BOOLEAN, V : BOOLEAN]
Rflags == [S : BOOLEAN, Z : BOOLEAN, C : BOOLEAN, O : BOOLEAN]

\* One addition or subtraction goes past the word's range at most once.
Wrap(v)   == IF v < 0 THEN v + Size ELSE IF v >= Size THEN v - Size ELSE v
Signed(w) == IF w < Half THEN w ELSE w - Size
Fits(v)   == -Half <= v /\ v < Half
Bit(b)    == IF b THEN 1 ELSE 0

\* ARM's AddWithCarry; a subtraction adds the complement.
ArmAddWithCarry(a, b, c) ==
  LET r == Wrap(a + b + c)
  IN [N |-> r >= Half, Z |-> r = 0, C |-> r # a + b + c,
      V |-> Signed(r) # Signed(a) + Signed(b) + c]

Complement(b) == Size - 1 - b

ArmAdd(a, b, c) == ArmAddWithCarry(a, b, Bit(c))
ArmSub(a, b, c) == ArmAddWithCarry(a, Complement(b), Bit(c))
ArmLogic(r)     == [N |-> r >= Half, Z |-> r = 0, C |-> FALSE, V |-> FALSE]

\* add/adc, sub/sbb/cmp with carry or borrow c, and/test.
X86Add(a, b, c) ==
  LET v == a + b + Bit(c)
  IN [S |-> Wrap(v) >= Half, Z |-> Wrap(v) = 0, C |-> v >= Size,
      O |-> ~Fits(Signed(a) + Signed(b) + Bit(c))]
X86Sub(a, b, c) ==
  LET v == a - b - Bit(c)
  IN [S |-> Wrap(v) >= Half, Z |-> Wrap(v) = 0, C |-> v < 0,
      O |-> ~Fits(Signed(a) - Signed(b) - Bit(c))]
X86Logic(r) == [S |-> r >= Half, Z |-> r = 0, C |-> FALSE, O |-> FALSE]

\* What both flag registers hold after the same addition, or subtraction.
AddFlags == {[arm |-> ArmAdd(p[1], p[2], FALSE), x86 |-> X86Add(p[1], p[2], FALSE)] :
               p \in Word \X Word}
SubFlags == {[arm |-> ArmSub(p[1], p[2], TRUE), x86 |-> X86Sub(p[1], p[2], FALSE)] :
               p \in Word \X Word}

Conds == {"EQ", "NE", "CS", "CC", "MI", "PL", "VS", "VC",
          "HI", "LS", "GE", "LT", "GT", "LE", "AL", "NV"}

ArmHolds(c, f) ==    \* AL and NV always do
  /\ (c = "EQ" => f.Z)            /\ (c = "NE" => ~f.Z)
  /\ (c = "CS" => f.C)            /\ (c = "CC" => ~f.C)
  /\ (c = "MI" => f.N)            /\ (c = "PL" => ~f.N)
  /\ (c = "VS" => f.V)            /\ (c = "VC" => ~f.V)
  /\ (c = "HI" => f.C /\ ~f.Z)    /\ (c = "LS" => ~f.C \/ f.Z)
  /\ (c = "GE" => f.N = f.V)      /\ (c = "LT" => f.N # f.V)
  /\ (c = "GT" => ~f.Z /\ f.N = f.V)
  /\ (c = "LE" => f.Z \/ f.N # f.V)

CondCodes == {"O", "NO", "C", "NC", "E", "NE", "BE", "A", "S", "NS",
              "L", "GE", "LE", "G"}

\* jcc, setcc, cmovcc
X86Holds(cc, r) ==
  /\ (cc = "O" => r.O)            /\ (cc = "NO" => ~r.O)
  /\ (cc = "C" => r.C)            /\ (cc = "NC" => ~r.C)
  /\ (cc = "E" => r.Z)            /\ (cc = "NE" => ~r.Z)
  /\ (cc = "BE" => r.C \/ r.Z)    /\ (cc = "A" => ~r.C /\ ~r.Z)
  /\ (cc = "S" => r.S)            /\ (cc = "NS" => ~r.S)
  /\ (cc = "L" => r.S # r.O)      /\ (cc = "GE" => r.S = r.O)
  /\ (cc = "LE" => r.Z \/ r.S # r.O)
  /\ (cc = "G" => ~r.Z /\ r.S = r.O)
=============================================================================
