--------------------------- MODULE LazyFlags_proofs ---------------------------
(***************************************************************************)
(* Proofs about LazyFlags, for words of any width: x86 leaves in RFLAGS    *)
(* what ARM leaves in NZCV, the fused condition codes mean what the ARM    *)
(* conditions mean, and therefore flags that are not lost decide right.    *)
(***************************************************************************)
EXTENDS LazyFlags, TLAPS

\* An addition with carry: C is CF, V is OF.
LEMMA AddMatches ==
  ASSUME NEW a \in Word, NEW b \in Word, NEW c \in BOOLEAN
  PROVE  /\ X86Add(a, b, c) \in Rflags
         /\ ArmAdd(a, b, c) \in Nzcv
         /\ ArmAdd(a, b, c) = Materialized("kFromAdd", X86Add(a, b, c))
<1>1. Half \in Nat /\ Half > 0
  BY HalfAssumption
<1>2. a \in Int /\ b \in Int /\ 0 <= a /\ a < 2 * Half /\ 0 <= b /\ b < 2 * Half
  BY <1>1 DEF Word, Size
<1>3. Bit(c) \in {0, 1}
  BY DEF Bit
<1>4. X86Add(a, b, c) \in Rflags /\ ArmAdd(a, b, c) \in Nzcv
  BY DEF X86Add, Rflags, ArmAdd, ArmAddWithCarry, Nzcv
<1> DEFINE r == Wrap(a + b + Bit(c))
<1>5. (a + b + Bit(c) >= Size) <=> (r # a + b + Bit(c))
  BY <1>1, <1>2, <1>3 DEF Wrap, Size
<1>6. ~Fits(Signed(a) + Signed(b) + Bit(c))
      <=> Signed(r) # Signed(a) + Signed(b) + Bit(c)
  BY <1>1, <1>2, <1>3 DEF Wrap, Size, Signed, Fits
<1> QED
  BY <1>4, <1>5, <1>6
     DEF X86Add, ArmAdd, ArmAddWithCarry, Materialized

\* A subtraction: the borrow is the inverse of the carry, in and out.
LEMMA SubMatches ==
  ASSUME NEW a \in Word, NEW b \in Word, NEW c \in BOOLEAN
  PROVE  /\ X86Sub(a, b, ~c) \in Rflags
         /\ ArmSub(a, b, c) \in Nzcv
         /\ ArmSub(a, b, c) = Materialized("kFromSub", X86Sub(a, b, ~c))
<1>1. Half \in Nat /\ Half > 0
  BY HalfAssumption
<1>2. a \in Int /\ b \in Int /\ 0 <= a /\ a < 2 * Half /\ 0 <= b /\ b < 2 * Half
  BY <1>1 DEF Word, Size
<1>3. Bit(c) \in {0, 1} /\ Bit(~c) = 1 - Bit(c)
  BY DEF Bit
<1>4. X86Sub(a, b, ~c) \in Rflags /\ ArmSub(a, b, c) \in Nzcv
  BY DEF X86Sub, Rflags, ArmSub, ArmAddWithCarry, Nzcv
<1> DEFINE v == a - b - Bit(~c)
           u == a + Complement(b) + Bit(c)
<1>5. u = v + Size
  BY <1>1, <1>2, <1>3 DEF Complement, Size
<1>6. Wrap(u) = Wrap(v)
  BY <1>1, <1>2, <1>3, <1>5 DEF Wrap, Size
<1>7. (Wrap(u) # u) <=> ~(v < 0)
  BY <1>1, <1>2, <1>3, <1>5 DEF Wrap, Size
<1>8. Signed(Complement(b)) = -1 - Signed(b)
  BY <1>1, <1>2 DEF Complement, Signed, Size
<1>9. ~Fits(Signed(a) - Signed(b) - Bit(~c))
      <=> Signed(Wrap(v)) # Signed(a) + Signed(Complement(b)) + Bit(c)
  BY <1>1, <1>2, <1>3, <1>8 DEF Wrap, Size, Signed, Fits
<1> QED
  BY <1>4, <1>6, <1>7, <1>9
     DEF X86Sub, ArmSub, ArmAddWithCarry, Materialized

LEMMA LogicMatches ==
  ASSUME NEW r \in Word
  PROVE  /\ X86Logic(r) \in Rflags /\ ArmLogic(r) \in Nzcv
         /\ ArmLogic(r) = Materialized("kFromLogic", X86Logic(r))
<1>1. X86Logic(r) \in Rflags /\ ArmLogic(r) \in Nzcv
  BY DEF X86Logic, ArmLogic, Rflags, Nzcv
<1>2. X86Logic(r).S = (r >= Half) /\ X86Logic(r).Z = (r = 0)
  BY DEF X86Logic
<1>3. Materialized("kFromLogic", X86Logic(r))
      = [N |-> X86Logic(r).S, Z |-> X86Logic(r).Z, C |-> FALSE, V |-> FALSE]
  BY DEF Materialized
<1> QED BY <1>1, <1>2, <1>3 DEF ArmLogic

\* Where a map has an entry, the fused code means the ARM condition of the
\* flags it stands for; after a logical operation C and O are clear.
LEMMA FusedMeans ==
  ASSUME NEW c \in Conds \ {"AL", "NV"}, NEW src \in FlagSrc \ {"kNone"},
         NEW r \in Rflags, src = "kFromLogic" => ~r.C /\ ~r.O,
         MapOf(src)[c] # "none"
  PROVE  /\ X86Holds(MapOf(src)[c], r) <=> ArmHolds(c, Materialized(src, r))
         /\ MapOf(src)[c] \in CondCodes
<1> DEFINE f == Materialized(src, r)
<1>1. r.S \in BOOLEAN /\ r.Z \in BOOLEAN /\ r.C \in BOOLEAN /\ r.O \in BOOLEAN
  BY DEF Rflags
<1>2. src \in {"kFromAdd", "kFromSub", "kFromLogic"}
  BY DEF FlagSrc
<1>3. /\ f.N = r.S /\ f.Z = r.Z
      /\ src = "kFromSub" => (f.C <=> ~r.C) /\ f.V = r.O
      /\ src = "kFromAdd" => f.C = r.C /\ f.V = r.O
      /\ src = "kFromLogic" => f.C = FALSE /\ f.V = FALSE
  BY <1>1, <1>2 DEF Materialized
<1> HIDE DEF f
<1> DEFINE m == MapOf(src)
<1>4. /\ src = "kFromSub" => m = SubMap
      /\ src = "kFromAdd" => m = AddMap
      /\ src = "kFromLogic" => m = LogMap
  BY DEF MapOf
<1>5. m[c] # "none"
  OBVIOUS
<1> HIDE DEF m
<1> SUFFICES /\ X86Holds(m[c], r) <=> ArmHolds(c, f)
             /\ m[c] \in CondCodes
  BY DEF m, f
<1>EQ. CASE c = "EQ"
  BY <1>EQ, <1>1, <1>2, <1>3, <1>4, <1>5
     DEF AddMap, SubMap, LogMap, X86Holds, ArmHolds, CondCodes
<1>NE. CASE c = "NE"
  BY <1>NE, <1>1, <1>2, <1>3, <1>4, <1>5
     DEF AddMap, SubMap, LogMap, X86Holds, ArmHolds, CondCodes
<1>CS. CASE c = "CS"
  <2>1. CASE src = "kFromSub"
    BY <1>CS, <2>1, <1>1, <1>3, <1>4 DEF SubMap, X86Holds, ArmHolds, CondCodes
  <2>2. CASE src = "kFromAdd"
    BY <1>CS, <2>2, <1>1, <1>3, <1>4, <1>5
       DEF AddMap, SubMap, X86Holds, ArmHolds, CondCodes
  <2>3. CASE src = "kFromLogic"
    BY <1>CS, <2>3, <1>1, <1>3, <1>4, <1>5
       DEF LogMap, SubMap, X86Holds, ArmHolds, CondCodes
  <2> QED BY <1>2, <2>1, <2>2, <2>3
<1>CC. CASE c = "CC"
  <2>1. CASE src = "kFromSub"
    BY <1>CC, <2>1, <1>1, <1>3, <1>4 DEF SubMap, X86Holds, ArmHolds, CondCodes
  <2>2. CASE src = "kFromAdd"
    BY <1>CC, <2>2, <1>1, <1>3, <1>4, <1>5
       DEF AddMap, SubMap, X86Holds, ArmHolds, CondCodes
  <2>3. CASE src = "kFromLogic"
    BY <1>CC, <2>3, <1>1, <1>3, <1>4, <1>5
       DEF LogMap, SubMap, X86Holds, ArmHolds, CondCodes
  <2> QED BY <1>2, <2>1, <2>2, <2>3
<1>MI. CASE c = "MI"
  BY <1>MI, <1>1, <1>2, <1>3, <1>4, <1>5
     DEF AddMap, SubMap, LogMap, X86Holds, ArmHolds, CondCodes
<1>PL. CASE c = "PL"
  BY <1>PL, <1>1, <1>2, <1>3, <1>4, <1>5
     DEF AddMap, SubMap, LogMap, X86Holds, ArmHolds, CondCodes
<1>VS. CASE c = "VS"
  BY <1>VS, <1>1, <1>2, <1>3, <1>4, <1>5
     DEF AddMap, SubMap, LogMap, X86Holds, ArmHolds, CondCodes
<1>VC. CASE c = "VC"
  BY <1>VC, <1>1, <1>2, <1>3, <1>4, <1>5
     DEF AddMap, SubMap, LogMap, X86Holds, ArmHolds, CondCodes
<1>HI. CASE c = "HI"
  <2>1. CASE src = "kFromSub"
    BY <1>HI, <2>1, <1>1, <1>3, <1>4 DEF SubMap, X86Holds, ArmHolds, CondCodes
  <2>2. CASE src = "kFromAdd"
    BY <1>HI, <2>2, <1>1, <1>3, <1>4, <1>5
       DEF AddMap, SubMap, X86Holds, ArmHolds, CondCodes
  <2>3. CASE src = "kFromLogic"
    BY <1>HI, <2>3, <1>1, <1>3, <1>4, <1>5
       DEF LogMap, SubMap, X86Holds, ArmHolds, CondCodes
  <2> QED BY <1>2, <2>1, <2>2, <2>3
<1>LS. CASE c = "LS"
  <2>1. CASE src = "kFromSub"
    BY <1>LS, <2>1, <1>1, <1>3, <1>4 DEF SubMap, X86Holds, ArmHolds, CondCodes
  <2>2. CASE src = "kFromAdd"
    BY <1>LS, <2>2, <1>1, <1>3, <1>4, <1>5
       DEF AddMap, SubMap, X86Holds, ArmHolds, CondCodes
  <2>3. CASE src = "kFromLogic"
    BY <1>LS, <2>3, <1>1, <1>3, <1>4, <1>5
       DEF LogMap, SubMap, X86Holds, ArmHolds, CondCodes
  <2> QED BY <1>2, <2>1, <2>2, <2>3
<1>GE. CASE c = "GE"
  <2>1. CASE src = "kFromSub"
    BY <1>GE, <2>1, <1>1, <1>3, <1>4 DEF SubMap, X86Holds, ArmHolds, CondCodes
  <2>2. CASE src = "kFromAdd"
    BY <1>GE, <2>2, <1>1, <1>3, <1>4, <1>5
       DEF AddMap, SubMap, X86Holds, ArmHolds, CondCodes
  <2>3. CASE src = "kFromLogic"
    BY <1>GE, <2>3, <1>1, <1>3, <1>4, <1>5
       DEF LogMap, SubMap, X86Holds, ArmHolds, CondCodes
  <2> QED BY <1>2, <2>1, <2>2, <2>3
<1>LT. CASE c = "LT"
  <2>1. CASE src = "kFromSub"
    BY <1>LT, <2>1, <1>1, <1>3, <1>4 DEF SubMap, X86Holds, ArmHolds, CondCodes
  <2>2. CASE src = "kFromAdd"
    BY <1>LT, <2>2, <1>1, <1>3, <1>4, <1>5
       DEF AddMap, SubMap, X86Holds, ArmHolds, CondCodes
  <2>3. CASE src = "kFromLogic"
    BY <1>LT, <2>3, <1>1, <1>3, <1>4, <1>5
       DEF LogMap, SubMap, X86Holds, ArmHolds, CondCodes
  <2> QED BY <1>2, <2>1, <2>2, <2>3
<1>GT. CASE c = "GT"
  <2>1. CASE src = "kFromSub"
    BY <1>GT, <2>1, <1>1, <1>3, <1>4 DEF SubMap, X86Holds, ArmHolds, CondCodes
  <2>2. CASE src = "kFromAdd"
    BY <1>GT, <2>2, <1>1, <1>3, <1>4, <1>5
       DEF AddMap, SubMap, X86Holds, ArmHolds, CondCodes
  <2>3. CASE src = "kFromLogic"
    BY <1>GT, <2>3, <1>1, <1>3, <1>4, <1>5
       DEF LogMap, SubMap, X86Holds, ArmHolds, CondCodes
  <2> QED BY <1>2, <2>1, <2>2, <2>3
<1>LE. CASE c = "LE"
  <2>1. CASE src = "kFromSub"
    BY <1>LE, <2>1, <1>1, <1>3, <1>4 DEF SubMap, X86Holds, ArmHolds, CondCodes
  <2>2. CASE src = "kFromAdd"
    BY <1>LE, <2>2, <1>1, <1>3, <1>4, <1>5
       DEF AddMap, SubMap, X86Holds, ArmHolds, CondCodes
  <2>3. CASE src = "kFromLogic"
    BY <1>LE, <2>3, <1>1, <1>3, <1>4, <1>5
       DEF LogMap, SubMap, X86Holds, ArmHolds, CondCodes
  <2> QED BY <1>2, <2>1, <2>2, <2>3
<1> QED
  BY <1>EQ, <1>NE, <1>CS, <1>CC, <1>MI, <1>PL, <1>VS, <1>VC, <1>HI, <1>LS, <1>GE, <1>LT, <1>GT, <1>LE DEF Conds

\* inv_cc inverts.
LEMMA InvMeans ==
  ASSUME NEW cc \in CondCodes, NEW r \in Rflags
  PROVE  X86Holds(InvCC[cc], r) <=> ~X86Holds(cc, r)
<1>1. r.S \in BOOLEAN /\ r.Z \in BOOLEAN /\ r.C \in BOOLEAN /\ r.O \in BOOLEAN
  BY DEF Rflags
<1>O. CASE cc = "O"
  BY <1>O, <1>1 DEF InvCC, X86Holds
<1>NO. CASE cc = "NO"
  BY <1>NO, <1>1 DEF InvCC, X86Holds
<1>C. CASE cc = "C"
  BY <1>C, <1>1 DEF InvCC, X86Holds
<1>NC. CASE cc = "NC"
  BY <1>NC, <1>1 DEF InvCC, X86Holds
<1>E. CASE cc = "E"
  BY <1>E, <1>1 DEF InvCC, X86Holds
<1>NE. CASE cc = "NE"
  BY <1>NE, <1>1 DEF InvCC, X86Holds
<1>BE. CASE cc = "BE"
  BY <1>BE, <1>1 DEF InvCC, X86Holds
<1>A. CASE cc = "A"
  BY <1>A, <1>1 DEF InvCC, X86Holds
<1>S. CASE cc = "S"
  BY <1>S, <1>1 DEF InvCC, X86Holds
<1>NS. CASE cc = "NS"
  BY <1>NS, <1>1 DEF InvCC, X86Holds
<1>L. CASE cc = "L"
  BY <1>L, <1>1 DEF InvCC, X86Holds
<1>GE. CASE cc = "GE"
  BY <1>GE, <1>1 DEF InvCC, X86Holds
<1>LE. CASE cc = "LE"
  BY <1>LE, <1>1 DEF InvCC, X86Holds
<1>G. CASE cc = "G"
  BY <1>G, <1>1 DEF InvCC, X86Holds
<1> QED
  BY <1>O, <1>NO, <1>C, <1>NC, <1>E, <1>NE, <1>BE, <1>A, <1>S, <1>NS, <1>L, <1>GE, <1>LE, <1>G DEF CondCodes

\* emit_cond computes the ARM condition from the bytes in memory.
LEMMA EmitMeans ==
  ASSUME NEW c \in Conds, NEW f \in Nzcv
  PROVE  EmitCond(c, f) <=> ArmHolds(c, f)
<1>1. f.N \in BOOLEAN /\ f.Z \in BOOLEAN /\ f.C \in BOOLEAN /\ f.V \in BOOLEAN
  BY DEF Nzcv
<1>EQ. CASE c = "EQ"
  BY <1>EQ, <1>1 DEF EmitCond, EmitBase, EvenOf, ArmHolds
<1>NE. CASE c = "NE"
  BY <1>NE, <1>1 DEF EmitCond, EmitBase, EvenOf, ArmHolds
<1>CS. CASE c = "CS"
  BY <1>CS, <1>1 DEF EmitCond, EmitBase, EvenOf, ArmHolds
<1>CC. CASE c = "CC"
  BY <1>CC, <1>1 DEF EmitCond, EmitBase, EvenOf, ArmHolds
<1>MI. CASE c = "MI"
  BY <1>MI, <1>1 DEF EmitCond, EmitBase, EvenOf, ArmHolds
<1>PL. CASE c = "PL"
  BY <1>PL, <1>1 DEF EmitCond, EmitBase, EvenOf, ArmHolds
<1>VS. CASE c = "VS"
  BY <1>VS, <1>1 DEF EmitCond, EmitBase, EvenOf, ArmHolds
<1>VC. CASE c = "VC"
  BY <1>VC, <1>1 DEF EmitCond, EmitBase, EvenOf, ArmHolds
<1>HI. CASE c = "HI"
  BY <1>HI, <1>1 DEF EmitCond, EmitBase, EvenOf, ArmHolds
<1>LS. CASE c = "LS"
  BY <1>LS, <1>1 DEF EmitCond, EmitBase, EvenOf, ArmHolds
<1>GE. CASE c = "GE"
  BY <1>GE, <1>1 DEF EmitCond, EmitBase, EvenOf, ArmHolds
<1>LT. CASE c = "LT"
  BY <1>LT, <1>1 DEF EmitCond, EmitBase, EvenOf, ArmHolds
<1>GT. CASE c = "GT"
  BY <1>GT, <1>1 DEF EmitCond, EmitBase, EvenOf, ArmHolds
<1>LE. CASE c = "LE"
  BY <1>LE, <1>1 DEF EmitCond, EmitBase, EvenOf, ArmHolds
<1>AL. CASE c = "AL"
  BY <1>AL, <1>1 DEF EmitCond, EmitBase, EvenOf, ArmHolds
<1>NV. CASE c = "NV"
  BY <1>NV, <1>1 DEF EmitCond, EmitBase, EvenOf, ArmHolds
<1> QED
  BY <1>EQ, <1>NE, <1>CS, <1>CC, <1>MI, <1>PL, <1>VS, <1>VC, <1>HI, <1>LS, <1>GE, <1>LT, <1>GT, <1>LE, <1>AL, <1>NV DEF Conds

LEMMA MaterializedType ==
  ASSUME NEW src, NEW r \in Rflags
  PROVE  Materialized(src, r) \in Nzcv
BY DEF Materialized, Rflags, Nzcv

----------------------------------------------------------------------------
(* The inductive invariant.  FlagsCoherent alone is not inductive for the  *)
(* decisions: log_map reads SF where ARM reads N # V, so it matters that C *)
(* and O are clear while a logical operation's flags are pending.          *)

LogicClears ==
  ~lost /\ flags_pending /\ flag_src = "kFromLogic" => ~rflags.C /\ ~rflags.O

IInv == TypeOK /\ FlagsCoherent /\ LogicClears

LEMMA SpilledType ==
  TypeOK => Spilled \in Nzcv
BY MaterializedType DEF TypeOK, Spilled

LEMMA InitOK ==
  Init => IInv
<1> SUFFICES ASSUME Init PROVE IInv
  OBVIOUS
<1>1. rflags \in Rflags
  BY ClobbersAssumption DEF Init
<1>2. nzcv \in Nzcv
  BY DEF Init, Nzcv
<1> QED
  BY <1>1, <1>2 DEF Init, IInv, TypeOK, FlagsCoherent,
     LogicClears, Spilled, FlagSrc

\* An instruction that sets the flags of its own operation.
LEMMA MarkStep ==
  ASSUME IInv, NEW src \in FlagSrc \ {"kNone"}, NEW f \in Nzcv, NEW r \in Rflags,
         Mark(src, f, r), mem' \in Nzcv, lost' \in BOOLEAN, agree' \in BOOLEAN,
         ~lost' => f = Materialized(src, r),
         src = "kFromLogic" => ~r.C /\ ~r.O
  PROVE  IInv'
BY DEF Mark, IInv, TypeOK, FlagsCoherent, LogicClears, Spilled

\* An instruction after which the flags are in memory.
LEMMA StoredStep ==
  ASSUME IInv, mem' \in Nzcv, nzcv' \in Nzcv, rflags' \in Rflags,
         flags_pending' = FALSE, flag_src' \in FlagSrc, lost' \in BOOLEAN,
         agree' \in BOOLEAN, ~lost' => mem' = nzcv'
  PROVE  IInv'
BY DEF IInv, TypeOK, FlagsCoherent, LogicClears, Spilled

LEMMA AddFlagsMatch ==
  ASSUME NEW f \in AddFlags
  PROVE  f.arm \in Nzcv /\ f.x86 \in Rflags
         /\ f.arm = Materialized("kFromAdd", f.x86)
<1>1. PICK p \in Word \X Word :
        f = [arm |-> ArmAdd(p[1], p[2], FALSE), x86 |-> X86Add(p[1], p[2], FALSE)]
  BY DEF AddFlags
<1> QED BY <1>1, AddMatches

LEMMA SubFlagsMatch ==
  ASSUME NEW f \in SubFlags
  PROVE  f.arm \in Nzcv /\ f.x86 \in Rflags
         /\ f.arm = Materialized("kFromSub", f.x86)
<1>1. PICK p \in Word \X Word :
        f = [arm |-> ArmSub(p[1], p[2], TRUE), x86 |-> X86Sub(p[1], p[2], FALSE)]
  BY DEF SubFlags
<1>2. (~TRUE) = FALSE
  OBVIOUS
<1> QED BY <1>1, <1>2, SubMatches

LEMMA ArithStep ==
  ASSUME IInv, Arith PROVE IInv'
<1>1. mem' \in Nzcv /\ lost' = FALSE /\ agree' = TRUE
  BY DEF IInv, TypeOK, Arith
<1>2. CASE \E f \in AddFlags : Mark("kFromAdd", f.arm, f.x86)
  BY <1>1, <1>2, AddFlagsMatch, MarkStep DEF FlagSrc
<1>3. CASE \E f \in SubFlags : Mark("kFromSub", f.arm, f.x86)
  BY <1>1, <1>3, SubFlagsMatch, MarkStep DEF FlagSrc
<1> QED BY <1>2, <1>3 DEF Arith

LEMMA MisreadStep ==
  ASSUME IInv, Misread PROVE IInv'
<1>1. mem' \in Nzcv /\ lost' = TRUE /\ agree' = TRUE
  BY DEF IInv, TypeOK, Misread
<1>2. PICK a, b \in Word :
        \/ Mark("kFromSub", ArmAdd(a, b, FALSE), X86Sub(a, b, FALSE))
        \/ Mark("kFromSub", ArmSub(0, b, TRUE), X86Sub(a, b, FALSE))
        \/ Mark("kFromAdd", ArmAdd(a, Wrap(2 * b), FALSE), X86Add(a, b, FALSE))
  BY DEF Misread
<1>3. 0 \in Word /\ Wrap(2 * b) \in Word
  BY HalfAssumption DEF Word, Wrap, Size
<1>4. (~TRUE) = FALSE
  OBVIOUS
<1>5. /\ ArmAdd(a, b, FALSE) \in Nzcv /\ X86Sub(a, b, FALSE) \in Rflags
      /\ ArmSub(0, b, TRUE) \in Nzcv /\ X86Add(a, b, FALSE) \in Rflags
      /\ ArmAdd(a, Wrap(2 * b), FALSE) \in Nzcv
  BY <1>3, <1>4, AddMatches, SubMatches
<1> QED
  BY <1>1, <1>2, <1>5, MarkStep DEF FlagSrc

LEMMA LogicStep ==
  ASSUME IInv, Logic PROVE IInv'
<1>1. mem' \in Nzcv /\ lost' = FALSE /\ agree' = TRUE
  BY SpilledType DEF IInv, TypeOK, Logic
<1>2. PICK r \in Word : Mark("kFromLogic", ArmLogic(r), X86Logic(r))
  BY DEF Logic
<1>3. ~X86Logic(r).C /\ ~X86Logic(r).O
  BY DEF X86Logic
<1> QED
  BY <1>1, <1>2, <1>3, LogicMatches, MarkStep DEF FlagSrc

LEMMA CarryStep ==
  ASSUME IInv, Carry PROVE IInv' /\ (~lost => agree')
<1> DEFINE s == Spilled.C
<1>1. Spilled \in Nzcv /\ nzcv \in Nzcv /\ lost \in BOOLEAN
  BY SpilledType DEF IInv, TypeOK
<1>2. s \in BOOLEAN /\ nzcv.C \in BOOLEAN
  BY <1>1 DEF Nzcv
<1>3. ~lost => Spilled = nzcv /\ s = nzcv.C
  BY DEF IInv, FlagsCoherent
<1>4. mem' = Spilled /\ lost' = lost
  BY DEF Carry
<1>a. agree' \in BOOLEAN /\ (agree' <=> (s <=> nzcv.C))
  BY DEF Carry
<1>5. mem' \in Nzcv /\ lost' \in BOOLEAN /\ agree' \in BOOLEAN
  BY <1>1, <1>4, <1>a
<1>6. PICK a, b \in Word :
        \/ Mark("kFromAdd", ArmAdd(a, b, nzcv.C), X86Add(a, b, s))
        \/ Mark("kFromSub", ArmSub(a, b, nzcv.C), X86Sub(a, b, ~s))
        \/ /\ rflags' = X86Add(a, b, s) \/ rflags' = X86Sub(a, b, ~s)
           /\ flags_pending' = FALSE
           /\ UNCHANGED <<nzcv, flag_src>>
  BY DEF Carry
<1>7. /\ ArmAdd(a, b, nzcv.C) \in Nzcv /\ X86Add(a, b, s) \in Rflags
      /\ ArmSub(a, b, nzcv.C) \in Nzcv /\ X86Sub(a, b, ~s) \in Rflags
      /\ ArmAdd(a, b, s) = Materialized("kFromAdd", X86Add(a, b, s))
      /\ ArmSub(a, b, s) = Materialized("kFromSub", X86Sub(a, b, ~s))
  BY <1>2, AddMatches, SubMatches
<1>11. ~lost => agree'
  BY <1>3, <1>a
<1> HIDE DEF s
<1>8. CASE Mark("kFromAdd", ArmAdd(a, b, nzcv.C), X86Add(a, b, s))
  BY <1>3, <1>4, <1>5, <1>7, <1>8, <1>11, MarkStep DEF FlagSrc
<1>9. CASE Mark("kFromSub", ArmSub(a, b, nzcv.C), X86Sub(a, b, ~s))
  BY <1>3, <1>4, <1>5, <1>7, <1>9, <1>11, MarkStep DEF FlagSrc
<1>10. CASE /\ rflags' = X86Add(a, b, s) \/ rflags' = X86Sub(a, b, ~s)
            /\ flags_pending' = FALSE
            /\ UNCHANGED <<nzcv, flag_src>>
  BY <1>1, <1>3, <1>4, <1>5, <1>7, <1>10, <1>11, StoredStep DEF IInv, TypeOK
<1> QED BY <1>6, <1>8, <1>9, <1>10

LEMMA ClobberStep ==
  ASSUME IInv, Clobber PROVE IInv'
BY SpilledType, ClobbersAssumption, StoredStep
   DEF Clobber, IInv, TypeOK, FlagsCoherent

LEMMA ExitStep ==
  ASSUME IInv, Exit PROVE IInv'
<1>1. flag_src' \in FlagSrc
  BY DEF Exit, IInv, TypeOK, FlagSrc
<1> QED
  BY <1>1, SpilledType, ClobbersAssumption, StoredStep
     DEF Exit, IInv, TypeOK, FlagsCoherent

LEMMA PlainAddSubStep ==
  ASSUME IInv, PlainAddSub PROVE IInv'
<1>1. PICK a, b \in Word : rflags' \in {X86Add(a, b, FALSE), X86Sub(a, b, FALSE)}
  BY DEF PlainAddSub
<1>2. (~TRUE) = FALSE
  OBVIOUS
<1>3. rflags' \in Rflags
  BY <1>1, <1>2, AddMatches, SubMatches
<1> QED
  BY <1>3 DEF PlainAddSub, IInv, TypeOK, FlagsCoherent,
     LogicClears, Spilled

LEMMA TestBitStep ==
  ASSUME IInv, TestBit PROVE IInv'
<1>1. mem' \in Nzcv /\ rflags' \in Rflags /\ flag_src' \in FlagSrc
  BY MaterializedType DEF TestBit, IInv, TypeOK, FlagSrc
<1>2. lost' \in BOOLEAN /\ agree' \in BOOLEAN /\ flags_pending' = FALSE
      /\ nzcv' = nzcv
  BY DEF TestBit, IInv, TypeOK
<1>3. ~lost' => ~lost /\ ~flags_pending
  BY DEF TestBit
<1>4. ~flags_pending => mem' = mem
  BY DEF TestBit
<1>5. ~lost' => mem' = nzcv'
  BY <1>2, <1>3, <1>4 DEF IInv, FlagsCoherent, Spilled
<1> QED
  BY <1>1, <1>2, <1>5, StoredStep DEF IInv, TypeOK

----------------------------------------------------------------------------
(* The three consumers.                                                    *)

\* What every decision rests on.
LEMMA DecisionRight ==
  ASSUME IInv, ~lost, NEW c \in Conds
  PROVE  /\ Decision(c) <=> ArmHolds(c, nzcv)
         /\ Taken(c) <=> ArmHolds(c, nzcv)
<1>1. CASE Fused(c)
  <2>1. /\ c \in Conds \ {"AL", "NV"} /\ flag_src \in FlagSrc \ {"kNone"}
        /\ rflags \in Rflags /\ MapOf(flag_src)[c] # "none"
        /\ flag_src = "kFromLogic" => ~rflags.C /\ ~rflags.O
    BY <1>1 DEF Fused, IInv, TypeOK, LogicClears
  <2>2. nzcv = Materialized(flag_src, rflags)
    BY <1>1 DEF Fused, IInv, FlagsCoherent, Spilled
  <2>3. /\ X86Holds(MapOf(flag_src)[c], rflags) <=> ArmHolds(c, nzcv)
        /\ MapOf(flag_src)[c] \in CondCodes
    BY <2>1, <2>2, FusedMeans
  <2>4. X86Holds(InvCC[MapOf(flag_src)[c]], rflags)
        <=> ~X86Holds(MapOf(flag_src)[c], rflags)
    BY <2>1, <2>3, InvMeans
  <2> QED BY <1>1, <2>3, <2>4 DEF Decision, Taken
<1>2. CASE ~Fused(c)
  <2>1. Spilled = nzcv /\ nzcv \in Nzcv
    BY DEF IInv, TypeOK, FlagsCoherent
  <2> QED BY <1>2, <2>1, EmitMeans DEF Decision, Taken
<1> QED BY <1>1, <1>2

\* Afterwards nothing is pending, and what is not lost is in memory.
LEMMA ConsumedLeaves ==
  ASSUME IInv, NEW c, Consumed(c)
  PROVE  /\ mem' \in Nzcv /\ flags_pending' = FALSE /\ lost' \in BOOLEAN
         /\ ~lost' => mem' = nzcv
BY SpilledType DEF Consumed, IInv, TypeOK, FlagsCoherent

LEMMA SelectStep ==
  ASSUME IInv, NEW c \in Conds, Select(c) PROVE IInv' /\ (~lost => agree')
<1>1. agree' \in BOOLEAN /\ (agree' <=> (Decision(c) <=> ArmHolds(c, nzcv)))
  BY DEF Select
<1>2. /\ Consumed(c) /\ rflags' \in Rflags
      /\ nzcv' = nzcv /\ flag_src' = flag_src
  BY ClobbersAssumption DEF Select
<1>3. IInv'
  BY <1>1, <1>2, ConsumedLeaves, StoredStep DEF IInv, TypeOK
<1> QED BY <1>1, <1>3, DecisionRight

LEMMA BranchStep ==
  ASSUME IInv, NEW c \in Conds, Branch(c) PROVE IInv' /\ (~lost => agree')
<1>1. agree' \in BOOLEAN /\ (agree' <=> (Taken(c) <=> ArmHolds(c, nzcv)))
  BY DEF Branch
<1>2. Consumed(c) /\ rflags' \in Rflags /\ nzcv' = nzcv /\ flag_src' \in FlagSrc
  BY ClobbersAssumption DEF Branch, IInv, TypeOK, FlagSrc
<1>3. IInv'
  BY <1>1, <1>2, ConsumedLeaves, StoredStep DEF IInv, TypeOK
<1> QED BY <1>1, <1>3, DecisionRight

LEMMA CompareStep ==
  ASSUME IInv, NEW c \in Conds, Compare(c) PROVE IInv' /\ (~lost => agree')
<1>1. agree' \in BOOLEAN /\ (agree' <=> (Decision(c) <=> ArmHolds(c, nzcv)))
  BY DEF Compare
<1>2. /\ flags_pending' = FALSE /\ rflags' \in Rflags
      /\ flag_src' = flag_src /\ lost' = lost
  BY ClobbersAssumption DEF Compare
<1>3. PICK imm \in CcmpImms, src \in {"kFromSub", "kFromAdd"},
           f \in SubFlags \cup AddFlags :
        /\ f.arm \in Nzcv /\ f.x86 \in Rflags
        /\ f.arm = Materialized(src, f.x86)
        /\ mem' = IF Decision(c) THEN Materialized(src, f.x86) ELSE imm
        /\ nzcv' = IF ArmHolds(c, nzcv) THEN f.arm ELSE imm
  BY AddFlagsMatch, SubFlagsMatch DEF Compare
<1>4. imm \in Nzcv /\ mem' \in Nzcv /\ nzcv' \in Nzcv
  BY <1>3, ClobbersAssumption
<1>5. ~lost => mem' = nzcv'
  BY <1>3, DecisionRight
<1>6. IInv'
  BY <1>1, <1>2, <1>4, <1>5, StoredStep DEF IInv, TypeOK
<1> QED BY <1>1, <1>6, DecisionRight

----------------------------------------------------------------------------

LEMMA NextOK ==
  ASSUME IInv, [Next]_vars
  PROVE  IInv' /\ [~lost => agree']_vars
<1>1. CASE Arith
  BY <1>1, ArithStep DEF Arith
<1>2. CASE Misread
  BY <1>2, MisreadStep DEF Misread
<1>3. CASE Logic
  BY <1>3, LogicStep DEF Logic
<1>4. CASE Carry
  BY <1>4, CarryStep
<1>5. CASE Clobber
  BY <1>5, ClobberStep DEF Clobber
<1>6. CASE PlainAddSub
  BY <1>6, PlainAddSubStep DEF PlainAddSub
<1>7. CASE TestBit
  BY <1>7, TestBitStep DEF TestBit
<1>8. CASE Exit
  BY <1>8, ExitStep DEF Exit
<1>9. ASSUME NEW c \in Conds, Select(c) \/ Branch(c) \/ Compare(c)
      PROVE  IInv' /\ [~lost => agree']_vars
  BY <1>9, SelectStep, BranchStep, CompareStep
<1>10. CASE UNCHANGED vars
  BY <1>10 DEF vars, IInv, TypeOK, FlagsCoherent,
     LogicClears, Spilled
<1> QED
  BY <1>1, <1>2, <1>3, <1>4, <1>5, <1>6, <1>7, <1>8, <1>9, <1>10 DEF Next

LEMMA Invariance ==
  Spec => []IInv
<1>1. IInv /\ [Next]_vars => IInv'
  BY NextOK
<1> QED BY <1>1, InitOK, PTL DEF Spec

\* The translator's notes and the flag registers are always what their types
\* say (BlockBuilder's flags_pending, flag_src; GuestCpu's fN..fV).
THEOREM TypeCorrect ==
  Spec => []TypeOK
<1>1. IInv => TypeOK
  BY DEF IInv
<1> QED BY <1>1, Invariance, PTL

\* For words of any width: as long as no instruction lost them, the guest's
\* flags are where the translator believes them to be, RFLAGS in the form of
\* the instruction that set them or the context's bytes.
THEOREM FlagsAreCoherent ==
  Spec => []FlagsCoherent
<1>1. IInv => FlagsCoherent
  BY DEF IInv
<1> QED BY <1>1, Invariance, PTL

\* For words of any width and every condition: a branch, select, compare or
\* carry that reads flags nobody lost decides as the guest's flags do.
THEOREM DecisionsAreRight ==
  Spec => DecisionsAgree
<1>1. IInv /\ [Next]_vars => [~lost => agree']_vars
  BY NextOK
<1> QED BY <1>1, Invariance, PTL DEF Spec, DecisionsAgree
=============================================================================
