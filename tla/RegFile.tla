------------------------------- MODULE RegFile -------------------------------
(***************************************************************************)
(* Where the translated code keeps the guest's registers.  A register has  *)
(* one home: a host register for the pinned ones (x0, x8, x29, x30, sp),   *)
(* the context for the others.  Instructions take different paths through  *)
(* the translator according to where their operands live and to which of   *)
(* them coincide, and a series of accesses to one base keeps it in rsi.    *)
(*                                                                         *)
(* Beside the translated code runs the guest of the ARM manual.  One guest *)
(* instruction is one step of both, and alike records whether both show    *)
(* the same outside the registers: the addresses they access, the data     *)
(* they store, the operands they compare.                                  *)
(***************************************************************************)
EXTENDS Integers

CONSTANTS
  Size,      \* X registers hold 0 .. Size - 1
  Half,      \* W registers hold 0 .. Half - 1
  Regs,      \* the numbers of the registers in use, 31 apart
  Pinned,    \* those that pin_of maps to a host register
  Imms,      \* immediate operands
  Offsets,   \* offsets of accesses; negative ones are taken modulo Size
  Fns,       \* what data processing computes from two operands
  Shifts,    \* what do_shift does to an operand, no shift included
  Exts,      \* zero and sign extensions of operands and loaded values
  Forms      \* the forms of add and sub the guest program uses

ASSUME WordAssumption == Size \in Nat \ {0} /\ Half \in 1 .. Size

Word == 0 .. (Size - 1)
NoShift == [w \in Word |-> w]

ASSUME RegsAssumption == Regs \subseteq 0 .. 30 /\ Pinned \subseteq Regs

ASSUME DataAssumption ==
  /\ Imms \subseteq 0 .. (Half - 1) /\ Offsets \subseteq Word
  /\ Fns \subseteq [Word \X Word -> Word]
  /\ Shifts \subseteq [Word -> Word] /\ NoShift \in Shifts
  /\ Exts \subseteq [Word -> Word]

VARIABLES
  home,         \* the value in each register's home; 31 is the pin of sp
  rsi,          \* the host register that holds base addresses
  base_cached,  \* translator: the register whose value rsi holds, or -1
  guest,        \* the registers of the architecture; 31 is sp
  alike         \* the last step showed the same in both

vars == <<home, rsi, base_cached, guest, alike>>

Names == Regs \cup {31}

\* The cut of a value to the width of the instruction.
Cut(sf, v) == IF sf THEN v ELSE v % Half

\* Slip: addresses are summed beyond the width of a register.
PlusUnbounded(a, b) == a + b
Plus(a, b) == (a + b) % Size

AddSub(sub, sf, a, b) ==
  LET v == IF sub THEN a - b ELSE a + b
  IN IF sf THEN v % Size ELSE v % Half

\* Register 31 as the zero register and as sp.
Z(f, r, sf)     == IF r = 31 THEN 0 ELSE Cut(sf, f[r])
SP(f, r, sf)    == Cut(sf, f[r])
SetZ(f, r, v)   == [f EXCEPT ![r] = IF r = 31 THEN f[r] ELSE v]
SetSP(f, r, v)  == [f EXCEPT ![r] = v]

\* ld_r, ld_rsp: the pin or the context, cut to the width.
ld_r(r, sf)   == Z(home, r, sf)
ld_rsp(r, sf) == SP(home, r, sf)

\* Slip: a W result is stored to the context as a dword.
StoreDword(f, r, v, sf) ==
  SetZ(f, r, IF sf \/ r \in Pinned THEN v ELSE v + (f[r] - (f[r] % Half)))
\* st_r: a W result goes to a pin by a 32-bit mov and to the context whole.
st_r(f, r, v, sf) == SetZ(f, r, IF r \in Pinned THEN Cut(sf, v) ELSE v)

\* base_invalidate; st_r(31, ..) does not reach it.
InvalidatedBy(b, r) == IF b = r THEN -1 ELSE b
Stored(b, r)        == IF r = 31 THEN b ELSE InvalidatedBy(b, r)

Init ==
  /\ guest \in [Names -> {0}] /\ home = guest
  /\ rsi \in Word /\ base_cached = -1
  /\ alike = TRUE

\* Another block: its builder starts with nothing cached.
NextBlock ==
  /\ base_cached' = -1
  /\ rsi' \in Word
  /\ alike' = TRUE
  /\ UNCHANGED <<home, guest>>

----------------------------------------------------------------------------
(* Data processing.                                                        *)

\* What add and sub have in common: the kind, the width, the destination,
\* the first operand.
Heads == [sub : BOOLEAN, sf : BOOLEAN, setf : BOOLEAN, rd : Names, rn : Names]

\* (rn == 31) ? PIN_SP : pin_of(rn) is a host register.
Held(r) == r = 31 \/ r \in Pinned

\* The result of the architecture and where it goes: with S, and in the
\* shifted form, 31 is the zero register.
ArmImm(i, imm) ==
  LET v == AddSub(i.sub, i.sf, SP(guest, i.rn, i.sf), imm)
  IN IF i.setf THEN SetZ(guest, i.rd, v) ELSE SetSP(guest, i.rd, v)

\* What a step shows outside the registers.
Silent     == alike' = TRUE
Shows(h, g) == alike' = (h = g)

\* Logical and shift operations on registers, bit fields put into rd, extr,
\* csel, adc, multiplications, divisions, bit counts and reversals: operands
\* by ld_r, the result by st_r.  Widening multiplications read W and write X.
Compute ==
  /\ \E fn \in Fns, from, sf \in BOOLEAN, rd, rn, rm \in Names :
       LET v == Cut(sf, fn[<<ld_r(rn, from), ld_r(rm, from)>>])
           w == Cut(sf, fn[<<Z(guest, rn, from), Z(guest, rm, from)>>])
       IN /\ home' = st_r(home, rd, v, sf)
          /\ base_cached' = Stored(base_cached, rd)
          /\ guest' = SetZ(guest, rd, w)
  /\ Silent
  /\ UNCHANGED rsi

\* The same with an immediate for the second operand: adr, movz, movn, movk,
\* ubfm, sbfm, logical operations.  Of these, and, orr and eor may write sp.
ComputeImm ==
  /\ \E fn \in Fns, sf \in BOOLEAN, rd, rn \in Names, imm \in Imms :
       LET v == Cut(sf, fn[<<ld_r(rn, sf), imm>>])
           w == Cut(sf, fn[<<Z(guest, rn, sf), imm>>])
       IN \/ /\ home' = st_r(home, rd, v, sf)
             /\ base_cached' = Stored(base_cached, rd)
             /\ guest' = SetZ(guest, rd, w)
          \/ /\ rd = 31
             /\ home' = SetSP(home, 31, v)
             /\ base_cached' = InvalidatedBy(base_cached, 31)
             /\ guest' = SetSP(guest, 31, w)
  /\ Silent
  /\ UNCHANGED rsi

\* The paths of add and sub (immediate), in the order they are tried.
ImmInPlace(i) == i.rd = i.rn /\ (Held(i.rn) \/ i.sf)
ImmCompare(i) == ~ImmInPlace(i) /\ i.setf /\ i.rd = 31 /\ (Held(i.rn) \/ i.sf)
ImmLea(i)     == ~i.sub /\ ~i.setf /\ i.rd # i.rn /\ Held(i.rd) /\ Held(i.rn)
ImmGeneral(i) == ~ImmInPlace(i) /\ ~ImmCompare(i) /\ ~ImmLea(i)

\* Slip: the note about rsi survives an addition in place.
AddImmInPlaceNoted(i, imm) ==
  /\ ImmInPlace(i)
  /\ i.setf /\ i.rd = 31 => "cmpsp" \in Forms
  /\ home' = SetSP(home, i.rn, AddSub(i.sub, i.sf, ld_rsp(i.rn, i.sf), imm))
  /\ guest' = ArmImm(i, imm)
  /\ Silent
  /\ UNCHANGED <<rsi, base_cached>>

\* Rd == Rn: the pin or the context itself is added to; cmp of sp too.
AddImmInPlace(i, imm) ==
  /\ ImmInPlace(i)
  /\ i.setf /\ i.rd = 31 => "cmpsp" \in Forms
  /\ home' = SetSP(home, i.rn, AddSub(i.sub, i.sf, ld_rsp(i.rn, i.sf), imm))
  /\ base_cached' = InvalidatedBy(base_cached, i.rn)
  /\ guest' = ArmImm(i, imm)
  /\ Silent
  /\ UNCHANGED rsi

\* cmp: against the pin or the context.
CompareImm(i, imm) ==
  /\ ImmCompare(i)
  /\ Shows(ld_rsp(i.rn, i.sf), SP(guest, i.rn, i.sf))
  /\ guest' = ArmImm(i, imm)
  /\ UNCHANGED <<home, rsi, base_cached>>

\* add between host registers: one 64-bit lea, whatever the width.
AddImmLea(i, imm) ==
  /\ ImmLea(i)
  /\ ~i.sf => "wlea" \in Forms
  /\ home' = SetSP(home, i.rd, Plus(home[i.rn], imm))
  /\ base_cached' = InvalidatedBy(base_cached, i.rd)
  /\ guest' = ArmImm(i, imm)
  /\ Silent
  /\ UNCHANGED rsi

\* Everything else passes through rax.
AddImmGeneral(i, imm) ==
  /\ ImmGeneral(i)
  /\ LET v == AddSub(i.sub, i.sf, ld_rsp(i.rn, i.sf), imm)
     IN IF i.setf \/ i.rd # 31
        THEN /\ home' = st_r(home, i.rd, v, i.sf)
             /\ base_cached' = Stored(base_cached, i.rd)
        ELSE /\ home' = SetSP(home, 31, v)
             /\ base_cached' = InvalidatedBy(base_cached, 31)
  /\ guest' = ArmImm(i, imm)
  /\ Silent
  /\ UNCHANGED rsi

AddImm ==
  \E i \in Heads, imm \in Imms :
    \/ AddImmInPlace(i, imm) \/ CompareImm(i, imm)
    \/ AddImmLea(i, imm)     \/ AddImmGeneral(i, imm)

\* The second operand of the shifted form, in rcx and in the architecture.
Rcx(i, rm, sh)    == Cut(i.sf, sh[ld_r(rm, i.sf)])
ArmRm(i, rm, sh)  == Cut(i.sf, sh[Z(guest, rm, i.sf)])
ArmReg(i, rm, sh) ==
  SetZ(guest, i.rd, AddSub(i.sub, i.sf, Z(guest, i.rn, i.sf), ArmRm(i, rm, sh)))

RegCompare(i)     == i.sf /\ i.setf /\ i.rd = 31
RegInPlace(i)     == i.sf /\ ~RegCompare(i) /\ i.rd = i.rn
RegCommuted(i, rm) ==
  i.sf /\ ~RegCompare(i) /\ i.rd # i.rn /\ i.rd = rm /\ ~i.sub
RegGeneral(i, rm) == ~RegCompare(i) /\ ~RegInPlace(i) /\ ~RegCommuted(i, rm)

\* cmp: the first operand is read from its home, where 31 is sp.
CompareReg(i, rm, sh) ==
  /\ RegCompare(i)
  /\ i.rn = 31 => "zrsp" \in Forms
  /\ Shows(<<home[i.rn], Rcx(i, rm, sh)>>,
           <<Z(guest, i.rn, TRUE), ArmRm(i, rm, sh)>>)
  /\ guest' = ArmReg(i, rm, sh)
  /\ UNCHANGED <<home, rsi, base_cached>>

\* Rd == Rn: the home itself, where 31 is sp.
AddRegInPlace(i, rm, sh) ==
  /\ RegInPlace(i)
  /\ i.rd = 31 => "zrsp" \in Forms
  /\ home' = SetSP(home, i.rn, AddSub(i.sub, TRUE, home[i.rn], Rcx(i, rm, sh)))
  /\ base_cached' = InvalidatedBy(base_cached, i.rn)
  /\ guest' = ArmReg(i, rm, sh)
  /\ Silent
  /\ UNCHANGED rsi

\* Rd == Rm of an addition: Rn is added to the home; the shift is not made.
AddRegCommuted(i, rm, sh) ==
  /\ RegCommuted(i, rm)
  /\ i.rd = 31 => "zrsp" \in Forms
  /\ sh # NoShift => "shiftrm" \in Forms
  /\ home' = SetSP(home, i.rd, Plus(home[i.rd], ld_r(i.rn, TRUE)))
  /\ base_cached' = InvalidatedBy(base_cached, i.rd)
  /\ guest' = ArmReg(i, rm, sh)
  /\ Silent
  /\ UNCHANGED rsi

AddRegGeneral(i, rm, sh) ==
  /\ RegGeneral(i, rm)
  /\ home' = st_r(home, i.rd,
                  AddSub(i.sub, i.sf, ld_r(i.rn, i.sf), Rcx(i, rm, sh)), i.sf)
  /\ base_cached' = Stored(base_cached, i.rd)
  /\ guest' = ArmReg(i, rm, sh)
  /\ Silent
  /\ UNCHANGED rsi

AddReg ==
  \E i \in Heads, rm \in Names, sh \in Shifts :
    \/ CompareReg(i, rm, sh)    \/ AddRegInPlace(i, rm, sh)
    \/ AddRegCommuted(i, rm, sh) \/ AddRegGeneral(i, rm, sh)

\* add, sub (extended register): 31 is sp for Rn, and for Rd without S.
AddExt ==
  /\ \E i \in Heads, rm \in Names, e \in Exts :
       LET v == AddSub(i.sub, i.sf, ld_rsp(i.rn, i.sf),
                       Cut(i.sf, e[ld_r(rm, TRUE)]))
       IN /\ IF i.setf \/ i.rd # 31
             THEN /\ home' = st_r(home, i.rd, v, i.sf)
                  /\ base_cached' = Stored(base_cached, i.rd)
             ELSE /\ home' = SetSP(home, 31, v)
                  /\ base_cached' = InvalidatedBy(base_cached, 31)
          /\ guest' = ArmImm(i, Cut(i.sf, e[Z(guest, rm, TRUE)]))
  /\ Silent
  /\ UNCHANGED rsi

----------------------------------------------------------------------------
(* Loads and stores.                                                       *)

Modes == {"offset", "pre", "post"}

\* base_load: rsi after it.
Base(rn) == IF base_cached = rn THEN rsi ELSE home[rn]

\* Slip: a post-indexed access uses the address after the update.
DispAlways(mode, off) == off
\* The displacement of the access itself.
Disp(mode, off) == IF mode = "post" THEN 0 ELSE off
ArmDisp(mode, off) == IF mode = "post" THEN 0 ELSE off

\* The write-back of rsi into the base register, and of the base register.
WriteBack(f, rn, mode, a) == IF mode = "offset" THEN f ELSE SetSP(f, rn, a)

\* An access through rn that leaves f in the homes, g in the guest's
\* registers and the note b about rsi, before it writes back.
Accessed(f, g, b, rn, mode, off) ==
  LET new == Plus(Base(rn), off)
  IN /\ home' = WriteBack(f, rn, mode, new)
     /\ guest' = WriteBack(g, rn, mode, Plus(guest[rn], off))
     /\ rsi' = IF mode = "offset" THEN Base(rn) ELSE new
     /\ base_cached' = IF mode = "offset" THEN b ELSE -1

\* A transfer register may be the base unless the base is written back; 31
\* is the zero register as the one and sp as the other.
Distinct(r, rn, mode) == mode = "offset" \/ r # rn \/ r = 31

\* ldr, ldur: v is what memory holds, e how it is extended.
Load(rn, mode, off) ==
  \E rt \in Names, e \in Exts, v \in Word :
    /\ Distinct(rt, rn, mode)
    /\ Accessed(SetZ(home, rt, e[v]), SetZ(guest, rt, e[v]),
                Stored(rn, rt), rn, mode, off)
    /\ Shows(Plus(Base(rn), Disp(mode, off)),
             Plus(guest[rn], ArmDisp(mode, off)))

\* str, stur
Store(rn, mode, off) ==
  \E rt \in Names, sf \in BOOLEAN :
    /\ Distinct(rt, rn, mode)
    /\ Accessed(home, guest, rn, rn, mode, off)
    /\ Shows(<<Plus(Base(rn), Disp(mode, off)), ld_r(rt, sf)>>,
             <<Plus(guest[rn], ArmDisp(mode, off)), Z(guest, rt, sf)>>)

\* Register offset: the index is read after the base is in rsi.
LoadIndexed ==
  \E rt, rn, rm \in Names, x, e \in Exts, v \in Word :
    /\ Accessed(SetZ(home, rt, e[v]), SetZ(guest, rt, e[v]),
                Stored(rn, rt), rn, "offset", 0)
    /\ Shows(Plus(Base(rn), x[ld_r(rm, TRUE)]),
             Plus(guest[rn], x[Z(guest, rm, TRUE)]))

StoreIndexed ==
  \E rt, rn, rm \in Names, x \in Exts, sf \in BOOLEAN :
    /\ Accessed(home, guest, rn, rn, "offset", 0)
    /\ Shows(<<Plus(Base(rn), x[ld_r(rm, TRUE)]), ld_r(rt, sf)>>,
             <<Plus(guest[rn], x[Z(guest, rm, TRUE)]), Z(guest, rt, sf)>>)

\* ldp, ldpsw: the first value may land in the base register; the second
\* address still comes from rsi.
LoadPair(rn, mode, off) ==
  \E r1, r2 \in Names, scale \in Offsets, e \in Exts, v1, v2 \in Word :
    /\ r1 # r2 \/ r1 = 31
    /\ Distinct(r1, rn, mode) /\ Distinct(r2, rn, mode)
    /\ Accessed(SetZ(SetZ(home, r1, e[v1]), r2, e[v2]),
                SetZ(SetZ(guest, r1, e[v1]), r2, e[v2]),
                Stored(Stored(rn, r1), r2), rn, mode, off)
    /\ LET a == Plus(Base(rn), Disp(mode, off))
           g == Plus(guest[rn], ArmDisp(mode, off))
       IN Shows(<<a, Plus(a, scale)>>, <<g, Plus(g, scale)>>)

\* stp
StorePair(rn, mode, off) ==
  \E r1, r2 \in Names, scale \in Offsets, sf \in BOOLEAN :
    /\ Distinct(r1, rn, mode) /\ Distinct(r2, rn, mode)
    /\ Accessed(home, guest, rn, rn, mode, off)
    /\ LET a == Plus(Base(rn), Disp(mode, off))
           g == Plus(guest[rn], ArmDisp(mode, off))
       IN Shows(<<a, Plus(a, scale), ld_r(r1, sf), ld_r(r2, sf)>>,
                <<g, Plus(g, scale), Z(guest, r1, sf), Z(guest, r2, sf)>>)

\* ldr (literal): rsi becomes the address.
LoadLiteral ==
  \E rt \in Names, a \in Word, e \in Exts, v \in Word :
    /\ rsi' = a /\ base_cached' = -1
    /\ home' = SetZ(home, rt, e[v]) /\ guest' = SetZ(guest, rt, e[v])
    /\ Silent

Next ==
  \/ NextBlock \/ Compute \/ ComputeImm \/ AddImm \/ AddReg \/ AddExt
  \/ LoadIndexed \/ StoreIndexed \/ LoadLiteral
  \/ \E rn \in Names, mode \in Modes, off \in Offsets :
       \/ Load(rn, mode, off)     \/ Store(rn, mode, off)
       \/ LoadPair(rn, mode, off) \/ StorePair(rn, mode, off)

Spec == Init /\ [][Next]_vars

----------------------------------------------------------------------------
(* Properties.                                                             *)

TypeOK ==
  /\ home \in [Names -> Word] /\ guest \in [Names -> Word]
  /\ rsi \in Word
  /\ base_cached \in Names \cup {-1}
  /\ alike \in BOOLEAN

\* Every guest register has, in its home, the value the architecture gives
\* it, whatever path the translator chose for the instructions before.
RegsCoherent == home = guest

\* While the translator notes a base register, rsi holds the value that
\* register has now, not the one it had when rsi was loaded (base_load,
\* base_invalidate).
BaseCoherent == base_cached # -1 => rsi = guest[base_cached]

\* Accesses go to the guest's addresses with the guest's data, and compares
\* see the guest's operands.
ShownAlike == alike
=============================================================================
