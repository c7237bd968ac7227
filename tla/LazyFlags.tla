------------------------------ MODULE LazyFlags ------------------------------
(***************************************************************************)
(* Lazy condition flags: after an S-instruction the guest's NZCV live in   *)
(* RFLAGS, and BlockBuilder decides at translation time which consumer     *)
(* reads them there (take_fused_cond) and when they must be stored in      *)
(* fN..fV first (dirty_flags).  One guest instruction is one step: what    *)
(* the translator notes about it, and what the code it emits does.         *)
(*                                                                         *)
(* Beside the translated code runs the guest of the ARM manual (nzcv).  A  *)
(* step that makes a decision of the flags records whether both decide     *)
(* alike (agree).  The history variable lost says that the guest's flags   *)
(* are nowhere: consumed or overwritten in RFLAGS without being stored, or *)
(* computed from operands that are not the instruction's.                  *)
(***************************************************************************)
EXTENDS Flags

CONSTANTS
  Kinds,      \* the kinds of instruction the guest program uses
  Clobbers,   \* what RFLAGS can hold after an x86 operation on other data
  CcmpImms    \* the nzcv immediates of its ccmp instructions

ASSUME ClobbersAssumption == Clobbers \subseteq Rflags /\ CcmpImms \subseteq Nzcv

VARIABLES
  nzcv,           \* the guest's flags, as the architecture defines them
  flags_pending,  \* translator: NZCV are in RFLAGS, the memory copy is stale
  flag_src,       \* translator: what produced them
  rflags,         \* the host's RFLAGS
  mem,            \* fN, fZ, fC, fV of the context
  lost,           \* the guest's flags are nowhere
  agree           \* the last decision was the guest's

vars == <<nzcv, flags_pending, flag_src, rflags, mem, lost, agree>>

FlagSrc == {"kNone", "kFromAdd", "kFromSub", "kFromLogic"}

\* flags_sub, flags_add, flags_logic: ARM's C is the inverse of the borrow.
Materialized(src, r) ==
  [N |-> r.S, Z |-> r.Z,
   C |-> IF src = "kFromSub" THEN ~r.C ELSE src = "kFromAdd" /\ r.C,
   V |-> src # "kFromLogic" /\ r.O]

\* The memory copy after dirty_flags.
Spilled == IF flags_pending THEN Materialized(flag_src, rflags) ELSE mem

\* sub_map, add_map, log_map
SubMap == [EQ |-> "E", NE |-> "NE", CS |-> "NC", CC |-> "C", MI |-> "S",
           PL |-> "NS", VS |-> "O", VC |-> "NO", HI |-> "A", LS |-> "BE",
           GE |-> "GE", LT |-> "L", GT |-> "G", LE |-> "LE"]
\* Slip: the unsigned orderings of a subtraction kept for an addition.
AddMapUnsigned == [SubMap EXCEPT !["CS"] = "C", !["CC"] = "NC"]
AddMap == [SubMap EXCEPT !["CS"] = "C", !["CC"] = "NC",
                         !["HI"] = "none", !["LS"] = "none"]
LogMap == [SubMap EXCEPT !["CS"] = "none", !["CC"] = "none", !["VS"] = "none",
                         !["VC"] = "none", !["HI"] = "none", !["LS"] = "none",
                         !["GE"] = "NS", !["LT"] = "S"]

MapOf(src) == IF src = "kFromAdd" THEN AddMap
              ELSE IF src = "kFromSub" THEN SubMap ELSE LogMap

\* inv_cc
InvCC == [O |-> "NO", NO |-> "O", C |-> "NC", NC |-> "C", E |-> "NE",
          NE |-> "E", BE |-> "A", A |-> "BE", S |-> "NS", NS |-> "S",
          L |-> "GE", GE |-> "L", LE |-> "G", G |-> "LE"]

\* take_fused_cond succeeds.
Fused(c) == /\ flags_pending
            /\ c \notin {"AL", "NV"}
            /\ MapOf(flag_src)[c] # "none"

\* emit_cond: the condition with the even number, inverted for the odd one
\* next to it, except NV.
EvenOf == [EQ |-> "EQ", NE |-> "EQ", CS |-> "CS", CC |-> "CS", MI |-> "MI",
           PL |-> "MI", VS |-> "VS", VC |-> "VS", HI |-> "HI", LS |-> "HI",
           GE |-> "GE", LT |-> "GE", GT |-> "GT", LE |-> "GT", AL |-> "AL",
           NV |-> "AL"]
EmitBase(c, f) ==
  [EQ |-> f.Z, CS |-> f.C, MI |-> f.N, VS |-> f.V, HI |-> f.C /\ ~f.Z,
   GE |-> ~(f.N # f.V), GT |-> ~(f.N # f.V) /\ ~f.Z, AL |-> TRUE][c]
EmitCond(c, f) ==
  LET invert == EvenOf[c] # c /\ c # "NV"
  IN EmitBase(EvenOf[c], f) # invert

\* What setcc or the evaluation from memory puts into r8b.
Decision(c) == IF Fused(c) THEN X86Holds(MapOf(flag_src)[c], rflags)
               ELSE EmitCond(c, Spilled)

Init ==
  /\ nzcv = [N |-> FALSE, Z |-> FALSE, C |-> FALSE, V |-> FALSE]
  /\ mem = nzcv
  /\ rflags \in Clobbers
  /\ flags_pending = FALSE /\ flag_src = "kNone"
  /\ lost = FALSE /\ agree = TRUE

----------------------------------------------------------------------------
(* Instructions that set the flags.                                        *)

\* Slip: what set the flags is not noted.
MarkUnsourced(src, f, r) ==
  /\ nzcv' = f /\ rflags' = r
  /\ flags_pending' = TRUE
  /\ UNCHANGED flag_src

\* mark_flags, after an operation that leaves r in RFLAGS and f in NZCV.
Mark(src, f, r) ==
  /\ nzcv' = f /\ rflags' = r
  /\ flag_src' = src /\ flags_pending' = TRUE

\* adds, subs, cmp: what was pending is dropped (begin_flag_def).
Arith ==
  /\ "arith" \in Kinds
  /\ \/ \E f \in AddFlags : Mark("kFromAdd", f.arm, f.x86)
     \/ \E f \in SubFlags : Mark("kFromSub", f.arm, f.x86)
  /\ lost' = FALSE /\ agree' = TRUE
  /\ UNCHANGED mem

\* S-instructions whose operands the translator takes for others: cmn of an
\* X register is emitted as cmp; cmp of xzr compares sp; adds rd, rn, rd with
\* a shift (here by one) adds the unshifted register.
Misread ==
  /\ \E a, b \in Word :
       \/ /\ "cmn" \in Kinds
          /\ Mark("kFromSub", ArmAdd(a, b, FALSE), X86Sub(a, b, FALSE))
       \/ /\ "cmpxzr" \in Kinds
          /\ Mark("kFromSub", ArmSub(0, b, TRUE), X86Sub(a, b, FALSE))
       \/ /\ "addshift" \in Kinds
          /\ Mark("kFromAdd", ArmAdd(a, Wrap(2 * b), FALSE), X86Add(a, b, FALSE))
  /\ lost' = TRUE /\ agree' = TRUE
  /\ UNCHANGED mem

\* ands, bics, tst: a zero register or a shift among the operands stores what
\* was pending first, otherwise it is dropped.
Logic ==
  /\ "logic" \in Kinds
  /\ \E r \in Word : Mark("kFromLogic", ArmLogic(r), X86Logic(r))
  /\ mem' \in {mem, Spilled}
  /\ lost' = FALSE /\ agree' = TRUE

\* adc(s), sbc(s): dirty_flags, and the carry comes from memory.
Carry ==
  /\ "carry" \in Kinds
  /\ mem' = Spilled
  /\ agree' = (Spilled.C <=> nzcv.C)
  /\ \E a, b \in Word :
       \/ Mark("kFromAdd", ArmAdd(a, b, nzcv.C), X86Add(a, b, Spilled.C))
       \/ Mark("kFromSub", ArmSub(a, b, nzcv.C), X86Sub(a, b, ~Spilled.C))
       \/ /\ \/ rflags' = X86Add(a, b, Spilled.C)
             \/ rflags' = X86Sub(a, b, ~Spilled.C)
          /\ flags_pending' = FALSE
          /\ UNCHANGED <<nzcv, flag_src>>
  /\ UNCHANGED lost

----------------------------------------------------------------------------
(* Instructions that leave the flags alone.                                *)

\* Slip: RFLAGS are given up without dirty_flags.
ClobberUnspilled ==
  /\ "clobber" \in Kinds
  /\ flags_pending' = FALSE
  /\ rflags' \in Clobbers
  /\ agree' = TRUE
  /\ UNCHANGED <<nzcv, mem, flag_src, lost>>

\* Everything that calls dirty_flags before it disturbs RFLAGS: logical and
\* shift operations, multiplications, divisions, bit fields, sp and immediate
\* arithmetic, loads and stores of the zero register.
Clobber ==
  /\ "clobber" \in Kinds
  /\ mem' = Spilled
  /\ flags_pending' = FALSE
  /\ rflags' \in Clobbers
  /\ agree' = TRUE
  /\ UNCHANGED <<nzcv, flag_src, lost>>

\* add, sub (shifted register) into a third register, unshifted: the one path
\* that overwrites RFLAGS without dirty_flags.
PlainAddSub ==
  /\ "plain" \in Kinds
  /\ \E a, b \in Word : rflags' \in {X86Add(a, b, FALSE), X86Sub(a, b, FALSE)}
  /\ lost' = (lost \/ flags_pending)
  /\ agree' = TRUE
  /\ UNCHANGED <<nzcv, flags_pending, flag_src, mem>>

----------------------------------------------------------------------------
(* Instructions that read the flags, and block exits.                      *)

\* The flags after a decision on condition c: a fused one is the last that
\* can be made of them.
Consumed(c) ==
  /\ mem' = IF Fused(c) THEN mem ELSE Spilled
  /\ flags_pending' = FALSE
  /\ lost' = (lost \/ Fused(c))

\* csel, csinc, csinv, csneg
Select(c) ==
  /\ "select" \in Kinds
  /\ Consumed(c)
  /\ agree' = (Decision(c) <=> ArmHolds(c, nzcv))
  /\ rflags' \in Clobbers
  /\ UNCHANGED <<nzcv, flag_src>>

\* b.cond: jumps over the exit on the inverted condition.  A taken exit leads
\* to another block, whose translation starts with nothing pending.
Taken(c) == IF Fused(c) THEN ~X86Holds(InvCC[MapOf(flag_src)[c]], rflags)
            ELSE EmitCond(c, Spilled)
Branch(c) ==
  /\ "branch" \in Kinds
  /\ Consumed(c)
  /\ agree' = (Taken(c) <=> ArmHolds(c, nzcv))
  /\ IF Fused(c) THEN UNCHANGED rflags ELSE rflags' \in Clobbers
  /\ flag_src' = IF Taken(c) THEN "kNone" ELSE flag_src
  /\ UNCHANGED nzcv

\* ccmp, ccmn: both ways the four flags end up in memory.
Compare(c) ==
  /\ "compare" \in Kinds
  /\ agree' = (Decision(c) <=> ArmHolds(c, nzcv))
  /\ \E imm \in CcmpImms :
       LET compared(src, f) ==
             /\ mem' = IF Decision(c) THEN Materialized(src, f.x86) ELSE imm
             /\ nzcv' = IF ArmHolds(c, nzcv) THEN f.arm ELSE imm
       IN \/ \E f \in SubFlags : compared("kFromSub", f)
          \/ \E f \in AddFlags : compared("kFromAdd", f)
  /\ flags_pending' = FALSE
  /\ rflags' \in Clobbers
  /\ UNCHANGED <<flag_src, lost>>

\* tbz, tbnz: bt puts the bit into CF, keeps ZF and leaves SF and OF
\* undefined.  What was pending is stored on the taken path only, after the
\* bt, and counts as stored on the other path too.
TestBit ==
  /\ "testbit" \in Kinds
  /\ rflags' \in {r \in Rflags : r.Z = rflags.Z}
  /\ \/ /\ mem' = IF flags_pending THEN Materialized(flag_src, rflags') ELSE mem
        /\ flag_src' = "kNone"
     \/ UNCHANGED <<mem, flag_src>>
  /\ flags_pending' = FALSE
  /\ lost' = (lost \/ flags_pending)
  /\ agree' = TRUE
  /\ UNCHANGED nzcv

\* cbz, cbnz: dirty_flags, then the test; b, bl, br, blr, ret, svc, a block
\* that ends or is cut: dirty_flags, then the next block.
Exit ==
  /\ "exit" \in Kinds
  /\ mem' = Spilled
  /\ flags_pending' = FALSE
  /\ rflags' \in Clobbers
  /\ flag_src' \in {flag_src, "kNone"}
  /\ agree' = TRUE
  /\ UNCHANGED <<nzcv, lost>>

Next == \/ Arith \/ Misread \/ Logic \/ Carry \/ Clobber \/ PlainAddSub \/ TestBit \/ Exit
        \/ \E c \in Conds : Select(c) \/ Branch(c) \/ Compare(c)

Spec == Init /\ [][Next]_vars

----------------------------------------------------------------------------
(* Properties.                                                             *)

TypeOK ==
  /\ nzcv \in Nzcv /\ mem \in Nzcv /\ rflags \in Rflags
  /\ flags_pending \in BOOLEAN /\ flag_src \in FlagSrc
  /\ lost \in BOOLEAN /\ agree \in BOOLEAN
  /\ flags_pending => flag_src # "kNone"

\* Where the translator believes the flags to be, the guest's flags are: in
\* RFLAGS in the form of the instruction that set them while flags_pending,
\* in the context's bytes otherwise (spill_flags, mark_flags).
FlagsCoherent ==
  ~lost => nzcv = Spilled

\* Flags that are not lost decide every branch, select, compare and carry as
\* the guest's own flags do, fused or from memory (take_fused_cond, emit_cond).
DecisionsAgree == [][~lost => agree']_vars

\* "if flag-clobbering code comes next, NZCV is first materialized into the
\* context memory" (translator.h): a decision of the flags is always right.
AlwaysAgree == agree
=============================================================================
