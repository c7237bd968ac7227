---------------------------- MODULE RegFile_proofs ----------------------------
(***************************************************************************)
(* RegFile is correct for words of any size, any set of registers, any     *)
(* choice of pinned ones and any operations, if the guest program uses     *)
(* none of the four forms of add and sub that the translator gets wrong.   *)
(***************************************************************************)
EXTENDS RegFile, TLAPS

RegFiles == [Names -> Word]

----------------------------------------------------------------------------
(* The operators.                                                          *)

\* Cutting keeps words words, and cutting twice is cutting once.
LEMMA CutIn ==
  ASSUME NEW v \in Word, NEW sf \in BOOLEAN
  PROVE  Cut(sf, v) \in Word /\ Cut(sf, Cut(sf, v)) = Cut(sf, v)
<1>1. v % Half \in 0 .. (Half - 1) /\ (v % Half) % Half = v % Half
  BY WordAssumption DEF Word
<1> QED BY <1>1, WordAssumption DEF Cut, Word

LEMMA PlusIn ==
  ASSUME NEW a \in Word, NEW b \in Word
  PROVE  Plus(a, b) \in Word
BY WordAssumption DEF Plus, Word

\* The result of add and sub fits the width of the instruction.
LEMMA AddSubIn ==
  ASSUME NEW a \in Word, NEW b \in Word, NEW sub \in BOOLEAN, NEW sf \in BOOLEAN
  PROVE  /\ AddSub(sub, sf, a, b) \in Word
         /\ Cut(sf, AddSub(sub, sf, a, b)) = AddSub(sub, sf, a, b)
<1> DEFINE v == IF sub THEN a - b ELSE a + b
<1>1. v \in Int BY DEF Word
<1> HIDE DEF v
<1>2. v % Size \in Word BY <1>1, WordAssumption DEF Word
<1>3. v % Half \in Word /\ (v % Half) % Half = v % Half
  <2>1. v % Half \in 0 .. (Half - 1) /\ (v % Half) % Half = v % Half
    BY <1>1, WordAssumption
  <2> QED BY <2>1, WordAssumption DEF Word
<1>4. AddSub(sub, sf, a, b) = IF sf THEN v % Size ELSE v % Half
  BY DEF AddSub, v
<1> QED BY <1>2, <1>3, <1>4 DEF Cut

LEMMA ReadIn ==
  ASSUME NEW f \in RegFiles, NEW r \in Names, NEW sf \in BOOLEAN
  PROVE  Z(f, r, sf) \in Word /\ SP(f, r, sf) \in Word /\ f[r] \in Word
<1>1. f[r] \in Word BY DEF RegFiles
<1>2. Cut(sf, f[r]) \in Word BY <1>1, CutIn
<1>3. 0 \in Word BY WordAssumption DEF Word
<1> QED BY <1>1, <1>2, <1>3 DEF Z, SP

\* Writing keeps the register file a register file; 31 is either not written
\* or written like the others.
LEMMA WriteIn ==
  ASSUME NEW f \in RegFiles, NEW r \in Names, NEW v \in Word
  PROVE  /\ SetZ(f, r, v) \in RegFiles
         /\ SetSP(f, r, v) \in RegFiles
         /\ r = 31 => SetZ(f, r, v) = f
         /\ r # 31 => SetZ(f, r, v) = SetSP(f, r, v)
BY DEF SetZ, SetSP, RegFiles

\* Pinned or not, st_r of a value of the width writes that value.
LEMMA StoreIs ==
  ASSUME NEW f, NEW r, NEW v, NEW sf, Cut(sf, v) = v
  PROVE  st_r(f, r, v, sf) = SetZ(f, r, v)
BY DEF st_r

\* The note about rsi stays true when a register is written through st_r.
LEMMA StoredKeeps ==
  ASSUME NEW f \in RegFiles, NEW r \in Names, NEW v \in Word, NEW x,
         NEW b \in Names \cup {-1}, b # -1 => x = f[b]
  PROVE  /\ Stored(b, r) \in Names \cup {-1}
         /\ Stored(b, r) # -1 => x = SetZ(f, r, v)[Stored(b, r)]
BY DEF Stored, InvalidatedBy, SetZ, RegFiles

\* The same for writes that treat 31 as sp.
LEMMA InvalidatedKeeps ==
  ASSUME NEW f \in RegFiles, NEW r \in Names, NEW v \in Word, NEW x,
         NEW b \in Names \cup {-1}, b # -1 => x = f[b]
  PROVE  /\ InvalidatedBy(b, r) \in Names \cup {-1}
         /\ InvalidatedBy(b, r) # -1 => x = SetSP(f, r, v)[InvalidatedBy(b, r)]
BY DEF InvalidatedBy, SetSP, RegFiles

LEMMA NotRegister == -1 \notin Names
BY RegsAssumption DEF Names

----------------------------------------------------------------------------
(* The invariant.                                                          *)

\* Conjunction of the four invariants: each needs the others.  Addresses are
\* right because rsi is, rsi because the registers are, and a register that
\* is written back gets its value from rsi.
IInv == TypeOK /\ RegsCoherent /\ BaseCoherent /\ ShownAlike

\* A step that writes one register of both files like st_r.
LEMMA StoreStep ==
  ASSUME IInv, NEW r \in Names, NEW v \in Word,
         home' = SetZ(home, r, v), guest' = SetZ(guest, r, v),
         base_cached' = Stored(base_cached, r), rsi' = rsi, alike' = TRUE
  PROVE  IInv'
<1> USE DEF IInv, TypeOK, RegsCoherent, BaseCoherent, ShownAlike, RegFiles
<1>1. SetZ(guest, r, v) \in RegFiles BY WriteIn
<1>2. /\ Stored(base_cached, r) \in Names \cup {-1}
      /\ Stored(base_cached, r) # -1 => rsi = SetZ(guest, r, v)[Stored(base_cached, r)]
  BY StoredKeeps
<1> QED BY <1>1, <1>2

\* A step that writes one register of both files, sp included.
LEMMA InvalidateStep ==
  ASSUME IInv, NEW r \in Names, NEW v \in Word,
         home' = SetSP(home, r, v), guest' = SetSP(guest, r, v),
         base_cached' = InvalidatedBy(base_cached, r), rsi' = rsi, alike' = TRUE
  PROVE  IInv'
<1> USE DEF IInv, TypeOK, RegsCoherent, BaseCoherent, ShownAlike, RegFiles
<1>1. SetSP(guest, r, v) \in RegFiles BY WriteIn
<1>2. /\ InvalidatedBy(base_cached, r) \in Names \cup {-1}
      /\ InvalidatedBy(base_cached, r) # -1
           => rsi = SetSP(guest, r, v)[InvalidatedBy(base_cached, r)]
  BY InvalidatedKeeps
<1> QED BY <1>1, <1>2

\* base_load puts the base register's value of now into rsi.
LEMMA BaseIs ==
  ASSUME IInv, NEW rn \in Names
  PROVE  Base(rn) = guest[rn] /\ guest[rn] \in Word
BY NotRegister DEF Base, IInv, TypeOK, RegsCoherent, BaseCoherent, RegFiles

\* An access keeps the invariant if what it loads goes to both files and the
\* note it leaves is about the base register, as it is after the loads.
LEMMA AccessStep ==
  ASSUME IInv, NEW rn \in Names, NEW mode \in Modes, NEW off \in Word,
         NEW g \in RegFiles, NEW b \in Names \cup {-1},
         b # -1 => guest[rn] = g[b],
         Accessed(g, g, b, rn, mode, off), alike' = TRUE
  PROVE  IInv'
<1>1. Base(rn) = guest[rn] /\ guest[rn] \in Word BY BaseIs
<1>2. Plus(guest[rn], off) \in Word BY <1>1, PlusIn
<1>3. SetSP(g, rn, Plus(guest[rn], off)) \in RegFiles BY <1>2, WriteIn
<1> QED BY <1>1, <1>2, <1>3
        DEF Accessed, WriteBack, IInv, TypeOK, RegsCoherent, BaseCoherent, ShownAlike, RegFiles

----------------------------------------------------------------------------
(* Every step keeps the invariant.                                         *)

\* What the steps below are about: both files are one, and words.
LEMMA Files ==
  ASSUME IInv
  PROVE  home = guest /\ guest \in RegFiles
BY DEF IInv, TypeOK, RegsCoherent, RegFiles

LEMMA InitOK == Init => IInv
<1>1. 0 \in Word BY WordAssumption DEF Word
<1> QED BY <1>1
        DEF Init, IInv, TypeOK, RegsCoherent, BaseCoherent, ShownAlike, RegFiles, Names

LEMMA NextBlockStep == IInv /\ NextBlock => IInv'
BY DEF NextBlock, IInv, TypeOK, RegsCoherent, BaseCoherent, ShownAlike, RegFiles

LEMMA ComputeStep ==
  ASSUME IInv, Compute
  PROVE  IInv'
<1>1. PICK fn \in Fns, from \in BOOLEAN, sf \in BOOLEAN,
           rd \in Names, rn \in Names, rm \in Names :
        /\ home' = st_r(home, rd, Cut(sf, fn[<<ld_r(rn, from), ld_r(rm, from)>>]), sf)
        /\ base_cached' = Stored(base_cached, rd)
        /\ guest' = SetZ(guest, rd, Cut(sf, fn[<<Z(guest, rn, from), Z(guest, rm, from)>>]))
  BY DEF Compute
<1> DEFINE v == fn[<<Z(guest, rn, from), Z(guest, rm, from)>>]
<1>2. Z(guest, rn, from) \in Word /\ Z(guest, rm, from) \in Word BY Files, ReadIn
<1>3. v \in Word BY <1>2, DataAssumption
<1>4. Cut(sf, v) \in Word /\ Cut(sf, Cut(sf, v)) = Cut(sf, v) BY <1>3, CutIn
<1>5. fn[<<ld_r(rn, from), ld_r(rm, from)>>] = v BY Files DEF ld_r
<1> HIDE DEF v
<1>6. home' = SetZ(home, rd, Cut(sf, v)) BY <1>1, <1>4, <1>5, StoreIs
<1>7. guest' = SetZ(guest, rd, Cut(sf, v)) BY <1>1 DEF v
<1>8. rsi' = rsi /\ alike' = TRUE BY DEF Compute, Silent
<1> QED BY <1>1, <1>4, <1>6, <1>7, <1>8, StoreStep

LEMMA ComputeImmStep ==
  ASSUME IInv, ComputeImm
  PROVE  IInv'
<1>1. PICK fn \in Fns, sf \in BOOLEAN, rd \in Names, rn \in Names, imm \in Imms :
        \/ /\ home' = st_r(home, rd, Cut(sf, fn[<<ld_r(rn, sf), imm>>]), sf)
           /\ base_cached' = Stored(base_cached, rd)
           /\ guest' = SetZ(guest, rd, Cut(sf, fn[<<Z(guest, rn, sf), imm>>]))
        \/ /\ rd = 31
           /\ home' = SetSP(home, 31, Cut(sf, fn[<<ld_r(rn, sf), imm>>]))
           /\ base_cached' = InvalidatedBy(base_cached, 31)
           /\ guest' = SetSP(guest, 31, Cut(sf, fn[<<Z(guest, rn, sf), imm>>]))
  BY DEF ComputeImm
<1> DEFINE v == fn[<<Z(guest, rn, sf), imm>>]
<1>2. Z(guest, rn, sf) \in Word BY Files, ReadIn
<1>3. imm \in Word BY DataAssumption, WordAssumption DEF Word
<1>4. v \in Word BY <1>2, <1>3, DataAssumption
<1>5. Cut(sf, v) \in Word /\ Cut(sf, Cut(sf, v)) = Cut(sf, v) BY <1>4, CutIn
<1>6. fn[<<ld_r(rn, sf), imm>>] = v BY Files DEF ld_r
<1> HIDE DEF v
<1>7. rsi' = rsi /\ alike' = TRUE BY DEF ComputeImm, Silent
<1>8. CASE /\ home' = st_r(home, rd, Cut(sf, v), sf)
           /\ base_cached' = Stored(base_cached, rd)
           /\ guest' = SetZ(guest, rd, Cut(sf, v))
  <2>1. home' = SetZ(home, rd, Cut(sf, v)) BY <1>5, <1>8, StoreIs
  <2> QED BY <1>5, <1>7, <1>8, <2>1, StoreStep
<1>9. CASE /\ rd = 31
           /\ home' = SetSP(home, 31, Cut(sf, v))
           /\ base_cached' = InvalidatedBy(base_cached, 31)
           /\ guest' = SetSP(guest, 31, Cut(sf, v))
  BY <1>5, <1>7, <1>9, InvalidateStep
<1> QED BY <1>1, <1>6, <1>8, <1>9 DEF v

\* What the immediate and the extended form compute, and where it goes.
LEMMA ArmImmIs ==
  ASSUME IInv, NEW i \in Heads, NEW a \in Word
  PROVE  /\ AddSub(i.sub, i.sf, ld_rsp(i.rn, i.sf), a) \in Word
         /\ Cut(i.sf, AddSub(i.sub, i.sf, ld_rsp(i.rn, i.sf), a))
              = AddSub(i.sub, i.sf, ld_rsp(i.rn, i.sf), a)
         /\ ArmImm(i, a) =
              IF i.setf THEN SetZ(guest, i.rd, AddSub(i.sub, i.sf, ld_rsp(i.rn, i.sf), a))
              ELSE SetSP(guest, i.rd, AddSub(i.sub, i.sf, ld_rsp(i.rn, i.sf), a))
<1>0. /\ i.sub \in BOOLEAN /\ i.sf \in BOOLEAN
      /\ i.rn \in Names /\ i.rd \in Names
  BY DEF Heads
<1>1. ld_rsp(i.rn, i.sf) = SP(guest, i.rn, i.sf) BY Files DEF ld_rsp
<1>2. SP(guest, i.rn, i.sf) \in Word BY <1>0, Files, ReadIn
<1>3. /\ AddSub(i.sub, i.sf, SP(guest, i.rn, i.sf), a) \in Word
      /\ Cut(i.sf, AddSub(i.sub, i.sf, SP(guest, i.rn, i.sf), a))
           = AddSub(i.sub, i.sf, SP(guest, i.rn, i.sf), a)
  BY <1>0, <1>2, AddSubIn
<1> QED BY <1>1, <1>3 DEF ArmImm

\* The general path of both: st_r with S, st_rsp without.
LEMMA ThroughRax ==
  ASSUME IInv, NEW i \in Heads, NEW a \in Word, NEW v,
         v = AddSub(i.sub, i.sf, ld_rsp(i.rn, i.sf), a),
         IF i.setf \/ i.rd # 31
         THEN /\ home' = st_r(home, i.rd, v, i.sf)
              /\ base_cached' = Stored(base_cached, i.rd)
         ELSE /\ home' = SetSP(home, 31, v)
              /\ base_cached' = InvalidatedBy(base_cached, 31),
         guest' = ArmImm(i, a), rsi' = rsi, alike' = TRUE
  PROVE  IInv'
<1>1. /\ v \in Word /\ Cut(i.sf, v) = v
      /\ guest' = IF i.setf THEN SetZ(guest, i.rd, v) ELSE SetSP(guest, i.rd, v)
  BY ArmImmIs
<1>2. i.rd \in Names /\ 31 \in Names BY DEF Heads, Names
<1>3. CASE i.setf \/ i.rd # 31
  <2>1. home' = SetZ(home, i.rd, v) BY <1>1, <1>3, StoreIs
  <2>2. guest' = SetZ(guest, i.rd, v) BY <1>1, <1>2, <1>3, Files, WriteIn
  <2> QED BY <1>1, <1>2, <1>3, <2>1, <2>2, StoreStep
<1>4. CASE ~i.setf /\ i.rd = 31
  BY <1>1, <1>2, <1>4, InvalidateStep
<1> QED BY <1>3, <1>4

LEMMA AddImmStep ==
  ASSUME IInv, Forms = {}, AddImm
  PROVE  IInv'
<1>1. PICK i \in Heads, imm \in Imms :
        \/ AddImmInPlace(i, imm) \/ CompareImm(i, imm)
        \/ AddImmLea(i, imm)     \/ AddImmGeneral(i, imm)
  BY DEF AddImm
<1> DEFINE v == AddSub(i.sub, i.sf, ld_rsp(i.rn, i.sf), imm)
<1>2. imm \in Word BY DataAssumption, WordAssumption DEF Word
<1>3. /\ v \in Word
      /\ ArmImm(i, imm) = IF i.setf THEN SetZ(guest, i.rd, v) ELSE SetSP(guest, i.rd, v)
  BY <1>2, ArmImmIs
<1>4. i.rd \in Names /\ i.rn \in Names /\ 31 \in Names BY DEF Heads, Names
<1>5. home = guest /\ guest \in RegFiles BY Files
<1>6. CASE AddImmInPlace(i, imm)
  <2>1. i.rd = i.rn /\ ~(i.setf /\ i.rd = 31) BY <1>6 DEF AddImmInPlace, ImmInPlace
  <2>2. home' = SetSP(home, i.rd, v) BY <1>6, <2>1 DEF AddImmInPlace
  <2>3. guest' = ArmImm(i, imm) BY <1>6 DEF AddImmInPlace
  <2> HIDE DEF v
  <2>4. guest' = SetSP(guest, i.rd, v) BY <1>3, <1>4, <1>5, <2>1, <2>3, WriteIn
  <2>5. /\ base_cached' = InvalidatedBy(base_cached, i.rd)
        /\ rsi' = rsi /\ alike' = TRUE
    BY <1>6, <2>1 DEF AddImmInPlace, Silent
  <2> QED BY <1>3, <1>4, <2>2, <2>4, <2>5, InvalidateStep
<1>7. CASE CompareImm(i, imm)
  <2>1. i.setf /\ i.rd = 31 /\ guest' = ArmImm(i, imm)
    BY <1>7 DEF CompareImm, ImmCompare
  <2> HIDE DEF v
  <2>2. guest' = guest BY <1>3, <1>4, <1>5, <2>1, WriteIn
  <2>3. ld_rsp(i.rn, i.sf) = SP(guest, i.rn, i.sf) BY <1>5 DEF ld_rsp
  <2>4. home' = home /\ rsi' = rsi /\ base_cached' = base_cached /\ alike' = TRUE
    BY <1>7, <2>3 DEF CompareImm, Shows
  <2> QED BY <2>2, <2>4 DEF IInv, TypeOK, RegsCoherent, BaseCoherent, ShownAlike, RegFiles
<1>8. CASE AddImmLea(i, imm)
  <2>1. i.sf = TRUE /\ i.sub = FALSE /\ i.setf = FALSE
    BY <1>8 DEF AddImmLea, ImmLea, Heads
  <2>2. v = Plus(home[i.rn], imm)
    BY <2>1 DEF AddSub, Plus, ld_rsp, SP, Cut
  <2>3. /\ home' = SetSP(home, i.rd, Plus(home[i.rn], imm))
        /\ guest' = ArmImm(i, imm)
        /\ base_cached' = InvalidatedBy(base_cached, i.rd)
        /\ rsi' = rsi /\ alike' = TRUE
    BY <1>8 DEF AddImmLea, Silent
  <2> HIDE DEF v
  <2>4. guest' = SetSP(guest, i.rd, v) BY <1>3, <2>1, <2>3
  <2>5. home' = SetSP(home, i.rd, v) BY <2>2, <2>3
  <2> QED BY <1>3, <1>4, <2>3, <2>4, <2>5, InvalidateStep
<1>9. CASE AddImmGeneral(i, imm)
  BY <1>2, <1>9, ThroughRax DEF AddImmGeneral, Silent
<1> QED BY <1>1, <1>6, <1>7, <1>8, <1>9

LEMMA AddRegStep ==
  ASSUME IInv, Forms = {}, AddReg
  PROVE  IInv'
<1>1. PICK i \in Heads, rm \in Names, sh \in Shifts :
        \/ CompareReg(i, rm, sh)     \/ AddRegInPlace(i, rm, sh)
        \/ AddRegCommuted(i, rm, sh) \/ AddRegGeneral(i, rm, sh)
  BY DEF AddReg
<1> DEFINE x == Z(guest, i.rn, i.sf)
           y == ArmRm(i, rm, sh)
           v == AddSub(i.sub, i.sf, x, y)
<1>2. /\ i.sub \in BOOLEAN /\ i.sf \in BOOLEAN
      /\ i.rd \in Names /\ i.rn \in Names
  BY DEF Heads
<1>3. home = guest /\ guest \in RegFiles BY Files
<1>4. x \in Word BY <1>2, <1>3, ReadIn
<1>5. y \in Word /\ Rcx(i, rm, sh) = y
  <2>1. Z(guest, rm, i.sf) \in Word BY <1>2, <1>3, ReadIn
  <2>2. sh[Z(guest, rm, i.sf)] \in Word BY <2>1, DataAssumption
  <2> QED BY <1>2, <1>3, <2>2, CutIn DEF ArmRm, Rcx, ld_r
<1>6. v \in Word /\ Cut(i.sf, v) = v BY <1>2, <1>4, <1>5, AddSubIn
<1>7. ArmReg(i, rm, sh) = SetZ(guest, i.rd, v) BY DEF ArmReg
<1>8. CASE CompareReg(i, rm, sh)
  <2>1. i.sf /\ i.rd = 31 /\ i.rn # 31 /\ guest' = SetZ(guest, i.rd, v)
    BY <1>7, <1>8 DEF CompareReg, RegCompare
  <2>2. home[i.rn] = Z(guest, i.rn, TRUE) BY <1>3, <2>1 DEF Z, Cut
  <2>3. /\ home' = home /\ rsi' = rsi /\ base_cached' = base_cached
        /\ alike' = TRUE
    BY <1>5, <1>8, <2>2 DEF CompareReg, Shows
  <2> HIDE DEF v
  <2>4. guest' = guest BY <1>2, <1>3, <1>6, <2>1, WriteIn
  <2> QED BY <2>3, <2>4 DEF IInv, TypeOK, RegsCoherent, BaseCoherent, ShownAlike, RegFiles
<1>9. CASE AddRegInPlace(i, rm, sh)
  <2>1. /\ i.sf = TRUE /\ i.rd = i.rn /\ i.rd # 31
        /\ home' = SetSP(home, i.rn, AddSub(i.sub, TRUE, home[i.rn], Rcx(i, rm, sh)))
        /\ guest' = SetZ(guest, i.rd, v)
        /\ base_cached' = InvalidatedBy(base_cached, i.rd)
        /\ rsi' = rsi /\ alike' = TRUE
    BY <1>2, <1>7, <1>9 DEF AddRegInPlace, RegInPlace, Silent
  <2>2. home[i.rn] = x BY <1>3, <2>1 DEF Z, Cut
  <2>3. AddSub(i.sub, TRUE, home[i.rn], Rcx(i, rm, sh)) = v BY <1>5, <2>1, <2>2
  <2> HIDE DEF v
  <2>4. guest' = SetSP(guest, i.rd, v) BY <1>2, <1>3, <1>6, <2>1, WriteIn
  <2> QED BY <1>2, <1>6, <2>1, <2>3, <2>4, InvalidateStep
<1>10. CASE AddRegCommuted(i, rm, sh)
  <2>1. /\ i.sf = TRUE /\ i.sub = FALSE /\ i.rd = rm /\ i.rd # 31 /\ sh = NoShift
        /\ home' = SetSP(home, i.rd, Plus(home[i.rd], ld_r(i.rn, TRUE)))
        /\ guest' = SetZ(guest, i.rd, v)
        /\ base_cached' = InvalidatedBy(base_cached, i.rd)
        /\ rsi' = rsi /\ alike' = TRUE
    BY <1>2, <1>7, <1>10 DEF AddRegCommuted, RegCommuted, Silent
  <2>2. ld_r(i.rn, TRUE) = x BY <1>3, <2>1 DEF ld_r
  <2>3. home[i.rd] \in Word /\ home[i.rd] = guest[rm] BY <1>2, <1>3, <2>1, ReadIn
  <2>4. home[i.rd] = y
    BY <1>3, <2>1, <2>3 DEF ArmRm, NoShift, Z, Cut
  <2>5. v = AddSub(FALSE, TRUE, x, y) BY <2>1
  <2> HIDE DEF x, y, v
  <2>6. Plus(y, x) = v BY <1>4, <1>5, <2>5 DEF Plus, AddSub, Word
  <2>7. guest' = SetSP(guest, i.rd, v) BY <1>2, <1>3, <1>6, <2>1, WriteIn
  <2>8. home' = SetSP(home, i.rd, v) BY <2>1, <2>2, <2>4, <2>6
  <2> QED BY <1>2, <1>6, <2>1, <2>7, <2>8, InvalidateStep
<1>11. CASE AddRegGeneral(i, rm, sh)
  <2>1. ld_r(i.rn, i.sf) = x BY <1>3 DEF ld_r
  <2>2. /\ home' = st_r(home, i.rd, v, i.sf)
        /\ guest' = SetZ(guest, i.rd, v)
        /\ base_cached' = Stored(base_cached, i.rd)
        /\ rsi' = rsi /\ alike' = TRUE
    BY <1>5, <1>7, <1>11, <2>1 DEF AddRegGeneral, Silent
  <2> HIDE DEF v
  <2>3. home' = SetZ(home, i.rd, v) BY <1>6, <2>2, StoreIs
  <2> QED BY <1>2, <1>6, <2>2, <2>3, StoreStep
<1> QED BY <1>1, <1>8, <1>9, <1>10, <1>11

LEMMA AddExtStep ==
  ASSUME IInv, AddExt
  PROVE  IInv'
<1>1. PICK i \in Heads, rm \in Names, e \in Exts :
        /\ IF i.setf \/ i.rd # 31
           THEN /\ home' = st_r(home, i.rd, AddSub(i.sub, i.sf, ld_rsp(i.rn, i.sf),
                                                   Cut(i.sf, e[ld_r(rm, TRUE)])), i.sf)
                /\ base_cached' = Stored(base_cached, i.rd)
           ELSE /\ home' = SetSP(home, 31, AddSub(i.sub, i.sf, ld_rsp(i.rn, i.sf),
                                                  Cut(i.sf, e[ld_r(rm, TRUE)])))
                /\ base_cached' = InvalidatedBy(base_cached, 31)
        /\ guest' = ArmImm(i, Cut(i.sf, e[Z(guest, rm, TRUE)]))
  BY DEF AddExt
<1> DEFINE a == Cut(i.sf, e[Z(guest, rm, TRUE)])
<1>2. Z(guest, rm, TRUE) \in Word /\ ld_r(rm, TRUE) = Z(guest, rm, TRUE)
  BY Files, ReadIn DEF ld_r
<1>3. e[Z(guest, rm, TRUE)] \in Word
  <2>1. e \in [Word -> Word] BY DataAssumption
  <2> QED BY <1>2, <2>1
<1>4. a \in Word BY <1>3, CutIn DEF Heads
<1>5. rsi' = rsi /\ alike' = TRUE BY DEF AddExt, Silent
<1> QED BY <1>1, <1>2, <1>4, <1>5, ThroughRax

----------------------------------------------------------------------------
(* Loads and stores.                                                       *)

\* An address is the guest's: the base is, and the displacement is.
LEMMA AddressIs ==
  ASSUME IInv, NEW rn \in Names, NEW mode \in Modes, NEW off \in Word
  PROVE  Plus(Base(rn), Disp(mode, off)) = Plus(guest[rn], ArmDisp(mode, off))
BY BaseIs DEF Disp, ArmDisp

\* A loaded value lands in one register; the note about the base survives
\* unless that register is the base.
LEMMA LoadedKeeps ==
  ASSUME NEW g \in RegFiles, NEW r \in Names, NEW v \in Word,
         NEW b \in Names \cup {-1}
  PROVE  /\ SetZ(g, r, v) \in RegFiles
         /\ Stored(b, r) \in Names \cup {-1}
         /\ Stored(b, r) # -1 => Stored(b, r) = b /\ SetZ(g, r, v)[b] = g[b]
BY WriteIn DEF Stored, InvalidatedBy, SetZ, RegFiles

\* The same right after base_load.
LEMMA LoadedBase ==
  ASSUME NEW g \in RegFiles, NEW r \in Names, NEW v \in Word,
         NEW rn \in Names
  PROVE  /\ SetZ(g, r, v) \in RegFiles
         /\ Stored(rn, r) \in Names \cup {-1}
         /\ Stored(rn, r) # -1 => Stored(rn, r) = rn /\ SetZ(g, r, v)[rn] = g[rn]
BY WriteIn DEF Stored, InvalidatedBy, SetZ, RegFiles

LEMMA LoadStep ==
  ASSUME IInv, NEW rn \in Names, NEW mode \in Modes, NEW off \in Offsets,
         Load(rn, mode, off)
  PROVE  IInv'
<1>1. PICK rt \in Names, e \in Exts, v \in Word :
        /\ Accessed(SetZ(home, rt, e[v]), SetZ(guest, rt, e[v]),
                    Stored(rn, rt), rn, mode, off)
        /\ Shows(Plus(Base(rn), Disp(mode, off)),
                 Plus(guest[rn], ArmDisp(mode, off)))
  BY DEF Load
<1>2. off \in Word BY DataAssumption
<1>3. PICK u \in Word : u = e[v]
  <2>1. e \in [Word -> Word] BY DataAssumption
  <2> QED BY <2>1
<1>4. home = guest /\ guest \in RegFiles BY Files
<1> DEFINE g == SetZ(guest, rt, u)
           b == Stored(rn, rt)
<1>5. /\ g \in RegFiles /\ b \in Names \cup {-1}
      /\ b # -1 => b = rn /\ g[rn] = guest[rn]
  BY <1>4, LoadedBase
<1>6. alike' = TRUE BY <1>1, <1>2, AddressIs DEF Shows
<1>7. Accessed(g, g, b, rn, mode, off) BY <1>1, <1>3, <1>4
<1> HIDE DEF g, b
<1> QED BY <1>2, <1>5, <1>6, <1>7, AccessStep

LEMMA LoadIndexedStep ==
  ASSUME IInv, LoadIndexed
  PROVE  IInv'
<1>1. PICK rt \in Names, rn \in Names, rm \in Names, x \in Exts,
           e \in Exts, v \in Word :
        /\ Accessed(SetZ(home, rt, e[v]), SetZ(guest, rt, e[v]),
                    Stored(rn, rt), rn, "offset", 0)
        /\ Shows(Plus(Base(rn), x[ld_r(rm, TRUE)]),
                 Plus(guest[rn], x[Z(guest, rm, TRUE)]))
  BY DEF LoadIndexed
<1>2. 0 \in Word /\ "offset" \in Modes BY WordAssumption DEF Word, Modes
<1>3. PICK u \in Word : u = e[v]
  <2>1. e \in [Word -> Word] BY DataAssumption
  <2> QED BY <2>1
<1>4. home = guest /\ guest \in RegFiles BY Files
<1> DEFINE g == SetZ(guest, rt, u)
           b == Stored(rn, rt)
<1>5. /\ g \in RegFiles /\ b \in Names \cup {-1}
      /\ b # -1 => b = rn /\ g[rn] = guest[rn]
  BY <1>4, LoadedBase
<1>6. alike' = TRUE BY <1>1, <1>4, BaseIs DEF Shows, ld_r
<1>7. Accessed(g, g, b, rn, "offset", 0) BY <1>1, <1>3, <1>4
<1> HIDE DEF g, b
<1> QED BY <1>2, <1>5, <1>6, <1>7, AccessStep

LEMMA LoadPairStep ==
  ASSUME IInv, NEW rn \in Names, NEW mode \in Modes, NEW off \in Offsets,
         LoadPair(rn, mode, off)
  PROVE  IInv'
<1>1. PICK r1 \in Names, r2 \in Names, scale \in Offsets, e \in Exts,
           v1 \in Word, v2 \in Word :
        /\ Accessed(SetZ(SetZ(home, r1, e[v1]), r2, e[v2]),
                    SetZ(SetZ(guest, r1, e[v1]), r2, e[v2]),
                    Stored(Stored(rn, r1), r2), rn, mode, off)
        /\ Shows(<<Plus(Base(rn), Disp(mode, off)),
                   Plus(Plus(Base(rn), Disp(mode, off)), scale)>>,
                 <<Plus(guest[rn], ArmDisp(mode, off)),
                   Plus(Plus(guest[rn], ArmDisp(mode, off)), scale)>>)
  BY DEF LoadPair
<1>2. off \in Word BY DataAssumption
<1>3. PICK u1 \in Word, u2 \in Word : u1 = e[v1] /\ u2 = e[v2]
  <2>1. e \in [Word -> Word] BY DataAssumption
  <2> QED BY <2>1
<1>4. home = guest /\ guest \in RegFiles BY Files
<1>5. alike' = TRUE BY <1>1, <1>2, AddressIs DEF Shows
<1> DEFINE g1 == SetZ(guest, r1, u1)
           b1 == Stored(rn, r1)
<1>6. /\ g1 \in RegFiles /\ b1 \in Names \cup {-1}
      /\ b1 # -1 => b1 = rn /\ g1[rn] = guest[rn]
  BY <1>4, LoadedBase
<1>7. Accessed(SetZ(g1, r2, u2), SetZ(g1, r2, u2), Stored(b1, r2), rn, mode, off)
  BY <1>1, <1>3, <1>4
<1> HIDE DEF g1, b1
<1> DEFINE g == SetZ(g1, r2, u2)
           b == Stored(b1, r2)
<1>8. /\ g \in RegFiles /\ b \in Names \cup {-1}
      /\ b # -1 => b = b1 /\ g[b1] = g1[b1]
  BY <1>6, LoadedKeeps
<1>9. Accessed(g, g, b, rn, mode, off) BY <1>7
<1> HIDE DEF g, b
<1>10. /\ g \in RegFiles /\ b \in Names \cup {-1}
       /\ b # -1 => b = rn /\ g[rn] = guest[rn]
  BY <1>6, <1>8
<1> QED BY <1>2, <1>5, <1>9, <1>10, AccessStep

\* Stores change no register but a base that is written back.
LEMMA StoredBaseStep ==
  ASSUME IInv, NEW rn \in Names, NEW mode \in Modes, NEW off \in Word,
         Accessed(home, guest, rn, rn, mode, off), alike' = TRUE
  PROVE  IInv'
<1>1. home = guest /\ guest \in RegFiles BY Files
<1>2. Accessed(guest, guest, rn, rn, mode, off) BY <1>1
<1> QED BY <1>1, <1>2, AccessStep

LEMMA StoreAccessStep ==
  ASSUME IInv, NEW rn \in Names, NEW mode \in Modes, NEW off \in Offsets,
         Store(rn, mode, off) \/ StorePair(rn, mode, off)
  PROVE  IInv'
<1>1. home = guest BY Files
<1>2. off \in Word BY DataAssumption
<1>3. CASE Store(rn, mode, off)
  <2>1. PICK rt \in Names, sf \in BOOLEAN :
          /\ Accessed(home, guest, rn, rn, mode, off)
          /\ Shows(<<Plus(Base(rn), Disp(mode, off)), ld_r(rt, sf)>>,
                   <<Plus(guest[rn], ArmDisp(mode, off)), Z(guest, rt, sf)>>)
    BY <1>3 DEF Store
  <2>2. alike' = TRUE BY <1>1, <1>2, <2>1, AddressIs DEF Shows, ld_r
  <2> QED BY <1>2, <2>1, <2>2, StoredBaseStep
<1>4. CASE StorePair(rn, mode, off)
  <2>1. PICK r1 \in Names, r2 \in Names, scale \in Offsets, sf \in BOOLEAN :
          /\ Accessed(home, guest, rn, rn, mode, off)
          /\ Shows(<<Plus(Base(rn), Disp(mode, off)),
                     Plus(Plus(Base(rn), Disp(mode, off)), scale),
                     ld_r(r1, sf), ld_r(r2, sf)>>,
                   <<Plus(guest[rn], ArmDisp(mode, off)),
                     Plus(Plus(guest[rn], ArmDisp(mode, off)), scale),
                     Z(guest, r1, sf), Z(guest, r2, sf)>>)
    BY <1>4 DEF StorePair
  <2>2. alike' = TRUE BY <1>1, <1>2, <2>1, AddressIs DEF Shows, ld_r
  <2> QED BY <1>2, <2>1, <2>2, StoredBaseStep
<1> QED BY <1>3, <1>4

LEMMA StoreIndexedStep ==
  ASSUME IInv, StoreIndexed
  PROVE  IInv'
<1>1. PICK rt \in Names, rn \in Names, rm \in Names, x \in Exts, sf \in BOOLEAN :
        /\ Accessed(home, guest, rn, rn, "offset", 0)
        /\ Shows(<<Plus(Base(rn), x[ld_r(rm, TRUE)]), ld_r(rt, sf)>>,
                 <<Plus(guest[rn], x[Z(guest, rm, TRUE)]), Z(guest, rt, sf)>>)
  BY DEF StoreIndexed
<1>2. 0 \in Word /\ "offset" \in Modes BY WordAssumption DEF Word, Modes
<1>3. alike' = TRUE BY <1>1, Files, BaseIs DEF Shows, ld_r
<1> QED BY <1>1, <1>2, <1>3, StoredBaseStep

LEMMA LoadLiteralStep ==
  ASSUME IInv, LoadLiteral
  PROVE  IInv'
<1>1. PICK rt \in Names, a \in Word, e \in Exts, v \in Word :
        /\ rsi' = a /\ base_cached' = -1
        /\ home' = SetZ(home, rt, e[v]) /\ guest' = SetZ(guest, rt, e[v])
        /\ alike' = TRUE
  BY DEF LoadLiteral, Silent
<1>2. e[v] \in Word
  <2>1. e \in [Word -> Word] BY DataAssumption
  <2> QED BY <2>1
<1>3. SetZ(guest, rt, e[v]) \in RegFiles BY <1>2, Files, WriteIn
<1> QED BY <1>1, <1>3, Files
        DEF IInv, TypeOK, RegsCoherent, BaseCoherent, ShownAlike, RegFiles

LEMMA NextOK ==
  ASSUME IInv, Forms = {}, [Next]_vars
  PROVE  IInv'
<1>1. CASE NextBlock   BY <1>1, NextBlockStep
<1>2. CASE Compute     BY <1>2, ComputeStep
<1>3. CASE ComputeImm  BY <1>3, ComputeImmStep
<1>4. CASE AddImm      BY <1>4, AddImmStep
<1>5. CASE AddReg      BY <1>5, AddRegStep
<1>6. CASE AddExt      BY <1>6, AddExtStep
<1>7. CASE LoadIndexed  BY <1>7, LoadIndexedStep
<1>8. CASE StoreIndexed BY <1>8, StoreIndexedStep
<1>9. CASE LoadLiteral  BY <1>9, LoadLiteralStep
<1>10. CASE \E rn \in Names, mode \in Modes, off \in Offsets :
              \/ Load(rn, mode, off)     \/ Store(rn, mode, off)
              \/ LoadPair(rn, mode, off) \/ StorePair(rn, mode, off)
  <2>1. PICK rn \in Names, mode \in Modes, off \in Offsets :
          \/ Load(rn, mode, off)     \/ Store(rn, mode, off)
          \/ LoadPair(rn, mode, off) \/ StorePair(rn, mode, off)
    BY <1>10
  <2>2. CASE Load(rn, mode, off)     BY <2>2, LoadStep
  <2>3. CASE LoadPair(rn, mode, off) BY <2>3, LoadPairStep
  <2>4. CASE Store(rn, mode, off) \/ StorePair(rn, mode, off)
    BY <2>4, StoreAccessStep
  <2> QED BY <2>1, <2>2, <2>3, <2>4
<1>11. CASE UNCHANGED vars
  BY <1>11 DEF vars, IInv, TypeOK, RegsCoherent, BaseCoherent, ShownAlike, RegFiles
<1> QED BY <1>1, <1>2, <1>3, <1>4, <1>5, <1>6, <1>7, <1>8, <1>9, <1>10, <1>11
        DEF Next

LEMMA Invariance ==
  ASSUME Forms = {}
  PROVE  Spec => []IInv
<1>1. Init => IInv BY InitOK
<1>2. IInv /\ [Next]_vars => IInv' BY NextOK
<1> QED BY <1>1, <1>2, PTL DEF Spec

----------------------------------------------------------------------------
(* The theorems.                                                           *)

\* Every register of both files holds a word, and the note about rsi names a
\* register or none.
THEOREM TypeCorrect ==
  ASSUME Forms = {}
  PROVE  Spec => []TypeOK
<1>1. IInv => TypeOK BY DEF IInv
<1> QED BY <1>1, Invariance, PTL

\* The paths through the translator are indistinguishable in the registers,
\* for every choice of pinned registers.
THEOREM RegistersAreCoherent ==
  ASSUME Forms = {}
  PROVE  Spec => []RegsCoherent
<1>1. IInv => RegsCoherent BY DEF IInv
<1> QED BY <1>1, Invariance, PTL

\* The base-register cache is never stale.
THEOREM BaseIsCoherent ==
  ASSUME Forms = {}
  PROVE  Spec => []BaseCoherent
<1>1. IInv => BaseCoherent BY DEF IInv
<1> QED BY <1>1, Invariance, PTL

\* Every access goes where the guest's goes, with the guest's data.
THEOREM AccessesAreAlike ==
  ASSUME Forms = {}
  PROVE  Spec => []ShownAlike
<1>1. IInv => ShownAlike BY DEF IInv
<1> QED BY <1>1, Invariance, PTL
=============================================================================
