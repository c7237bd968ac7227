-------------------------- MODULE BlockChain_proofs --------------------------
(***************************************************************************)
(* Proofs about BlockChain: its types, the soundness and completeness of   *)
(* the patched jumps and of the branch cache, and that translated code     *)
(* implements GuestFlow when 0 is not an address the guest can branch to.  *)
(***************************************************************************)
EXTENDS BlockChain, TLAPS

\* Who runs, and what is still to be looked at by the dispatcher.
HostOK ==
  /\ host # None => Compiled(host)
  /\ outcome = "running" /\ host # None => exit_reason = "none"

\* Entries are bodies of blocks of guest code, never of host functions.
EntriesOK ==
  \A a \in Addr : Compiled(a) => ~IsThunk(a) /\ block_entry[a] = Body(a)

\* The waiting lists hold only sites of compiled blocks.
PendingOK ==
  \A t \in Addr : \A s \in pending[t] : Compiled(s) /\ t \in Sites(s)

\* A slot nobody published keeps the tag it was initialised with.
SlotsOK == \A i \in Slots : bodies[i] = None => tags[i] = 0

\* The inductive invariant.
IInv ==
  /\ TypeOK
  /\ HostOK
  /\ EntriesOK
  /\ PendingOK
  /\ SlotsOK
  /\ LinksSound
  /\ DmcSound
  /\ LinksComplete

----------------------------------------------------------------------------
\* Division by d is unique: what is left over is what was put on top.
LEMMA ModUnique ==
  ASSUME NEW d \in Nat, d > 0, NEW k \in Nat, NEW m \in Nat, m < d
  PROVE  (d * k + m) % d = m
<1> DEFINE x == d * k + m
<1>1. x \in Nat
  OBVIOUS
<1>2. PICK q \in Nat, r \in Nat : x = d * q + r /\ r < d /\ r = x % d
  <2>1. x \div d \in Nat /\ x % d \in Nat /\ x % d < d
        /\ x = d * (x \div d) + (x % d)
    <3> HIDE DEF x
    <3> QED BY <1>1
  <2> QED BY <2>1
<1>3. CASE q >= k + 1
  <2>1. d * q >= d * (k + 1)
    BY <1>3
  <2>2. d * (k + 1) = d * k + d
    OBVIOUS
  <2> QED BY <1>2, <2>1, <2>2
<1>4. CASE k >= q + 1
  <2>1. d * k >= d * (q + 1)
    BY <1>4
  <2>2. d * (q + 1) = d * q + d
    OBVIOUS
  <2> QED BY <1>2, <2>1, <2>2
<1>5. CASE k = q
  BY <1>2, <1>5
<1> QED BY <1>3, <1>4, <1>5

\* The slot a prologue publishes its block in is the slot a probe for the
\* same pc reads (build() against exit_reg), for any size of the cache.
LEMMA SlotsAgree ==
  ASSUME NEW a \in Nat
  PROVE  PublishSlot(a) = ProbeSlot(a) /\ ProbeSlot(a) \in Slots
<1>1. DmcSize \in Nat /\ DmcSize > 0
  BY DmcAssumption
<1>2. PICK q \in Nat, r \in 0 .. 3 : a = 4 * q + r /\ q = a \div 4
  <2>1. a \div 4 \in Nat /\ a % 4 \in 0 .. 3 /\ a = 4 * (a \div 4) + (a % 4)
    OBVIOUS
  <2> QED BY <2>1
<1>3. PICK k \in Nat, m \in Nat :
        m < DmcSize /\ q = DmcSize * k + m /\ m = q % DmcSize
  <2>1. q \div DmcSize \in Nat /\ q % DmcSize \in Nat /\ q % DmcSize < DmcSize
        /\ q = DmcSize * (q \div DmcSize) + (q % DmcSize)
    BY <1>1
  <2> QED BY <2>1
<1>4. a = (DmcSize * 4) * k + (4 * m + r)
  <2>1. 4 * (DmcSize * k) = (DmcSize * 4) * k
    BY <1>1
  <2>2. DmcSize * k \in Nat
    BY <1>1
  <2>3. a = 4 * (DmcSize * k) + 4 * m + r
    BY <1>1, <1>2, <1>3, <2>2
  <2> QED BY <2>1, <2>2, <2>3
<1>5. a % (DmcSize * 4) = 4 * m + r
  <2>1. 4 * m + r \in Nat /\ 4 * m + r < DmcSize * 4
        /\ DmcSize * 4 \in Nat /\ DmcSize * 4 > 0
    BY <1>1, <1>3
  <2> QED BY <1>4, <2>1, ModUnique
<1>6. (4 * m + r) \div 4 = m
  OBVIOUS
<1>7. PublishSlot(a) = m
  BY <1>2, <1>3 DEF PublishSlot
<1>8. ProbeSlot(a) = m
  BY <1>5, <1>6 DEF ProbeSlot
<1> QED
  BY <1>1, <1>3, <1>7, <1>8 DEF Slots

----------------------------------------------------------------------------
(* The invariant holds initially and is kept by every step.                *)

LEMMA ShapeFacts ==
  ASSUME TypeOK, NEW a \in Addr
  PROVE  /\ ShapeAt(a).exits \in SUBSET Addr
         /\ ShapeAt(a).to \in Addr
         /\ ShapeAt(a).next \in Addr
         /\ Targets(a) \subseteq Addr
         /\ Sites(a) \subseteq Addr
<1>1. ShapeAt(a) \in Flow!Shapes
  <2>1. CASE a \in Window
    BY <2>1 DEF TypeOK, ShapeAt
  <2>2. CASE a \notin Window
    BY <2>2 DEF ShapeAt, Flow!Shapes, Flow!Terms
  <2> QED BY <2>1, <2>2
<1> QED
  BY <1>1 DEF Flow!Shapes, Targets, Sites

LEMMA InitOK == Init => IInv
<1> SUFFICES ASSUME Init PROVE IInv
  OBVIOUS
<1>1. TypeOK
  BY AddrAssumption, ProgramAssumption, DmcAssumption
     DEF Init, TypeOK, Reasons, Outcomes, Slots
<1>2. \A a \in Addr : ~Compiled(a)
  BY DEF Init, Compiled
<1>3. LinksSound /\ DmcSound /\ SlotsOK
  BY DEF Init, LinksSound, DmcSound, SlotsOK
<1>4. EntriesOK /\ LinksComplete
  BY <1>2 DEF EntriesOK, LinksComplete
<1>5. PendingOK /\ HostOK
  BY DEF Init, PendingOK, HostOK
<1> QED
  BY <1>1, <1>3, <1>4, <1>5 DEF IInv

\* Steps other than a translation leave the block tables as they are.
LEMMA TablesKept ==
  ASSUME IInv, UNCHANGED <<code, block_entry, pending, link>>
  PROVE  EntriesOK' /\ PendingOK' /\ LinksSound' /\ LinksComplete'
<1>1. \A a \in Addr : Sites(a)' = Sites(a) /\ (Compiled(a)' <=> Compiled(a))
  BY DEF Sites, Targets, ShapeAt, Compiled
<1>2. EntriesOK' /\ LinksSound'
  BY <1>1 DEF IInv, EntriesOK, LinksSound
<1>3. PendingOK'
  BY <1>1 DEF IInv, TypeOK, PendingOK
<1>4. LinksComplete'
  <2> SUFFICES ASSUME NEW s \in Addr, NEW t \in (Sites(s) \ {s})', Compiled(s)'
               PROVE  (IF Compiled(t) THEN <<s, t>> \in Near => link[s][t] = Body(t)
                                      ELSE s \in pending[t])'
    BY DEF LinksComplete
  <2> QED
    BY <1>1, ShapeFacts DEF IInv, LinksComplete, Body, Compiled
<1> QED BY <1>2, <1>3, <1>4

LEMMA DmcKept ==
  ASSUME IInv, UNCHANGED <<tags, bodies, block_entry>>
  PROVE  SlotsOK' /\ DmcSound'
BY DEF IInv, SlotsOK, DmcSound, Compiled

\* Arriving at a compiled block, through its prologue or at its body.
LEMMA RunStep ==
  ASSUME IInv, exit_reason = "none",
         NEW e \in Entries, Compiled(e.block), NEW v \in Addr, Run(e, v),
         UNCHANGED <<code, block_entry, pending, link, outcome>>
  PROVE  IInv'
<1>1. EntriesOK' /\ PendingOK' /\ LinksSound' /\ LinksComplete'
  BY TablesKept
<1>2. e.block \in Addr /\ e.part \in {"start", "body"}
  BY DEF Entries
<1>3. PublishSlot(e.block) \in Slots /\ ProbeSlot(e.block) = PublishSlot(e.block)
  BY <1>2, SlotsAgree, AddrAssumption
<1>4. Body(e.block) \in Entries /\ Body(e.block) # None
  BY <1>2, NoneAssumption DEF Body, Entries
<1>5. TypeOK'
  BY <1>2, <1>3, <1>4 DEF IInv, TypeOK, Run, dmc
<1>6. HostOK'
  BY DEF HostOK, Run, Compiled
<1>7. SlotsOK' /\ DmcSound'
  <2>1. CASE e.part = "start"
    <3>1. /\ tags' = [tags EXCEPT ![PublishSlot(e.block)] = e.block]
          /\ bodies' = [bodies EXCEPT ![PublishSlot(e.block)] = Body(e.block)]
      BY <2>1 DEF Run
    <3> QED
      BY <1>2, <1>3, <1>4, <3>1
         DEF IInv, TypeOK, SlotsOK, DmcSound, Compiled
  <2>2. CASE e.part # "start"
    BY <2>2, DmcKept DEF Run, dmc
  <2> QED BY <2>1, <2>2
<1> QED BY <1>1, <1>5, <1>6, <1>7 DEF IInv

\* Leaving a block through the epilogue.
LEMMA EpilogueStep ==
  ASSUME IInv, NEW t \in Addr, NEW v \in Addr, NEW why \in Reasons,
         Epilogue(t, v, why),
         UNCHANGED <<code, block_entry, pending, link, outcome>>
  PROVE  IInv'
<1>1. EntriesOK' /\ PendingOK' /\ LinksSound' /\ LinksComplete'
  BY TablesKept
<1>2. SlotsOK' /\ DmcSound'
  BY DmcKept DEF Epilogue, dmc
<1>3. TypeOK'
  BY DEF IInv, TypeOK, Epilogue, dmc
<1>4. HostOK'
  BY DEF HostOK, Epilogue
<1> QED BY <1>1, <1>2, <1>3, <1>4 DEF IInv

\* Steps that touch neither the block tables nor the branch cache.
LEMMA QuietStep ==
  ASSUME IInv, TypeOK', HostOK',
         UNCHANGED <<code, block_entry, pending, link, tags, bodies>>
  PROVE  IInv'
BY TablesKept, DmcKept DEF IInv

\* A jump to a known address, linked or not.
LEMMA ExitConstStep ==
  ASSUME IInv, InBlock, NEW t \in Targets(host), NEW v \in Addr,
         ExitConst(t, v),
         UNCHANGED <<code, block_entry, pending, link, outcome>>
  PROVE  IInv'
<1>1. host \in Addr /\ exit_reason = "none" /\ t \in Addr
  BY ShapeFacts DEF IInv, TypeOK, HostOK, InBlock
<1>2. CASE link[host][t] # None /\ t \in Sites(host)
  <2>1. link[host][t] = Body(t) /\ Compiled(t)
    BY <1>1, <1>2 DEF IInv, LinksSound
  <2>2. Body(t) \in Entries /\ Body(t).block = t
    BY <1>1 DEF Body, Entries
  <2> QED BY <1>1, <1>2, <2>1, <2>2, RunStep DEF ExitConst
<1>3. CASE ~(link[host][t] # None /\ t \in Sites(host))
  BY <1>1, <1>3, EpilogueStep DEF ExitConst, Reasons
<1> QED BY <1>2, <1>3

\* A jump through the branch cache: a hit, a miss, or the wild jump.
LEMMA ExitRegStep ==
  ASSUME IInv, InBlock, NEW t \in Addr, NEW v \in Addr, ExitReg(t, v),
         UNCHANGED <<code, block_entry, pending, link>>
  PROVE  IInv'
<1>1. exit_reason = "none" /\ ProbeSlot(t) \in Slots
  BY SlotsAgree, AddrAssumption DEF IInv, HostOK, InBlock
<1>2. CASE Hit(t, v)
  <2> DEFINE e == bodies[ProbeSlot(t)]
  <2>1. e \in Entries /\ Compiled(e.block)
    BY <1>1, <1>2 DEF IInv, TypeOK, DmcSound, Hit, Body
  <2> QED BY <1>1, <1>2, <2>1, RunStep DEF Hit
<1>3. CASE WildHit(t)
  <2>1. TypeOK' /\ HostOK'
    BY <1>3 DEF WildHit, IInv, TypeOK, HostOK, Compiled, Outcomes, dmc
  <2> QED BY <1>3, <2>1, QuietStep DEF WildHit, dmc
<1>4. CASE Miss(t, v)
  BY <1>4, EpilogueStep DEF Miss, Reasons
<1> QED BY <1>2, <1>3, <1>4 DEF ExitReg

\* A translation links the new block both ways or leaves its sites waiting.
LEMMA TranslateStep ==
  ASSUME IInv, Translate
  PROVE  IInv'
<1>1. pc \in Addr /\ Body(pc) \in Entries /\ Body(pc) # None
  BY NoneAssumption DEF IInv, TypeOK, Body, Entries
<1>2. \A a \in Addr : /\ Sites(a)' = Sites(a)
                      /\ Compiled(a)' <=> a = pc \/ Compiled(a)
  BY <1>1 DEF Translate, Sites, Targets, ShapeAt, Compiled, IInv, TypeOK
<1>3. \A s \in Addr : LinksAfter(s) \in [Addr -> Entries \cup {None}]
  BY <1>1 DEF LinksAfter, Patched, IInv, TypeOK
<1>4. \A t \in Addr : WaitingAfter(t) \in SUBSET Addr
  BY <1>1 DEF WaitingAfter, IInv, TypeOK
<1>5. TypeOK'
  BY <1>1, <1>3, <1>4 DEF Translate, IInv, TypeOK
<1>6. HostOK'
  BY DEF Translate, Looping, Dispatching, HostOK
<1>7. EntriesOK'
  BY <1>1, <1>2 DEF Translate, EntriesOK, IInv, TypeOK
<1>8. PendingOK'
  BY <1>1, <1>2, <1>4 DEF Translate, PendingOK, WaitingAfter, IInv, TypeOK
<1>9. SlotsOK' /\ DmcSound'
  BY <1>2 DEF Translate, SlotsOK, DmcSound, IInv
<1>10. LinksSound'
  <2> SUFFICES ASSUME NEW s \in Addr, NEW t \in Addr, LinksAfter(s)[t] # None
               PROVE  /\ s = pc \/ Compiled(s)
                      /\ t = pc \/ Compiled(t)
                      /\ t \in Sites(s)
                      /\ LinksAfter(s)[t] = Body(t)
    BY <1>2 DEF LinksSound, Translate
  <2>1. CASE s = pc
    BY <2>1 DEF LinksAfter, Patched, IInv, EntriesOK
  <2>2. CASE s # pc /\ s \in pending[pc] /\ t = pc
    BY <1>1, <2>2 DEF LinksAfter, Patched, IInv, PendingOK, TypeOK
  <2>3. CASE s # pc /\ ~(s \in pending[pc] /\ t = pc)
    BY <2>3 DEF LinksAfter, IInv, LinksSound, TypeOK
  <2> QED BY <2>1, <2>2, <2>3
<1>11. LinksComplete'
  <2> SUFFICES ASSUME NEW s \in Addr, NEW t \in Sites(s) \ {s},
                      s = pc \/ Compiled(s)
               PROVE  IF t = pc \/ Compiled(t)
                      THEN <<s, t>> \in Near => LinksAfter(s)[t] = Body(t)
                      ELSE s \in WaitingAfter(t)
    <3>1. \A s \in Addr : Sites(s) \subseteq Addr
      BY ShapeFacts DEF IInv
    <3> QED BY <1>2, <3>1 DEF LinksComplete, Translate, Body
  <2>1. t \in Addr
    BY ShapeFacts DEF IInv
  <2>2. CASE s = pc
    BY <2>1, <2>2 DEF LinksAfter, Patched, WaitingAfter, IInv, EntriesOK
  <2>3. CASE s # pc /\ t = pc
    BY <1>1, <2>3 DEF LinksAfter, Patched, IInv, LinksComplete, TypeOK,
                      Translate
  <2>4. CASE s # pc /\ t # pc
    BY <2>1, <2>4 DEF LinksAfter, WaitingAfter, IInv, LinksComplete, TypeOK
  <2> QED BY <2>2, <2>3, <2>4
<1> QED
  BY <1>5, <1>6, <1>7, <1>8, <1>9, <1>10, <1>11 DEF IInv

LEMMA EnterStep ==
  ASSUME IInv, Enter
  PROVE  IInv'
<1>1. Start(pc) \in Entries /\ Start(pc).block = pc
  BY DEF Start, Entries, IInv, TypeOK
<1>2. exit_reason = "none" /\ Compiled(pc) /\ ctx30 \in Addr
  BY DEF Enter, Looping, IInv, TypeOK
<1> QED
  BY <1>1, <1>2, RunStep DEF Enter, tables

LEMMA NextOK == IInv /\ [Next]_vars => IInv'
<1> SUFFICES ASSUME IInv, [Next]_vars PROVE IInv'
  OBVIOUS
<1> USE DEF tables, dmc
<1>1. CASE Translate
  BY <1>1, TranslateStep
<1>2. CASE Enter
  BY <1>2, EnterStep
<1>3. CASE NoCode \/ HostCall \/ HostStop \/ ServeSyscall \/ StopOnReason
  <2>1. TypeOK'
    BY <1>3 DEF IInv, TypeOK, Outcomes, Reasons, NoCode, HostCall, HostStop,
                ServeSyscall, StopOnReason
  <2>2. HostOK'
    BY <1>3 DEF HostOK, NoCode, HostCall, HostStop, ServeSyscall, StopOnReason,
                Looping, Dispatching
  <2> QED
    BY <1>3, <2>1, <2>2, QuietStep
       DEF NoCode, HostCall, HostStop, ServeSyscall, StopOnReason
<1>4. CASE Compute \/ GuardFault
  <2>1. TypeOK'
    BY <1>4 DEF IInv, TypeOK, Outcomes, Reasons, Compute, GuardFault
  <2>2. HostOK'
    BY <1>4 DEF IInv, HostOK, Compute, GuardFault, Compiled
  <2> QED
    BY <1>4, <2>1, <2>2, QuietStep DEF Compute, GuardFault
<1>5. ASSUME InBlock
      PROVE  /\ host \in Addr /\ pin30 \in Addr
             /\ ShapeAt(host).next \in Addr /\ ShapeAt(host).to \in Addr
  BY <1>5, ShapeFacts DEF InBlock, IInv, TypeOK
<1>6. CASE BranchExit
  <2>1. InBlock /\ UNCHANGED <<code, tables, outcome>>
    BY <1>6 DEF BranchExit
  <2>2. PICK t \in ShapeAt(host).exits : ExitConst(t, pin30)
    BY <1>6 DEF BranchExit
  <2>3. t \in Targets(host)
    BY DEF Targets
  <2> QED BY <1>5, <2>1, <2>2, <2>3, ExitConstStep
<1>7. CASE CallExit
  <2>1. ShapeAt(host).to \in Targets(host)
    BY <1>7 DEF CallExit, Targets
  <2> QED BY <1>5, <1>7, <2>1, ExitConstStep DEF CallExit
<1>8. CASE ReturnExit
  BY <1>5, <1>8, ExitRegStep DEF ReturnExit
<1>9. CASE BranchRegisterExit \/ CallRegisterExit
  BY <1>5, <1>9, ExitRegStep DEF BranchRegisterExit, CallRegisterExit
<1>10. CASE ReasonExit
  <2>1. PICK why \in Reasons : Epilogue(ShapeAt(host).next, pin30, why)
    BY <1>10 DEF ReasonExit, Reasons
  <2> QED BY <1>5, <1>10, <2>1, EpilogueStep DEF ReasonExit
<1>11. CASE UNCHANGED vars
  <2>1. TypeOK' /\ HostOK'
    BY <1>11 DEF IInv, TypeOK, HostOK, Compiled, vars
  <2> QED BY <1>11, <2>1, QuietStep DEF vars
<1> QED
  BY <1>1, <1>2, <1>3, <1>4, <1>6, <1>7, <1>8, <1>9, <1>10, <1>11
     DEF Next, Dispatch, BlockExit

LEMMA Invariance == Spec => []IInv
BY InitOK, NextOK, PTL DEF Spec

\* Every variable of the dispatcher and of the generated code keeps its type.
THEOREM TypeCorrect == Spec => []TypeOK
<1>1. IInv => TypeOK
  BY DEF IInv
<1> QED BY <1>1, Invariance, PTL

\* A patched jump or a published cache slot never leads to anything but the
\* body of the block it is for: whatever the order blocks are compiled in and
\* however large the cache.
THEOREM ChainIsSound == Spec => []ChainSound
<1>1. IInv => ChainSound
  BY DEF IInv, ChainSound
<1> QED BY <1>1, Invariance, PTL

\* block_for forgets no site: each is linked, out of reach, or waiting.
THEOREM LinksAreComplete == Spec => []LinksComplete
<1>1. IInv => LinksComplete
  BY DEF IInv
<1> QED BY <1>1, Invariance, PTL

----------------------------------------------------------------------------
(* Links, once made, stay, and no step misses where there is one.          *)

LEMMA LinksStay ==
  IInv /\ [Next]_vars => \A s, t \in Addr : link[s][t] # None => link'[s][t] = link[s][t]
<1> SUFFICES ASSUME IInv, [Next]_vars, NEW s \in Addr, NEW t \in Addr, link[s][t] # None
             PROVE  link'[s][t] = link[s][t]
  OBVIOUS
<1>1. CASE Translate
  <2>1. link'[s] = LinksAfter(s)
    BY <1>1 DEF Translate
  <2>2. Compiled(s) /\ Compiled(t) /\ ~Compiled(pc)
    BY <1>1 DEF Translate, IInv, LinksSound
  <2> QED BY <2>1, <2>2 DEF LinksAfter, IInv, TypeOK
<1>2. CASE ~Translate
  <2>1. link' = link
    BY <1>2 DEF Next, Dispatch, NoCode, Enter, HostCall, HostStop, ServeSyscall,
       StopOnReason, Compute, GuardFault, BlockExit, BranchExit, CallExit, ReturnExit,
       BranchRegisterExit, CallRegisterExit, ReasonExit, tables, vars
  <2> QED BY <2>1
<1> QED BY <1>1, <1>2

\* The ways back to the dispatcher that exit_const has.
LEMMA MissesAreDue ==
  ASSUME IInv, InBlock, NEW t \in Targets(host), NEW v, ExitConst(t, v), host' = None
  PROVE  ~Compiled(pc') \/ <<host, pc'>> \notin Near \/ pc' = host
<1>1. host \in Addr /\ Compiled(host) /\ t \in Addr
  BY ShapeFacts DEF IInv, TypeOK, HostOK, InBlock
<1>2. CASE t \in Sites(host) /\ link[host][t] # None
  <2>1. link[host][t] = Body(t)
    BY <1>1, <1>2 DEF IInv, LinksSound
  <2>2. host' = t
    BY <1>2, <2>1 DEF ExitConst, Run, Body
  <2> QED BY <1>1, <2>2, NoneAssumption
<1>3. CASE ~(t \in Sites(host) /\ link[host][t] # None)
  <2>1. pc' = t
    BY <1>3 DEF ExitConst, Epilogue
  <2>2. CASE t \notin Sites(host)
    BY <1>1, <2>1, <2>2 DEF Sites, IInv, EntriesOK
  <2>3. CASE t \in Sites(host) /\ link[host][t] = None
    <3>1. Body(t) # None
      BY <1>1, NoneAssumption DEF Body, Entries
    <3> QED BY <1>1, <2>1, <2>3, <3>1 DEF IInv, LinksComplete
  <2> QED BY <1>3, <2>2, <2>3
<1> QED BY <1>2, <1>3

\* However the program branches and in whichever order its blocks are compiled:
\* a link stays, and a direct jump leaves translated code only where none can be
\* made yet or at all (exit_const, block_for).
THEOREM JumpsAreLearned == Spec => DirectJumpsAreLearned
<1>1. ASSUME IInv, Next, host # None, ShapeAt(host).term \notin Indirect,
             host' = None, exit_reason' = "none"
      PROVE  ~Compiled(pc') \/ <<host, pc'>> \notin Near \/ pc' = host
  <2>1. CASE BranchExit
    BY <1>1, <2>1, MissesAreDue DEF BranchExit, Targets
  <2>2. CASE CallExit
    BY <1>1, <2>2, MissesAreDue DEF CallExit, Targets
  <2>3. ~ReturnExit /\ ~BranchRegisterExit /\ ~CallRegisterExit /\ ~ReasonExit
    BY <1>1 DEF ReturnExit, BranchRegisterExit, CallRegisterExit, ReasonExit,
       Epilogue, Indirect
  <2>4. ~Dispatch
    BY <1>1 DEF Dispatch, Translate, NoCode, Enter, HostCall, HostStop, ServeSyscall,
       StopOnReason, Looping, Dispatching
  <2>5. ~Compute /\ ~GuardFault
    BY <1>1 DEF Compute, GuardFault
  <2> QED BY <1>1, <2>1, <2>2, <2>3, <2>4, <2>5 DEF Next, BlockExit
<1>2. IInv /\ [Next]_vars =>
        [/\ \A s, t \in Addr : link[s][t] # None => link'[s][t] = link[s][t]
         /\ /\ host # None /\ ShapeAt(host).term \notin Indirect
            /\ host' = None /\ exit_reason' = "none"
            => ~Compiled(pc') \/ <<host, pc'>> \notin Near \/ pc' = host]_vars
  BY <1>1, LinksStay
<1> QED BY <1>2, Invariance, PTL DEF Spec, DirectJumpsAreLearned

----------------------------------------------------------------------------
(* The only way to fall off the generated code.                            *)

\* A slot without a body passes the test for no address but 0.
LEMMA BarrenSlots ==
  ASSUME IInv, NEW t \in Addr \ {0}, tags[ProbeSlot(t)] = t
  PROVE  bodies[ProbeSlot(t)] # None
<1>1. ProbeSlot(t) \in Slots
  BY SlotsAgree, AddrAssumption
<1> QED BY <1>1 DEF IInv, SlotsOK

\* A crash comes from an indirect branch, through an untouched slot hit for 0.
LEMMA CrashStep ==
  ASSUME IInv, Next, outcome' = "crash"
  PROVE  /\ ShapeAt(host).term \in Indirect
         /\ ShapeAt(host).term = "ret" => pin30 = 0
         /\ bodies[ProbeSlot(0)] = None
<1>1. ~Dispatch
  BY DEF Dispatch, Translate, NoCode, Enter, HostCall, HostStop, ServeSyscall,
         StopOnReason, Looping, Dispatching
<1>2. ~(Compute \/ GuardFault \/ BranchExit \/ CallExit \/ ReasonExit)
  BY DEF Compute, GuardFault, BranchExit, CallExit, ReasonExit, InBlock
<1>3. ASSUME InBlock, NEW t \in Addr, NEW v, ExitReg(t, v)
      PROVE  t = 0 /\ bodies[ProbeSlot(t)] = None
  <2>1. WildHit(t)
    BY <1>3 DEF ExitReg, Hit, Miss, InBlock
  <2>2. ProbeSlot(t) \in Slots
    BY SlotsAgree, AddrAssumption
  <2> QED BY <2>1, <2>2 DEF WildHit, IInv, SlotsOK
<1>4. CASE ReturnExit
  <2>1. InBlock /\ pin30 \in Addr /\ ExitReg(pin30, pin30)
    BY <1>4 DEF ReturnExit, IInv, TypeOK
  <2>2. pin30 = 0 /\ bodies[ProbeSlot(pin30)] = None
    BY <1>3, <2>1
  <2> QED BY <1>4, <2>2 DEF ReturnExit, Indirect
<1>5. CASE BranchRegisterExit \/ CallRegisterExit
  <2>1. InBlock /\ ShapeAt(host).term \in {"br", "blr"}
    BY <1>5 DEF BranchRegisterExit, CallRegisterExit
  <2>2. PICK t \in Addr : \E v \in Addr : ExitReg(t, v)
    <3>1. pin30 \in Addr /\ ShapeAt(host).next \in Addr
      BY <2>1, ShapeFacts DEF InBlock, IInv, TypeOK
    <3> QED BY <1>5, <3>1 DEF BranchRegisterExit, CallRegisterExit
  <2>3. t = 0 /\ bodies[ProbeSlot(t)] = None
    BY <1>3, <2>1, <2>2
  <2> QED BY <2>1, <2>3 DEF Indirect
<1> QED BY <1>1, <1>2, <1>4, <1>5 DEF Next, BlockExit

\* If the engine's own jumps ever leave generated code, the guest branched
\* through a register to address 0 before any block claimed 0's slot; no other
\* address could have come through (exit_reg).
THEOREM CrashesAreNull == Spec => CrashOnlyThroughNull
<1>1. IInv /\ [Next]_vars =>
        [outcome' = "crash" =>
           /\ ShapeAt(host).term \in Indirect
           /\ ShapeAt(host).term = "ret" => pin30 = 0
           /\ bodies[ProbeSlot(0)] = None
           /\ \A t \in Addr \ {0} :
                tags[ProbeSlot(t)] = t => bodies[ProbeSlot(t)] # None]_vars
  BY CrashStep, BarrenSlots
<1> QED BY <1>1, Invariance, PTL DEF Spec, CrashOnlyThroughNull

----------------------------------------------------------------------------
(* Translated code implements the guest.  These are the values GuestFlow's *)
(* variables have in a state of BlockChain.                                *)

GuestPc     == IF host = None THEN pc ELSE host
GuestX30    == IF host = None THEN ctx30 ELSE pin30
GuestTrap   == exit_reason = "syscall"
GuestStatus == IF exit_reason = "memfault" THEN "fault"
               ELSE IF exit_reason = "undef" THEN "undef" ELSE outcome

LEMMA InitRefines == Init => Flow!FlowInit
BY DEF Init, Flow!FlowInit

\* While a block runs, the guest is executing the code at its start.
LEMMA InBlockMaps ==
  ASSUME IInv, InBlock, code' = code
  PROVE  /\ host \in Addr /\ pin30 \in Addr /\ exit_reason = "none"
         /\ GuestPc = host /\ GuestX30 = pin30
         /\ Flow!Executing
         /\ ShapeAt(host) = Flow!Shape
<1>1. host \in Addr /\ pin30 \in Addr /\ exit_reason = "none"
  BY DEF InBlock, IInv, TypeOK, HostOK
<1>2. ~IsThunk(host)
  BY <1>1 DEF InBlock, IInv, HostOK, EntriesOK
<1>3. GuestPc = host /\ GuestX30 = pin30
  BY DEF InBlock, GuestPc, GuestX30
<1>4. Flow!Executing
  BY <1>1, <1>2 DEF InBlock, IsThunk, Flow!Executing, Flow!IsThunk
<1>5. ShapeAt(host) = Flow!Shape
  BY DEF InBlock, ShapeAt, Flow!Shape, Flow!ShapeOf
<1> QED BY <1>1, <1>3, <1>4, <1>5

\* An exit to t with x30 = v takes the guest there, whichever way it goes.
Arrives(t, v) ==
  /\ GuestPc' = t
  /\ GuestX30' = v
  /\ exit_reason' = "none"
  /\ outcome' = "running"

LEMMA ExitConstArrives ==
  ASSUME IInv, InBlock, NEW t \in Targets(host), NEW v, ExitConst(t, v),
         outcome' = outcome
  PROVE  Arrives(t, v)
<1>1. host \in Addr /\ exit_reason = "none" /\ t \in Addr /\ t # None
  BY ShapeFacts, NoneAssumption DEF IInv, TypeOK, HostOK, InBlock
<1>2. CASE link[host][t] # None /\ t \in Sites(host)
  <2>1. link[host][t] = Body(t)
    BY <1>1, <1>2 DEF IInv, LinksSound
  <2> QED
    BY <1>1, <1>2, <2>1
       DEF ExitConst, Run, Body, Arrives, GuestPc, GuestX30, InBlock
<1>3. CASE ~(link[host][t] # None /\ t \in Sites(host))
  BY <1>1, <1>3 DEF ExitConst, Epilogue, Arrives, GuestPc, GuestX30, InBlock
<1> QED BY <1>2, <1>3

LEMMA ExitRegArrives ==
  ASSUME 0 \notin Addr, IInv, InBlock, NEW t \in Addr, NEW v, ExitReg(t, v)
  PROVE  Arrives(t, v)
<1>1. exit_reason = "none" /\ ProbeSlot(t) \in Slots /\ t # None
  BY SlotsAgree, AddrAssumption, NoneAssumption DEF IInv, HostOK, InBlock
<1>2. CASE Hit(t, v)
  <2>1. bodies[ProbeSlot(t)] = Body(t)
    BY <1>1, <1>2 DEF Hit, IInv, DmcSound
  <2> QED
    BY <1>1, <1>2, <2>1
       DEF Hit, Run, Body, Arrives, GuestPc, GuestX30, InBlock
<1>3. ~WildHit(t)
  BY <1>1 DEF WildHit, IInv, SlotsOK
<1>4. CASE Miss(t, v)
  BY <1>4 DEF Miss, Epilogue, Arrives, GuestPc, GuestX30, InBlock
<1> QED BY <1>2, <1>3, <1>4 DEF ExitReg

LEMMA NextRefines ==
  ASSUME 0 \notin Addr, IInv, [Next]_vars
  PROVE  [Flow!FlowNext]_(Flow!flowVars)
<1> USE DEF tables, dmc
<1>1. CASE Translate \/ Enter
  <2>1. UNCHANGED <<GuestPc, GuestX30, code, exit_reason, outcome>>
    BY <1>1, NoneAssumption
       DEF Translate, Enter, Run, Start, Looping, Dispatching, GuestPc,
           GuestX30, IInv, TypeOK
  <2> QED BY <2>1 DEF Flow!flowVars, GuestPc, GuestX30
<1>2. CASE NoCode \/ HostStop
  <2>1. Flow!Stop
    BY <1>2 DEF NoCode, HostStop, Looping, Dispatching, Flow!Stop
  <2> QED BY <2>1 DEF Flow!FlowNext
<1>3. CASE HostCall
  <2>1. Flow!Library
    BY <1>3 DEF HostCall, Looping, Dispatching, IsThunk, Flow!Library,
                Flow!IsThunk
  <2> QED BY <2>1 DEF Flow!FlowNext
<1>4. CASE ServeSyscall
  <2>1. CASE outcome' = "running"
    <3>1. Flow!ServeTrap
      BY <1>4, <2>1 DEF ServeSyscall, Dispatching, Flow!ServeTrap
    <3> QED BY <3>1 DEF Flow!FlowNext
  <2>2. CASE outcome' = "exited"
    <3>1. Flow!Stop
      BY <1>4, <2>2 DEF ServeSyscall, Dispatching, Flow!Stop
    <3> QED BY <3>1 DEF Flow!FlowNext
  <2> QED BY <1>4, <2>1, <2>2 DEF ServeSyscall
<1>5. CASE StopOnReason
  BY <1>5 DEF StopOnReason, Dispatching, Flow!flowVars
<1>6. CASE Compute
  <2>1. Flow!Retire
    BY <1>6, InBlockMaps DEF Compute, InBlock, Flow!Retire
  <2> QED BY <2>1 DEF Flow!FlowNext
<1>7. CASE GuardFault
  <2>1. Flow!Fault
    BY <1>7, InBlockMaps DEF GuardFault, InBlock, Flow!Fault
  <2> QED BY <2>1 DEF Flow!FlowNext
<1>8. CASE BranchExit
  <2>1. PICK t \in ShapeAt(host).exits : ExitConst(t, pin30)
    BY <1>8 DEF BranchExit
  <2>2. Arrives(t, pin30) /\ InBlock /\ code' = code
    BY <1>8, <2>1, ExitConstArrives DEF BranchExit, Targets
  <2>3. Flow!DirectBranch
    BY <2>1, <2>2, InBlockMaps
       DEF Arrives, InBlock, Flow!DirectBranch, GuestPc, GuestX30
  <2> QED BY <2>3 DEF Flow!FlowNext
<1>9. CASE CallExit
  <2>1. /\ Arrives(ShapeAt(host).to, ShapeAt(host).next)
        /\ InBlock /\ code' = code
    BY <1>9, ExitConstArrives DEF CallExit, Targets
  <2>2. Flow!Call
    BY <1>9, <2>1, InBlockMaps
       DEF CallExit, Arrives, InBlock, Flow!Call, GuestPc, GuestX30
  <2> QED BY <2>2 DEF Flow!FlowNext
<1>10. CASE ReturnExit
  <2>1. Arrives(pin30, pin30) /\ InBlock /\ code' = code
    BY <1>10, InBlockMaps, ExitRegArrives DEF ReturnExit
  <2>2. Flow!Return
    BY <1>10, <2>1, InBlockMaps
       DEF ReturnExit, Arrives, InBlock, Flow!Return, GuestPc, GuestX30
  <2> QED BY <2>2 DEF Flow!FlowNext
<1>11. CASE CallRegisterExit
  <2>1. PICK t \in Addr : ExitReg(t, ShapeAt(host).next)
    BY <1>11 DEF CallRegisterExit
  <2>2. Arrives(t, ShapeAt(host).next) /\ InBlock /\ code' = code
    BY <1>11, <2>1, ExitRegArrives DEF CallRegisterExit
  <2>3. Flow!CallRegister
    BY <1>11, <2>1, <2>2, InBlockMaps
       DEF CallRegisterExit, Arrives, InBlock, Flow!CallRegister, GuestPc,
           GuestX30
  <2> QED BY <2>3 DEF Flow!FlowNext
<1>12. CASE BranchRegisterExit
  <2>1. PICK t \in Addr : ExitReg(t, pin30)
    BY <1>12 DEF BranchRegisterExit
  <2>2. Arrives(t, pin30) /\ InBlock /\ code' = code
    BY <1>12, <2>1, ExitRegArrives DEF BranchRegisterExit
  <2>3. Flow!BranchRegister
    BY <1>12, <2>1, <2>2, InBlockMaps
       DEF BranchRegisterExit, Arrives, InBlock, Flow!BranchRegister, GuestPc,
           GuestX30
  <2> QED BY <2>3 DEF Flow!FlowNext
<1>13. CASE ReasonExit
  <2>1. InBlock /\ code' = code /\ outcome' = outcome
    BY <1>13 DEF ReasonExit
  <2>2. CASE ShapeAt(host).term = "svc"
    <3>1. Flow!Supervisor
      BY <1>13, <2>1, <2>2, InBlockMaps
         DEF ReasonExit, Epilogue, InBlock, Flow!Supervisor
    <3> QED BY <3>1 DEF Flow!FlowNext
  <2>3. CASE ShapeAt(host).term = "bad"
    <3>1. Flow!Undefined
      BY <1>13, <2>1, <2>3, InBlockMaps
         DEF ReasonExit, Epilogue, InBlock, Flow!Undefined
    <3> QED BY <3>1 DEF Flow!FlowNext
  <2>4. CASE ShapeAt(host).term = "fault"
    <3>1. Flow!Fault
      BY <1>13, <2>1, <2>4, InBlockMaps
         DEF ReasonExit, Epilogue, InBlock, Flow!Fault
    <3> QED BY <3>1 DEF Flow!FlowNext
  <2> QED BY <1>13, <2>2, <2>3, <2>4 DEF ReasonExit
<1>14. CASE UNCHANGED vars
  BY <1>14 DEF vars, Flow!flowVars
<1> QED
  BY <1>1, <1>2, <1>3, <1>4, <1>5, <1>6, <1>7, <1>8, <1>9, <1>10, <1>11,
     <1>12, <1>13, <1>14
     DEF Next, Dispatch, BlockExit

\* Whatever the program, the order of compilation, the size of the branch
\* cache and the reach of rel32, a guest that cannot branch to address 0 runs
\* under the translator as it would on its own.
THEOREM Refinement ==
  ASSUME 0 \notin Addr
  PROVE  Spec => ImplementsGuestFlow
<1>1. Init => Flow!FlowInit
  BY InitRefines
<1>2. IInv /\ [Next]_vars => [Flow!FlowNext]_(Flow!flowVars)
  BY NextRefines
<1> QED
  BY <1>1, <1>2, Invariance, PTL DEF Spec, ImplementsGuestFlow, Flow!FlowSpec
=============================================================================
