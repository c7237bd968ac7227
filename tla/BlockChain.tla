------------------------------ MODULE BlockChain ------------------------------
(***************************************************************************)
(* The dispatcher, the block cache and the three ways translated code gets *)
(* from one block to the next without the dispatcher: jmp rel32 sites      *)
(* patched to the target's body (Emu::block_for, exit_const), the          *)
(* direct-mapped pc -> body cache that block prologues fill and br/blr/ret *)
(* read (exit_reg), and the pinned registers that stay in host registers   *)
(* across such jumps.  The pinned register modelled is x30, the one whose  *)
(* value the host itself branches on.                                      *)
(*                                                                         *)
(* Everything runs on one host thread: a step is either the dispatcher's   *)
(* (host = None) or that of the block whose translation is running.        *)
(***************************************************************************)
EXTENDS Naturals

CONSTANTS
  Addr,        \* guest addresses the program can hold in its pc
  Window,      \* those inside the guest memory window
  ThunkBase,   \* addresses from here on are host functions
  DmcSize,     \* slots of the direct-mapped cache (DMC_SIZE)
  Programs,    \* guest programs: shapes of the blocks that start in Window
  Near,        \* pairs <<a, b>>: b's code is within rel32 reach of a's
  None         \* no block, no entry: the dispatcher, a null pointer

ASSUME AddrAssumption ==
  /\ Addr \subseteq Nat /\ Window \subseteq Addr
  /\ ThunkBase \in Nat
  /\ \A a \in Window : a < ThunkBase

ASSUME DmcAssumption == DmcSize \in Nat \ {0}

ASSUME NearAssumption == Near \subseteq Addr \X Addr

VARIABLES
  code,         \* the guest program: the shape of each of its blocks
  pc,           \* cpu.pc
  ctx30,        \* cpu.x[30], the context's copy of the pinned register
  exit_reason,  \* cpu.exit_reason
  host,         \* the block whose body the host executes, None: the dispatcher
  pin30,        \* rbp, the host register the pin lives in
  block_entry,  \* pc -> body address, for compiled blocks (and blocks)
  pending,      \* pending_patches: target -> blocks holding a waiting site
  link,         \* link[s][t]: where s's jmp to t goes; None: the miss path
  tags, bodies, \* chain_tbl
  outcome       \* how the run ended

vars == <<code, pc, ctx30, exit_reason, host, pin30, block_entry, pending,
          link, tags, bodies, outcome>>

tables == <<block_entry, pending, link>>
dmc    == <<tags, bodies>>

Reasons  == {"none", "memfault", "undef", "syscall"}
Outcomes == {"running", "exited", "nocode", "fault", "undef", "crash"}

\* An address in generated code: the start of a block's prologue or its body.
Entries == [block : Addr, part : {"start", "body"}]
Start(a) == [block |-> a, part |-> "start"]
Body(a)  == [block |-> a, part |-> "body"]

Flow == INSTANCE GuestFlow WITH
  gpc    <- IF host = None THEN pc ELSE host,
  x30    <- IF host = None THEN ctx30 ELSE pin30,
  trap   <- exit_reason = "syscall",
  status <- IF exit_reason = "memfault" THEN "fault"
            ELSE IF exit_reason = "undef" THEN "undef" ELSE outcome

ASSUME ProgramAssumption == Programs \subseteq [Window -> Flow!Shapes]

ASSUME NoneAssumption == None \notin Addr /\ None \notin Entries

IsThunk(a) == a >= ThunkBase

Compiled(a) == block_entry[a] # None

\* What build() turns the code at a into: outside the window, a block that
\* only reports the fault.
ShapeAt(a) ==
  IF a \in Window THEN code[a]
  ELSE [exits |-> {}, term |-> "fault", to |-> a, next |-> a]

\* The known targets of a block, those a jmp rel32 is emitted for first.
Targets(a) == ShapeAt(a).exits \cup
              (IF ShapeAt(a).term = "bl" THEN {ShapeAt(a).to} ELSE {})
Sites(a) == {t \in Targets(a) : ~IsThunk(t)}

\* Slip: the slot by the byte address, instructions not taken to be 4 bytes.
PublishByByte(a) == a % DmcSize

\* The slot a prologue publishes its block in, and the one exit_reg looks in:
\* the byte offset it masks out of the pc, over the size of an instruction.
PublishSlot(a) == (a \div 4) % DmcSize
ProbeSlot(a)   == (a % (DmcSize * 4)) \div 4

Slots == 0 .. DmcSize - 1

Init ==
  /\ code \in Programs
  /\ pc \in Window
  /\ ctx30 \in {a \in Addr : IsThunk(a)}       \* LR = THUNK_EXIT
  /\ exit_reason = "none"
  /\ host = None
  /\ pin30 = ctx30
  /\ block_entry = [a \in Addr |-> None]
  /\ pending = [a \in Addr |-> {}]
  /\ link = [a \in Addr |-> [b \in Addr |-> None]]
  /\ tags = [i \in Slots |-> 0]
  /\ bodies = [i \in Slots |-> None]
  /\ outcome = "running"

----------------------------------------------------------------------------
(* Moving between the dispatcher and translated code.                      *)

\* Control reaches entry e with the pin holding v.  A prologue publishes its
\* block in the DMC and loads the pin from the context; a body does neither.
Run(e, v) ==
  /\ host' = e.block
  /\ IF e.part = "start"
     THEN /\ tags' = [tags EXCEPT ![PublishSlot(e.block)] = e.block]
          /\ bodies' = [bodies EXCEPT ![PublishSlot(e.block)] = Body(e.block)]
          /\ pin30' = ctx30
     ELSE pin30' = v /\ UNCHANGED dmc
  /\ UNCHANGED <<pc, ctx30, exit_reason>>

\* Slip: the pinned register is not written back to the context.
EpilogueUnspilled(target, v, why) ==
  /\ host' = None
  /\ pc' = target
  /\ pin30' = v
  /\ exit_reason' = why
  /\ UNCHANGED <<ctx30, dmc>>

\* The epilogue: store the exit's pc and reason, spill the pin, return.
Epilogue(target, v, why) ==
  /\ host' = None
  /\ pc' = target
  /\ pin30' = v
  /\ ctx30' = v
  /\ exit_reason' = why
  /\ UNCHANGED dmc

----------------------------------------------------------------------------
(* The dispatcher.                                                         *)

Dispatching == outcome = "running" /\ host = None

\* Wait for the top of the loop: the last block's exit has been looked at.
Looping == Dispatching /\ exit_reason = "none"

\* A site of a that jumps to t, patched to t's entry e if rel32 reaches it.
Patched(a, t, e) == IF <<a, t>> \in Near THEN e ELSE None

\* Slip: the new block is linked to old ones, old ones are not patched to it.
LinksForwardOnly(s) ==
  IF s = pc
  THEN [t \in Addr |-> IF t \in Sites(pc) /\ Compiled(t)
                       THEN Patched(pc, t, block_entry[t]) ELSE None]
  ELSE link[s]

\* The jumps of block s once pc's block is in place: pc's own sites go to the
\* targets that are there already, and sites that waited for pc get patched.
LinksAfter(s) ==
  IF s = pc
  THEN [t \in Addr |-> IF t \in Sites(pc) /\ Compiled(t)
                       THEN Patched(pc, t, block_entry[t]) ELSE None]
  ELSE IF s \in pending[pc]
  THEN [link[s] EXCEPT ![pc] = Patched(s, pc, Body(pc))]
  ELSE link[s]

\* The sites waiting for t: pc's list is done with, pc's own sites join the
\* lists of the targets that have no entry.
WaitingAfter(t) ==
  (IF t = pc THEN {} ELSE pending[t]) \cup
  (IF t \in Sites(pc) /\ ~Compiled(t) THEN {pc} ELSE {})

\* block_for on a miss, after build() and rt.add().  The entry is registered
\* last: the look-ups above do not see it yet.
Translate ==
  /\ Looping
  /\ ~IsThunk(pc) /\ ~Compiled(pc)
  /\ link' = [s \in Addr |-> LinksAfter(s)]
  /\ pending' = [t \in Addr |-> WaitingAfter(t)]
  /\ block_entry' = [block_entry EXCEPT ![pc] = Body(pc)]
  /\ UNCHANGED <<code, pc, ctx30, exit_reason, host, pin30, tags, bodies,
                 outcome>>

\* code.init or rt.add fails: exit code 70.
NoCode ==
  /\ Looping
  /\ ~IsThunk(pc) /\ ~Compiled(pc)
  /\ outcome' = "nocode"
  /\ UNCHANGED <<code, pc, ctx30, exit_reason, host, pin30, tables, dmc>>

\* fn(&cpu)
Enter ==
  /\ Looping
  /\ ~IsThunk(pc) /\ Compiled(pc)
  /\ Run(Start(pc), ctx30)
  /\ UNCHANGED <<code, tables, outcome>>

\* Slip: the instruction after the one LR names.
HostCallPastLr ==
  /\ Looping
  /\ IsThunk(pc)
  /\ pc' = ctx30 + 4
  /\ UNCHANGED <<code, ctx30, exit_reason, host, pin30, tables, dmc, outcome>>

\* handle_thunk, for a function that returns via LR.
HostCall ==
  /\ Looping
  /\ IsThunk(pc)
  /\ pc' = ctx30
  /\ UNCHANGED <<code, ctx30, exit_reason, host, pin30, tables, dmc, outcome>>

\* handle_thunk, for the return from main, exit(), an import that has no
\* implementation, or an address past the last thunk.
HostStop ==
  /\ Looping
  /\ IsThunk(pc)
  /\ outcome' = "exited"
  /\ UNCHANGED <<code, pc, ctx30, exit_reason, host, pin30, tables, dmc>>

\* handle_syscall: write returns to the loop, exit and unknown numbers end it.
ServeSyscall ==
  /\ Dispatching
  /\ exit_reason = "syscall"
  /\ exit_reason' = "none"
  /\ outcome' \in {"running", "exited"}
  /\ UNCHANGED <<code, pc, ctx30, host, pin30, tables, dmc>>

\* The loop breaks on a reported fault or an unknown instruction.
StopOnReason ==
  /\ Dispatching
  /\ \/ exit_reason = "memfault" /\ outcome' = "fault"
     \/ exit_reason = "undef" /\ outcome' = "undef"
  /\ UNCHANGED <<code, pc, ctx30, exit_reason, host, pin30, tables, dmc>>

Dispatch == Translate \/ NoCode \/ Enter \/ HostCall \/ HostStop
            \/ ServeSyscall \/ StopOnReason

----------------------------------------------------------------------------
(* Translated code.                                                        *)

InBlock == outcome = "running" /\ host # None

\* Instructions that load x30 (ldp, ldr, mov): only the pin changes.
Compute ==
  /\ InBlock /\ host \in Window
  /\ pin30' \in Addr
  /\ UNCHANGED <<code, pc, ctx30, exit_reason, host, tables, dmc, outcome>>

\* Slip: the place noted for the patch is not that of the jump's rel32.
ExitConstUnpatched(t, v) == Epilogue(t, v, "none")

\* exit_const: the patched jump, or the miss path behind it.
ExitConst(t, v) ==
  IF t \in Sites(host) /\ link[host][t] # None
  THEN Run(link[host][t], v)
  ELSE Epilogue(t, v, "none")

\* b.cond, cbz, tbz, a b that leaves the window, a block cut at its limit.
BranchExit ==
  /\ InBlock
  /\ \E t \in ShapeAt(host).exits : ExitConst(t, pin30)
  /\ UNCHANGED <<code, tables, outcome>>

CallExit ==
  /\ InBlock
  /\ ShapeAt(host).term = "bl"
  /\ ExitConst(ShapeAt(host).to, ShapeAt(host).next)
  /\ UNCHANGED <<code, tables, outcome>>

\* exit_reg on a tag that matches: jump where the body word says.
Hit(t, v) ==
  /\ tags[ProbeSlot(t)] = t
  /\ bodies[ProbeSlot(t)] # None
  /\ Run(bodies[ProbeSlot(t)], v)
  /\ UNCHANGED outcome

\* Slip: an empty slot is jumped through without a look at its tag.
WildHitUntagged(t) ==
  /\ bodies[ProbeSlot(t)] = None
  /\ outcome' = "crash"
  /\ UNCHANGED <<pc, ctx30, exit_reason, host, pin30, dmc>>

\* The tag matches a slot nothing was published in: a jump to host address 0,
\* a fault outside the guards, which the handler gives back to the system.
WildHit(t) ==
  /\ tags[ProbeSlot(t)] = t
  /\ bodies[ProbeSlot(t)] = None
  /\ outcome' = "crash"
  /\ UNCHANGED <<pc, ctx30, exit_reason, host, pin30, dmc>>

Miss(t, v) ==
  /\ tags[ProbeSlot(t)] # t
  /\ Epilogue(t, v, "none")
  /\ UNCHANGED outcome

ExitReg(t, v) == Hit(t, v) \/ WildHit(t) \/ Miss(t, v)

\* ret through x30
ReturnExit ==
  /\ InBlock
  /\ ShapeAt(host).term = "ret"
  /\ ExitReg(pin30, pin30)
  /\ UNCHANGED <<code, tables>>

\* br, or ret, through any register: x30 stays as it is.
BranchRegisterExit ==
  /\ InBlock
  /\ ShapeAt(host).term = "br"
  /\ \E t \in Addr : ExitReg(t, pin30)
  /\ UNCHANGED <<code, tables>>

\* blr, through any register: the target is read before x30 is set.
CallRegisterExit ==
  /\ InBlock
  /\ ShapeAt(host).term = "blr"
  /\ \E t \in Addr : ExitReg(t, ShapeAt(host).next)
  /\ UNCHANGED <<code, tables>>

\* svc, an unknown instruction, a fetch outside the window.
ReasonExit ==
  /\ InBlock
  /\ LET sh == ShapeAt(host)
         leave(why) == Epilogue(sh.next, pin30, why)
     IN \/ sh.term = "svc" /\ leave("syscall")
        \/ sh.term = "bad" /\ leave("undef")
        \/ sh.term = "fault" /\ leave("memfault")
  /\ UNCHANGED <<code, tables, outcome>>

\* A guest access hits a guard page: the handler sets the reason and jumps
\* back into run() over the epilogue; the context keeps its old pc and x30.
GuardFault ==
  /\ InBlock /\ host \in Window
  /\ exit_reason' = "memfault"
  /\ outcome' = "fault"
  /\ UNCHANGED <<code, pc, ctx30, host, pin30, tables, dmc>>

BlockExit == BranchExit \/ CallExit \/ ReturnExit \/ BranchRegisterExit
             \/ CallRegisterExit \/ ReasonExit

Next == Dispatch \/ Compute \/ BlockExit \/ GuardFault

Spec == Init /\ [][Next]_vars

\* The one host thread runs on: the dispatcher's loop does its next step, and
\* a block is straight-line code, so it gets to one of its exits.
FairSpec == Spec /\ WF_vars(Dispatch) /\ WF_vars(BlockExit)

----------------------------------------------------------------------------
(* Properties.                                                             *)

TypeOK ==
  /\ code \in [Window -> Flow!Shapes]
  /\ pc \in Addr /\ ctx30 \in Addr /\ pin30 \in Addr
  /\ exit_reason \in Reasons
  /\ host \in Addr \cup {None}
  /\ block_entry \in [Addr -> Entries \cup {None}]
  /\ pending \in [Addr -> SUBSET Addr]
  /\ link \in [Addr -> [Addr -> Entries \cup {None}]]
  /\ tags \in [Slots -> Addr \cup {0}]
  /\ bodies \in [Slots -> Entries \cup {None}]
  /\ outcome \in Outcomes

\* The guest cannot tell it is being translated: whatever the blocks, links,
\* cache slots and pins, control and x30 move as the guest's own code says
\* (README: blocks run "as a self-contained web of directly linked native
\* blocks", pins "are synced with the CPU context only on dispatcher
\* entry/exit").
ImplementsGuestFlow == Flow!FlowSpec

\* No patch is forgotten, in whichever order blocks get compiled: a site
\* within reach goes to its target's body once both blocks exist, and a site
\* whose target does not exist yet is on that target's waiting list.
\* (block_for; a block's jump to itself is left aside, see LinkedOnceCompiled.)
LinksComplete ==
  \A s \in Addr : \A t \in Sites(s) \ {s} :
    Compiled(s) =>
      IF Compiled(t)
      THEN <<s, t>> \in Near => link[s][t] = Body(t)
      ELSE s \in pending[t]

\* What the patched jumps and the branch cache hold is never stale: a link
\* goes to the body of a compiled block that is the site's own target, and a
\* published slot holds the body of the very pc in its tag, where a probe for
\* that pc looks (exit_const, exit_reg, the prologue).
LinksSound ==
  \A s, t \in Addr : link[s][t] # None =>
    /\ Compiled(s) /\ Compiled(t)
    /\ t \in Sites(s)
    /\ link[s][t] = Body(t)

DmcSound ==
  \A i \in Slots : bodies[i] # None =>
    /\ tags[i] \in Addr
    /\ bodies[i] = Body(tags[i])
    /\ Compiled(tags[i])
    /\ ProbeSlot(tags[i]) = i

ChainSound == LinksSound /\ DmcSound

\* "Direct block links ... a jmp rel32 that gets patched to the target block
\* body once it is compiled" (emu.h), taken at its word.
LinkedOnceCompiled ==
  \A s \in Addr : \A t \in Sites(s) :
    Compiled(s) /\ Compiled(t) /\ <<s, t>> \in Near => link[s][t] = Body(t)

\* Ends of blocks whose target is in a register: what probes the DMC.
Indirect == {"br", "blr", "ret"}

\* The engine's own jumps leave generated code in one case only: an indirect
\* branch to address 0 while no block has claimed 0's slot, which takes it for
\* a hit, as its tag is 0 (exit_reg, Emu::init_chains).  No other target
\* passes the test of a slot without a body, whatever the register holds.
CrashOnlyThroughNull ==
  [][outcome' = "crash" =>
       /\ ShapeAt(host).term \in Indirect
       /\ ShapeAt(host).term = "ret" => pin30 = 0
       /\ bodies[ProbeSlot(0)] = None
       /\ \A t \in Addr \ {0} :
            tags[ProbeSlot(t)] = t => bodies[ProbeSlot(t)] # None]_vars

\* Programs of direct branches only, none of a block to its own start.
DirectOnly ==
  \A a \in Window :
    /\ code[a].term \in {"branch", "bl"}
    /\ Targets(a) \subseteq Window \ {a}
    /\ \A t \in Targets(a) : <<a, t>> \in Near

\* A jump to a known address is learned once and for all: a link that has been
\* made stays as it is, and a block that ends in no indirect branch comes back to
\* run() only for a block that does not exist yet, one out of rel32 reach, or
\* itself (exit_const's miss path, block_for).
DirectJumpsAreLearned ==
  [][/\ \A s, t \in Addr : link[s][t] # None => link'[s][t] = link[s][t]
     /\ /\ host # None /\ ShapeAt(host).term \notin Indirect
        /\ host' = None /\ exit_reason' = "none"
        => ~Compiled(pc') \/ <<host, pc'>> \notin Near \/ pc' = host]_vars

\* "Hot paths never return to the dispatcher" (README): a program of direct
\* branches comes back to run() only while it meets new blocks or branches.
HotPathsStayChained ==
  DirectOnly => <>[](host # None \/ outcome # "running")
=============================================================================
