----------------------------- MODULE BlockFormer -----------------------------
(***************************************************************************)
(* How a block is formed (BlockBuilder::build and tr_branch) and what the  *)
(* host code of a block then does.  The builder reads guest instructions   *)
(* from the block's first one on, follows unconditional branches instead   *)
(* of ending the block at them, and stops at an instruction that leaves    *)
(* the block, at one it does not know, at the edge of the window or after  *)
(* MAX_BLOCK_INSNS instructions.                                           *)
(*                                                                         *)
(* The dispatcher builds each block it enters: that blocks are kept, and   *)
(* that exits jump from one to the next, is BlockChain's subject.          *)
(***************************************************************************)
EXTENDS Integers, Sequences

CONSTANTS
  Addr,        \* guest addresses the program can hold in its pc
  Window,      \* those inside the guest memory window
  ThunkBase,   \* addresses from here on are host functions
  MaxInsns,    \* MAX_BLOCK_INSNS
  Programs     \* guest programs: the instructions in the window

VARIABLES
  code,      \* the guest program
  pc,        \* cpu.pc
  lr,        \* x30
  svc,       \* exit_reason is kExitSyscall
  status,    \* how the run ended
  phase,     \* who runs: the dispatcher, the builder or the block
  next_pc,   \* build: the local pc,
  n,         \* the instructions translated,
  emitted,   \* and the host code so far
  ip         \* the host's place in it

vars == <<code, pc, lr, svc, status, phase, next_pc, n, emitted, ip>>

guest   == <<code, pc, lr, svc, status>>
builder == <<next_pc, n, emitted>>

\* In host code an instruction keeps the guest address it was translated
\* from; an exit_const has the address it leaves to.
At == IF phase = "block" THEN emitted[ip].at ELSE pc

Flow == INSTANCE InsnFlow WITH gpc <- At, x30 <- lr, trap <- svc

Ops == [op : {"plain", "br", "blr", "ret", "svc", "undef", "fault", "exit"}, at : Addr]
       \cup [op : {"bcond", "bl"}, at : Addr, to : Addr]

IsThunk(a) == a >= ThunkBase

ASSUME AddrAssumption ==
  /\ Addr \subseteq Int /\ Window \subseteq Addr /\ ThunkBase \in Int
  /\ \A a \in Window : a + 1 \in Addr /\ ~IsThunk(a) /\ ~IsThunk(a + 1)

ASSUME LimitAssumption == MaxInsns \in Nat \ {0}

ASSUME ProgramAssumption == Programs \subseteq [Window -> Flow!Insns]

Init ==
  /\ code \in Programs
  /\ pc \in Window
  /\ lr \in {a \in Addr : IsThunk(a)}    \* THUNK_EXIT
  /\ svc = FALSE /\ status = "running"
  /\ phase = "host"
  /\ next_pc = pc /\ n = 0 /\ emitted = <<>> /\ ip = 1

----------------------------------------------------------------------------
(* The dispatcher.                                                         *)

Dispatching == phase = "host" /\ status = "running"

HandleSyscall ==
  /\ Dispatching /\ svc
  /\ svc' = FALSE
  /\ status' \in {"running", "exited"}
  /\ UNCHANGED <<code, pc, lr, phase, builder, ip>>

HandleThunk ==
  /\ Dispatching /\ ~svc /\ IsThunk(pc)
  /\ \/ pc' = lr /\ status' = status
     \/ status' = "exited" /\ pc' = pc
  /\ UNCHANGED <<code, lr, svc, phase, builder, ip>>

BeginBuild ==
  /\ Dispatching /\ ~svc /\ ~IsThunk(pc)
  /\ phase' = "build"
  /\ next_pc' = pc /\ n' = 0 /\ emitted' = <<>> /\ ip' = 1
  /\ UNCHANGED guest

----------------------------------------------------------------------------
(* The loop of build.                                                      *)

Insn == code[next_pc]

Building == phase = "build" /\ UNCHANGED <<guest, ip>>
Fetching(op) == Building /\ next_pc \in Window /\ Insn.op = op

\* The loop is left, with one operation more.
Finish(op) ==
  /\ emitted' = Append(emitted, op)
  /\ phase' = "block"
  /\ UNCHANGED <<next_pc, n>>

\* Slip: the block is cut after the last instruction, one iteration too late.
CutsLate(k) == k = MaxInsns

\* Is iteration k the last?
Cuts(k) == k = MaxInsns - 1

\* Slip: n <= MAX_BLOCK_INSNS.
IsOverLate(k) == k = MaxInsns + 1

\* Is the loop over after k iterations?
IsOver(k) == k = MaxInsns

\* Step::kNext: on to a, or the end of the block there.
Continue(a, ops) ==
  /\ next_pc' = a
  /\ n' = n + 1
  /\ emitted' = IF Cuts(n) THEN Append(ops, [op |-> "exit", at |-> a]) ELSE ops
  /\ phase' = IF IsOver(n') THEN "block" ELSE "build"

\* exit_fault: nothing can be fetched, or it is not an instruction.
FetchFault == /\ Building /\ next_pc \notin Window
              /\ Finish([op |-> "fault", at |-> next_pc])
Unknown == Fetching("bad") /\ Finish([op |-> "undef", at |-> next_pc])

Straight ==
  /\ Fetching("plain")
  /\ Continue(next_pc + 1, Append(emitted, [op |-> "plain", at |-> next_pc]))

SideExit ==
  /\ Fetching("bcond")
  /\ Continue(next_pc + 1,
              Append(emitted, [op |-> "bcond", at |-> next_pc, to |-> Insn.to]))

\* Slip: branches to host functions are followed like any other.
FollowsThunks(a) == a \in Window \/ IsThunk(a)

\* Does translation go on at the target of a branch?
Follows(a) == a \in Window /\ ~IsThunk(a)

\* Slip: a branch that is followed is no instruction of the block.
FollowedUncounted(a) ==
  /\ next_pc' = a
  /\ phase' = IF IsOver(n) THEN "block" ELSE "build"
  /\ UNCHANGED <<n, emitted>>

\* jump_to = a; has_jump = true, and the loop goes there.
Followed(a) == Continue(a, emitted)

Jump ==
  /\ Fetching("b")
  /\ IF Follows(Insn.to) THEN Followed(Insn.to)
     ELSE Finish([op |-> "exit", at |-> Insn.to])

\* bl, br, blr, ret and svc end the block.
Ending ==
  \/ Fetching("bl") /\ Finish([op |-> "bl", at |-> next_pc, to |-> Insn.to])
  \/ \E op \in {"br", "blr", "ret", "svc"} :
       Fetching(op) /\ Finish([op |-> op, at |-> next_pc])

----------------------------------------------------------------------------
(* The host code of the block.                                             *)

Op == emitted[ip]

Running(op) ==
  /\ phase = "block" /\ ip <= Len(emitted) /\ Op.op = op
  /\ UNCHANGED <<code, builder>>

Leave(a) == pc' = a /\ phase' = "host" /\ UNCHANGED ip
Stay     == ip' = ip + 1 /\ UNCHANGED <<pc, phase>>

RunPlain == Running("plain") /\ Stay /\ UNCHANGED <<lr, svc, status>>

\* The exit_const under the skip label is taken, or skipped.
RunSideExit ==
  /\ Running("bcond")
  /\ Leave(Op.to) \/ Stay
  /\ UNCHANGED <<lr, svc, status>>

RunExit == Running("exit") /\ Leave(Op.at) /\ UNCHANGED <<lr, svc, status>>

RunCall == /\ Running("bl") /\ Leave(Op.to) /\ lr' = Op.at + 1
           /\ UNCHANGED <<svc, status>>

RunIndirect ==
  \/ Running("br") /\ (\E a \in Addr : Leave(a)) /\ UNCHANGED <<lr, svc, status>>
  \/ /\ Running("blr") /\ (\E a \in Addr : Leave(a)) /\ lr' = Op.at + 1
     /\ UNCHANGED <<svc, status>>
  \/ Running("ret") /\ Leave(lr) /\ UNCHANGED <<lr, svc, status>>

RunSvc == /\ Running("svc") /\ Leave(Op.at + 1) /\ svc' = TRUE
          /\ UNCHANGED <<lr, status>>

\* The dispatcher ends the run at an undefined instruction or a fault.
RunFault ==
  \/ Running("undef") /\ Leave(Op.at) /\ status' = "undef" /\ UNCHANGED <<lr, svc>>
  \/ Running("fault") /\ Leave(Op.at) /\ status' = "fault" /\ UNCHANGED <<lr, svc>>

----------------------------------------------------------------------------

Stopped == status # "running" /\ UNCHANGED vars

Dispatch == HandleSyscall \/ HandleThunk \/ BeginBuild
Build == FetchFault \/ Unknown \/ Straight \/ SideExit \/ Jump \/ Ending
RunBlock == RunPlain \/ RunSideExit \/ RunExit \/ RunCall \/ RunIndirect \/ RunSvc \/ RunFault

Next == Dispatch \/ Build \/ RunBlock \/ Stopped

Spec == Init /\ [][Next]_vars

\* The host thread is never suspended for good.
FairSpec == Spec /\ WF_vars(Next)

----------------------------------------------------------------------------
(* Properties.                                                             *)

TypeOK ==
  /\ code \in Programs
  /\ pc \in Addr /\ lr \in Addr /\ svc \in BOOLEAN
  /\ status \in {"running", "exited", "undef", "fault"}
  /\ phase \in {"host", "build", "block"}
  /\ next_pc \in Addr /\ n \in 0 .. MaxInsns
  /\ emitted \in Seq(Ops) /\ ip \in Nat \ {0}

\* The last operation of a finished block leaves it: the host never runs on
\* into the epilogue with the pc of an earlier exit, and enters no operation
\* behind the end (the loop of build, the cut at MAX_BLOCK_INSNS).
EndsInExit ==
  phase = "block" =>
    /\ ip \in 1 .. Len(emitted)
    /\ emitted[Len(emitted)].op \notin {"plain", "bcond"}

\* The guest cannot tell its blocks from its instructions: branches followed
\* at translation, side exits, cuts and the edge of the window included.
ImplementsInsnFlow == Flow!FlowSpec

\* However the program branches, also to itself, a block is finished and left
\* again: the builder does not follow a loop of branches for ever.
BlocksAreFinite == (phase # "host") ~> (phase = "host")
=============================================================================
