------------------------------ MODULE InsnFlow ------------------------------
(***************************************************************************)
(* The guest instruction by instruction, as its own processor runs it: the *)
(* pc, the link register, a pending system call, whether the run is over.  *)
(* What an instruction computes is left out, and an unconditional branch   *)
(* shows in nothing but the pc, so that the pc may move on through such    *)
(* branches in the step that reaches them.                                 *)
(*                                                                         *)
(* An address counts instructions: the next one is at a + 1.               *)
(***************************************************************************)
EXTENDS Integers

CONSTANTS
  Addr,        \* guest addresses the program can hold in its pc
  Window,      \* those from which an instruction can be fetched
  ThunkBase    \* addresses from here on are host functions

VARIABLES code, gpc, x30, trap, status

flowVars == <<code, gpc, x30, trap, status>>

\* cbz, tbz and b.cond are bcond; plain are all that do not branch.
Insns == [op : {"b", "bcond", "bl"}, to : Addr]
         \cup [op : {"plain", "br", "blr", "ret", "svc", "bad"}]

IsThunk(a) == a >= ThunkBase

\* Sets of addresses that no unconditional branch leads out of.
Closed(S) == \A x \in S \cap Window : code[x].op = "b" => code[x].to \in S

\* Where control gets from a through unconditional branches alone.
Through(a) == {c \in Addr : \A S \in SUBSET Addr : a \in S /\ Closed(S) => c \in S}

FlowInit ==
  /\ gpc \in Window
  /\ x30 \in Addr
  /\ trap = FALSE
  /\ status = "running"

Executing(op) ==
  /\ status = "running" /\ ~trap /\ gpc \in Window
  /\ code[gpc].op = op
  /\ UNCHANGED <<code, status>>

GoTo(a) == gpc' \in Through(a)

Plain == Executing("plain") /\ GoTo(gpc + 1) /\ UNCHANGED <<x30, trap>>

Branch == Executing("b") /\ GoTo(gpc) /\ UNCHANGED <<x30, trap>>

BranchIf ==
  /\ Executing("bcond")
  /\ GoTo(code[gpc].to) \/ GoTo(gpc + 1)
  /\ UNCHANGED <<x30, trap>>

Call ==
  /\ Executing("bl")
  /\ GoTo(code[gpc].to) /\ x30' = gpc + 1
  /\ UNCHANGED trap

\* br and blr: the target is in some other register.
BranchRegister ==
  /\ Executing("br")
  /\ \E a \in Addr : GoTo(a)
  /\ UNCHANGED <<x30, trap>>

CallRegister ==
  /\ Executing("blr")
  /\ x30' = gpc + 1
  /\ \E a \in Addr : GoTo(a)
  /\ UNCHANGED trap

Return == Executing("ret") /\ GoTo(x30) /\ UNCHANGED <<x30, trap>>

\* The host is called with the pc past the instruction.
Supervisor ==
  /\ Executing("svc")
  /\ gpc' = gpc + 1 /\ trap' = TRUE
  /\ UNCHANGED x30

ServeTrap ==
  /\ status = "running" /\ trap
  /\ trap' = FALSE /\ GoTo(gpc)
  /\ UNCHANGED <<code, x30, status>>

Undefined ==
  /\ status = "running" /\ ~trap /\ gpc \in Window
  /\ code[gpc].op = "bad"
  /\ status' = "undef"
  /\ UNCHANGED <<code, gpc, x30, trap>>

\* There is no instruction to fetch.
Fault ==
  /\ status = "running" /\ ~trap /\ gpc \notin Window /\ ~IsThunk(gpc)
  /\ status' = "fault"
  /\ UNCHANGED <<code, gpc, x30, trap>>

\* A host function returns through the link register, or ends the run.
Library ==
  /\ status = "running" /\ ~trap /\ IsThunk(gpc)
  /\ GoTo(x30)
  /\ UNCHANGED <<code, x30, trap, status>>

Exit ==
  /\ status = "running" /\ (trap \/ IsThunk(gpc))
  /\ status' = "exited" /\ trap' = FALSE
  /\ UNCHANGED <<code, gpc, x30>>

FlowNext ==
  \/ Plain \/ Branch \/ BranchIf \/ Call \/ BranchRegister \/ CallRegister \/ Return
  \/ Supervisor \/ ServeTrap \/ Undefined \/ Fault \/ Library \/ Exit

FlowSpec == FlowInit /\ [][FlowNext]_flowVars
=============================================================================
