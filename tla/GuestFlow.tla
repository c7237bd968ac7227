------------------------------ MODULE GuestFlow ------------------------------
(***************************************************************************)
(* What the translated program must look like from the outside: the ARM64  *)
(* guest as its own processor would run it, with no blocks, no links, no   *)
(* caches and no pinned registers.  The state is the guest pc, the link    *)
(* register x30 (whose value decides where a return goes), whether a       *)
(* system call is waiting for the host, and whether the run is over.       *)
(*                                                                         *)
(* The guest program is given by its runs of code: code[a] is the run that *)
(* starts at address a, with                                               *)
(*   exits   the addresses it may branch to (b, b.cond, cbz, tbz),         *)
(*   term    how it ends when none of those branches is taken,             *)
(*   to      the callee, when it ends in a bl,                             *)
(*   next    the address it hands over at its end: the return address of a *)
(*           bl or blr, the pc after an svc, the pc that cannot be executed*)
(***************************************************************************)
EXTENDS Naturals

CONSTANTS
  Addr,        \* guest addresses the program can hold in its pc
  Window,      \* those from which an instruction can be fetched
  ThunkBase    \* addresses from here on are host functions

VARIABLES code, gpc, x30, trap, status

flowVars == <<code, gpc, x30, trap, status>>

Terms == {"branch", "bl", "br", "blr", "ret", "svc", "bad", "fault"}

Shapes == [exits : SUBSET Addr, term : Terms, to : Addr, next : Addr]

IsThunk(a) == a >= ThunkBase

\* Outside the window there is nothing to execute: the fetch itself faults.
ShapeOf(prog, a) ==
  IF a \in Window THEN prog[a]
  ELSE [exits |-> {}, term |-> "fault", to |-> a, next |-> a]

Shape == ShapeOf(code, gpc)

FlowInit ==
  /\ gpc \in Window
  /\ x30 \in Addr
  /\ trap = FALSE
  /\ status = "running"

\* The guest executes code of its own.
Executing ==
  /\ status = "running" /\ ~trap /\ ~IsThunk(gpc)
  /\ UNCHANGED code

\* Instructions that do not branch may load the link register.
Retire ==
  /\ Executing
  /\ x30' \in Addr
  /\ UNCHANGED <<gpc, trap, status>>

DirectBranch ==
  /\ Executing
  /\ gpc' \in Shape.exits
  /\ UNCHANGED <<x30, trap, status>>

Call ==
  /\ Executing
  /\ Shape.term = "bl"
  /\ gpc' = Shape.to
  /\ x30' = Shape.next
  /\ UNCHANGED <<trap, status>>

\* br, or a ret through a register other than x30: the target is in any register.
BranchRegister ==
  /\ Executing
  /\ Shape.term = "br"
  /\ gpc' \in Addr
  /\ UNCHANGED <<x30, trap, status>>

\* blr: so is the callee.
CallRegister ==
  /\ Executing
  /\ Shape.term = "blr"
  /\ gpc' \in Addr
  /\ x30' = Shape.next
  /\ UNCHANGED <<trap, status>>

Return ==
  /\ Executing
  /\ Shape.term = "ret"
  /\ gpc' = x30
  /\ UNCHANGED <<x30, trap, status>>

\* svc: the host is called with the pc already past the instruction.
Supervisor ==
  /\ Executing
  /\ Shape.term = "svc"
  /\ gpc' = Shape.next
  /\ trap' = TRUE
  /\ UNCHANGED <<x30, status>>

ServeTrap ==
  /\ status = "running" /\ trap
  /\ trap' = FALSE
  /\ UNCHANGED <<code, gpc, x30, status>>

\* A library function runs on the host and returns through the link register.
Library ==
  /\ status = "running" /\ ~trap /\ IsThunk(gpc)
  /\ gpc' = x30
  /\ UNCHANGED <<code, x30, trap, status>>

\* exit(), a return from main, a call the host does not know, or a host that
\* cannot take more code.
Stop ==
  /\ status = "running"
  /\ status' \in {"exited", "nocode"}
  /\ trap' = FALSE
  /\ UNCHANGED <<code, gpc, x30>>

\* Memory the guest does not have: at a fetch, or at an access by its code.
Fault ==
  /\ Executing
  /\ status' = "fault"
  /\ \/ gpc' = gpc
     \/ Shape.term = "fault" /\ gpc' = Shape.next
  /\ UNCHANGED <<x30, trap>>

\* The run ends in an instruction nobody can execute.
Undefined ==
  /\ Executing
  /\ Shape.term = "bad"
  /\ status' = "undef"
  /\ gpc' = Shape.next
  /\ UNCHANGED <<x30, trap>>

FlowNext ==
  \/ Retire \/ DirectBranch \/ Call \/ BranchRegister \/ CallRegister
  \/ Return \/ Supervisor \/ ServeTrap \/ Library \/ Stop \/ Fault \/ Undefined

FlowSpec == FlowInit /\ [][FlowNext]_flowVars
=============================================================================
