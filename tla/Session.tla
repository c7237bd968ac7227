------------------------------ MODULE Session ------------------------------
(***************************************************************************)
(* A whole session: main loads a binary (Loader) and runs it (Emu::run):   *)
(* the arguments are laid out above the stack, then the loop serves what   *)
(* translated code comes back with: a pc that is a thunk, a system call, a *)
(* fault, until there is an exit code.  The guest may ask for anything at  *)
(* any time; how its own control flow is kept is BlockChain's matter.      *)
(***************************************************************************)
EXTENDS Loader

CONSTANTS
  StackTopOff, \* STACK_TOP_OFF
  ArgvArea,    \* ARGV_AREA
  ArgLists,    \* argument lists: sequences of strings, each with its end
  HostFns,     \* names in g_host_fns
  Exits,       \* those that are hf_exit,
  Aborts,      \* those that are hf_abort, hf_stack_chk_fail or hf_assert_rtn
  Values,      \* arguments and results
  IntSize,     \* number of values of an int
  Touched,     \* places outside the window the guest loads from or stores to
  Wild,        \* places outside the code the guest jumps to
  MaxSaid      \* bound: what the guest asks for before it ends

\* What a guest may ask for beside functions, none of which is a name.
Requests == {"svc exit", "svc write", "svc other", "nowhere", "no instruction", "own code"}

ASSUME StackAssumption ==
  /\ StackTopOff \in Nat /\ ArgvArea \in Nat
  /\ ArgvArea % Ptr = 0
  /\ HeapOff + HeapSize + ArgvArea <= StackTopOff
  /\ \A l \in ArgLists : StackTopOff + Grain + (Len(l) + 3) * Ptr <= WindowSize

ASSUME GuestAssumption ==
  /\ \A l \in ArgLists : l \in Seq(Seq(Nat))
  /\ 0 \in Values /\ Values \subseteq Nat /\ IntSize \in Nat \ {0}
  /\ Touched \subseteq Words \ Cells /\ Wild \subseteq Nat \ Cells
  /\ Exits \cup Aborts \subseteq HostFns /\ HostFns \subseteq CNames

\* No binary calls a function by the name of the engine's own thunk.
ASSUME OwnAssumption ==
  /\ ExitName.stem \notin Requests /\ ExitName \notin HostFns
  /\ \A name \in HostFns : name.stem \notin Requests
  /\ \A im \in Images : \A a \in DOMAIN im.pointers : im.pointers[a].name.stem \notin Requests

VARIABLES
  args,        \* guest_args
  cursor,      \* where the next string goes
  argv_ptrs,   \* where the strings went
  regs,        \* x0 to x3 and sp as main gets them
  x0, x16,     \* the registers the dispatcher looks at
  pc, exit_reason, fault_addr, exit_code,
  touched,     \* the place outside the window an access was for, or None
  calling,     \* what the guest asked for and has not got yet
  said         \* what it got

runVars == <<cursor, argv_ptrs, regs, x0, x16, pc, exit_reason, fault_addr,
             exit_code, touched, calling, said>>
vars == <<loaderVars, args, runVars>>

Code == Base                    \* stands for every pc in the guest's own code

Special(what) == [lead |-> 0, stem |-> what]
SysExit  == Special("svc exit")
SysWrite == Special("svc write")
SysOther == Special("svc other")
Nowhere  == Special("nowhere")
NoInsn   == Special("no instruction")
Own      == [name |-> Special("own code"), arg |-> 0]

StackTop == Base + StackTopOff
Info     == StackTop - ArgvArea

Aligned(a, n) == ((a + (n - 1)) \div n) * n

----------------------------------------------------------------------------

Init ==
  /\ LoadInit
  /\ args \in ArgLists
  /\ cursor = Info /\ argv_ptrs = <<>>
  /\ regs = <<>> /\ x0 = 0 /\ x16 = SysOther
  /\ pc = Code /\ exit_reason = "none" /\ fault_addr = 0 /\ exit_code = 0
  /\ touched = None /\ calling = Own /\ said = <<>>

LoadStep == Load /\ UNCHANGED <<args, runVars>>

----------------------------------------------------------------------------
(* run, before the loop.                                                   *)

\* Slip: strings are aligned as the stack is.
PastGrains(str) == cursor + Aligned(Len(str), Grain)

\* Slip: the string's end is not counted.
PastText(str) == cursor + Aligned(Len(str) - 1, Ptr)

Past(str) == cursor + Aligned(Len(str), Ptr)

\* The next argument; one that does not fit ends the list.
PushArg ==
  /\ phase = "loaded" /\ s <= Len(args)
  /\ \/ /\ cursor + Len(args[s]) < StackTop
        /\ mem' = [a \in Cells |-> IF a \in cursor .. cursor + Len(args[s]) - 1
                                   THEN Plain(args[s][a - cursor + 1]) ELSE mem[a]]
        /\ argv_ptrs' = Append(argv_ptrs, cursor)
        /\ cursor' = Past(args[s])
        /\ s' = s + 1 /\ UNCHANGED <<phase, k>>
     \/ /\ cursor + Len(args[s]) >= StackTop
        /\ Goto("argv") /\ UNCHANGED <<mem, argv_ptrs, cursor>>
  /\ UNCHANGED <<image, link, heap_cur, thunks, import_values, args, regs, x0,
                 x16, pc, exit_reason, fault_addr, exit_code, touched, calling, said>>

ArgsDone ==
  /\ phase = "loaded" /\ s > Len(args)
  /\ Goto("argv")
  /\ UNCHANGED <<image, link, mem, heap_cur, thunks, import_values, args, runVars>>

\* The table of pointers, its end, an empty environment and main's registers.
Start ==
  /\ phase = "argv"
  /\ LET n     == Len(argv_ptrs)
         argv  == Aligned(cursor, Grain)
         envp  == argv + (n + 1) * Ptr
         apple == envp + Ptr
     IN /\ mem' = [a \in Cells |->
             IF \E j \in 1 .. n : a = argv + (j - 1) * Ptr
             THEN Plain(argv_ptrs[((a - argv) \div Ptr) + 1])
             ELSE IF a \in {envp - Ptr, envp, apple} THEN Plain(0) ELSE mem[a]]
        /\ regs' = <<n, argv, envp, apple, (Info \div Grain) * Grain>>
        /\ x0' = n
  /\ Goto("running")
  /\ UNCHANGED <<image, link, heap_cur, thunks, import_values, args, cursor, argv_ptrs,
                 x16, pc, exit_reason, fault_addr, exit_code, touched, calling, said>>

----------------------------------------------------------------------------
(* The guest: one action per way its code comes back to the dispatcher.    *)

InCode == phase = "running" /\ pc = Code /\ exit_reason = "none"

UnchangedByGuest ==
  UNCHANGED <<loaderVars, args, cursor, argv_ptrs, regs, exit_code, said>>

\* A call through a bound pointer; x30 is set to come back.
CallImport(a, v) ==
  LET p == image.pointers[a] IN
  /\ InCode /\ Len(said) < MaxSaid
  /\ p.import /\ ~IsData(p.name)
  /\ pc' = mem[a].n /\ x0' = v
  /\ calling' = [name |-> p.name, arg |-> v]
  /\ UNCHANGED <<x16, exit_reason, fault_addr, touched>> /\ UnchangedByGuest

\* main returns: run has put THUNK_EXIT into x30.
ReturnFromMain(v) ==
  /\ InCode
  /\ pc' = ThunkBase /\ x0' = v
  /\ calling' = [name |-> ExitName, arg |-> v]
  /\ UNCHANGED <<x16, exit_reason, fault_addr, touched>> /\ UnchangedByGuest

\* svc.  x0 stands for all its arguments; what write is given lies in the window.
Svc(nr, v) ==
  /\ InCode /\ Len(said) < MaxSaid
  /\ exit_reason' = "syscall" /\ x16' = nr /\ x0' = v
  /\ calling' = [name |-> nr, arg |-> v]
  /\ UNCHANGED <<pc, fault_addr, touched>> /\ UnchangedByGuest

\* A load or store outside the window.  In the mapping, guest_fault_handler
\* gets it; beyond, there may be memory of the engine's own, or the handler
\* leaves the fault to the system, which ends the engine.
Stray(g) ==
  /\ InCode
  /\ touched' = g /\ calling' = [name |-> Nowhere, arg |-> 0]
  /\ IF Caught(HostAddr(g))
     THEN fault_addr' = FaultAddr(HostAddr(g)) /\ exit_reason' = "memfault"
     ELSE UNCHANGED fault_addr /\ exit_reason' \in {exit_reason, "memfault"}
  /\ UNCHANGED <<x0, x16, pc>> /\ UnchangedByGuest

\* A jump out of the code: build finds it outside the window, or the
\* dispatcher takes it for a thunk.
Wander(p) ==
  /\ InCode
  /\ calling' = [name |-> Nowhere, arg |-> 0]
  /\ IF p >= ThunkBase THEN pc' = p /\ UNCHANGED exit_reason
     ELSE exit_reason' = "memfault" /\ UNCHANGED pc
  /\ UNCHANGED <<x0, x16, fault_addr, touched>> /\ UnchangedByGuest

Undefined ==
  /\ InCode
  /\ exit_reason' = "undefinsn" /\ calling' = [name |-> NoInsn, arg |-> 0]
  /\ UNCHANGED <<x0, x16, pc, fault_addr, touched>> /\ UnchangedByGuest

Guest ==
  \/ \E a \in Fixable, v \in Values : CallImport(a, v)
  \/ \E v \in Values : ReturnFromMain(v) \/ \E nr \in {SysExit, SysWrite, SysOther} : Svc(nr, v)
  \/ \E g \in Touched : Stray(g)
  \/ \E p \in Wild : Wander(p)
  \/ Undefined

----------------------------------------------------------------------------
(* The loop.                                                               *)

UnchangedByLoop ==
  UNCHANGED <<image, link, mem, heap_cur, thunks, import_values, args, cursor, argv_ptrs,
              regs, x16, fault_addr, touched>>

\* running = false, or break: the loop is left with this code.
Finish(code) ==
  /\ exit_code' = code /\ Goto("finished")
  /\ UNCHANGED <<x0, pc, exit_reason, calling, said>>

\* A function or system call is done, its result in x0, and the guest goes on.
Done(what) ==
  /\ said' = Append(said, what) /\ calling' = Own
  /\ x0' \in Values /\ pc' = Code /\ exit_reason' = "none"
  /\ UNCHANGED <<phase, s, k, exit_code>>

\* Slip: abort says so and returns.
EndsByExit == Exits

\* The host functions that set running = false.
Ends == Exits \cup Aborts

\* handle_thunk; a thunk that is not in the table leaves exit_code as it is.
HandleThunk ==
  /\ phase = "running" /\ pc # Code
  /\ LET idx  == pc - ThunkBase
         name == thunks[idx + 1]
     IN IF idx >= Len(thunks) THEN Finish(exit_code)
        ELSE IF name = ExitName THEN Finish(x0 % IntSize)
        ELSE IF name \notin HostFns THEN Finish(127)
        ELSE IF name \in Ends THEN Finish(IF name \in Exits THEN x0 % IntSize ELSE 134)
        ELSE Done([name |-> name, arg |-> x0])
  /\ UnchangedByLoop

HandleSyscall ==
  /\ phase = "running" /\ exit_reason = "syscall"
  /\ \/ x16 = SysExit /\ Finish(x0 % IntSize)
     \/ x16 = SysWrite /\ Done([name |-> SysWrite, arg |-> x0])
     \/ x16 = SysOther /\ Finish(127)
  /\ UnchangedByLoop

StopOnReason ==
  /\ phase = "running"
  /\ \/ exit_reason = "memfault" /\ Finish(139)
     \/ exit_reason = "undefinsn" /\ Finish(4)
  /\ UnchangedByLoop

NoCode ==
  /\ InCode /\ Finish(70)
  /\ UnchangedByLoop

Loop == HandleThunk \/ HandleSyscall \/ StopOnReason \/ NoCode

Next == LoadStep \/ PushArg \/ ArgsDone \/ Start \/ Guest \/ Loop

Spec == Init /\ [][Next]_vars

----------------------------------------------------------------------------
(* Properties.                                                             *)

TypeOK ==
  /\ mem \in [Cells -> Links]
  /\ heap_cur \in HeapStart .. HeapEnd
  /\ thunks \in Seq(CNames)
  /\ import_values \in Seq(Nat)
  /\ s \in Nat \ {0} /\ k \in Nat \ {0} /\ link \in Nat \cup {None}
  /\ cursor \in Info .. StackTop
  /\ argv_ptrs \in Seq(Cells)
  /\ exit_code \in Nat /\ x0 \in Nat

\* What the first j arguments take of their area.
TextRoom[j \in 0 .. Len(args)] ==
  IF j = 0 THEN 0 ELSE TextRoom[j - 1] + Aligned(Len(args[j]), Ptr)

\* main gets its arguments: argc strings of the command line's, in order, each
\* whole and ended, a table of pointers to them with a null behind it, all above
\* the stack; the list is only cut where the strings do not fit their area.
ArgvIntact ==
  phase \in {"running", "finished"} =>
    LET argc == regs[1]
        argv == regs[2]
        Slot(j) == argv + (j - 1) * Ptr
    IN /\ argc <= Len(args)
       /\ \A j \in 1 .. argc : \A i \in DOMAIN args[j] :
            mem[mem[Slot(j)].n + i - 1] = Plain(args[j][i]) /\ mem[Slot(j)].n >= regs[5]
       /\ mem[Slot(argc + 1)] = Plain(0) /\ mem[regs[3]] = Plain(0) /\ mem[regs[4]] = Plain(0)
       /\ argv % Grain = 0 /\ regs[5] % Grain = 0 /\ regs[5] <= argv
       /\ argc < Len(args) => TextRoom[argc + 1] >= ArgvArea

\* An access outside the window ends the run with status 139, and the address
\* that is reported is the one the guest used (guest_fault_handler).
StraysReported ==
  phase = "finished" /\ touched # None => exit_code = 139 /\ fault_addr = touched

status == IF phase = "finished" THEN exit_code
          ELSE IF phase = "failed" THEN 1 ELSE -1

\* What a program may ask for.
Imported    == UNION {{im.pointers[a].name : a \in DOMAIN im.pointers} : im \in Images}
Requestable == Imported \cup {ExitName, SysExit, SysWrite, SysOther, Nowhere, NoInsn}

Machine == INSTANCE Process WITH
  Names <- Requestable,
  Exits <- Exits \cup {ExitName, SysExit},
  Strays <- {Nowhere},
  Unknowns <- {NoInsn},
  Served <- (HostFns \ (Exits \cup Aborts)) \cup {SysWrite}

\* Through the slots load has bound and the table of thunks, the run says what
\* the program says on its own machine, in the same order, each call reaching
\* the function it names; and its exit code is the program's own.
ImplementsProcess == Machine!ProcessSpec
=============================================================================
