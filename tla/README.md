# A TLA+ verification of Reversetta

Reversetta runs macOS arm64 executables on x86-64 by translating one basic
block at a time. This directory models the parts of it whose correctness lies
in *sequences* of events (which block was compiled first, which instruction
left its flags pending, which pointer was bound twice) or in arithmetic at an
edge, model-checks them on small instances with TLC and proves the main results
for every size with TLAPS.
Paths below are relative to the repository, `src/src/emu.cpp` being
its `src/emu.cpp`.

## The system

Everything runs on one host thread. The only asynchronous event is the
SIGSEGV/SIGBUS handler, which runs on a fault of translated code.

| Component | State | Operations | Correct when |
|---|---|---|---|
| Command line (`main.cpp`) | options | reserve the exit thunk, load, run | main's return has the first thunk |
| Loader (`emu.cpp` `load`, `bind_chained_fixups`; `host-fns.cpp` `thunk_for`, `resolve_import`) | guest image, `thunks`, `thunk_by_name` | copy segments, walk fixup chains, bind imports | every pointer leads where the linker meant, a name has one thunk |
| Guest memory (`emu.h`) | window, guards, `mem_bias` | `map_memory`, `in_range`, `read`, `write`, host faults | an access lands inside the window or ends the run with 139 |
| Guest heap (`emu.h` `heap_alloc`; malloc family) | `heap_cur`, `heap_end`, size headers | allocate; nothing is freed | blocks are disjoint and inside the heap |
| Translator (`translator.*`) | per block: `flags_pending`, `flag_src`, `base_cached`, `patches`; at run time: host registers, RFLAGS | one handler per instruction class, block exits | a block does to the guest's state what its instructions do |
| Block cache and chaining (`block_for`, `exit_const`, `exit_reg`, prologues) | `blocks`, `block_entry`, `pending_patches`, patched `rel32`s, `chain_tbl` | translate, patch, publish, jump | jumps reach the block the guest's code names; none is forgotten |
| Dispatcher (`run`, `handle_thunk`, `handle_syscall`, fault handler) | `cpu.pc`, `exit_reason`, `running`, `exit_code` | enter a block, call a host function, serve a system call, stop | the run goes on where the guest's own would |
| Host functions (`host-fns.cpp`) | guest memory, `x0`, per call the format's cursor and `va` | printf family, `str*`, `mem*` | results as libSystem's, writes only where the caller said |
| Bit helpers (`common.h`) | none | `sext`, `decode_bit_masks` | as the ARM manual defines them |

Interactions: the dispatcher calls translated code through `fn(&cpu)`;
translated code comes back through its epilogue with a pc and a reason, or goes
on to another block by a patched `jmp rel32` or through the direct-mapped cache
(DMC). `block_for` writes into code that was emitted earlier. Pinned registers
(x0, x8, x29, x30, sp) live in host registers across all jumps between blocks
and in `GuestCpu` while the dispatcher runs. NZCV live in RFLAGS or in
`fN..fV`, by a decision taken at translation time. The loader writes guest
memory and the table of thunks, by which the dispatcher later finds the host
function for a pc; data cells of imports come from the heap. Host functions and
translated code write the same memory the heap keeps its headers in.

Hard behaviours, each with its line in `PROJECT.json` under `hazards`: the order
of compilation against the order of linking; a register's two copies, of which
one is stale; the DMC under collisions and with its initial contents; flags
that are pending when something else happens; branches followed at translation
and the cut at the instruction limit; arithmetic at the edges of a word; chains
of fixups that are overwritten as they are followed; faults in translated code.

## Modules

| Module | Models | From |
|---|---|---|
| `GuestFlow` | abstract: how the guest's control and its link register move on the guest's own processor, block by block | (what the translation promises) |
| `BlockChain` | dispatcher, block cache, links, DMC, the pin of x30; implements `GuestFlow` | `emu.cpp` 240-446, `translator.cpp` 17-91 and 310-403, `translator.h` 297-330 |
| `InsnFlow` | abstract: the same, instruction by instruction | (what a block promises) |
| `BlockFormer` | the loop of `build` and the host code it leaves; implements `InsnFlow` | `translator.cpp` 53-91 and 310-408, `translator.h` 297-330 |
| `Flags` | NZCV and RFLAGS after the same operation, and the conditions on them (external: the two processors) | |
| `LazyFlags` | when flags are pending, stored, fused, lost | `translator.h` 69-124 and 238-290, `translator.cpp` 128-197, 326-378, 646-1025 |
| `RegFile` | pinned registers, the context, the base register kept in rsi, under every path of add and sub and every addressing mode | `translator.h` 36-46, 136-193 and 337-344, `translator.cpp` 128-300, 418-620, 670-758, 877-1025 |
| `BitMasks` | words as sets of bits, `decode_bit_masks`, and the manual's masks | `common.h` 82-119 |
| `DataPath` | what instructions compute that are more than one matching x86 instruction, against the manual | `translator.cpp` 204-310 and 765-1025 |
| `GuestMemory` | the window, its guards, `in_range`, `mem_bias`, rounding | `emu.h` 77-117, `emu.cpp` 36-38, `translator.h` 332-344 |
| `ObjectStore` | abstract: what a C program may rely on when it allocates and writes | (what the library promises) |
| `GuestHeap` | `heap_alloc`, the malloc family, all host functions that write guest memory; implements `ObjectStore` | `emu.h` 77-124, `host-fns.cpp` 151-339 |
| `Loader` | segments, import table, fixup chains, indirect symbols, thunks, data cells | `emu.cpp` 61-235, `host-fns.cpp` 350-375 |
| `Process` | abstract: the calls a program makes and the status it ends with | (what the engine promises) |
| `Session` | `main`, argv and `run`'s loop on a loaded binary; implements `Process` | `main.cpp` 67-79, `emu.cpp` 34-55 and 296-446 |
| `CPrintf` | abstract: C's formatted output | (what the library promises) |
| `FormatGuest` | `format_guest` and the functions of the printf family; implements `CPrintf` | `host-fns.cpp` 29-189 |
| `MC...` | instances of `BlockChain`, `BlockFormer`, `LazyFlags`, `RegFile`, `DataPath`, `GuestHeap`, `Session`, `FormatGuest` | |
| `..._proofs` | theorems about `BlockChain`, `BlockFormer`, `LazyFlags`, `RegFile`, `DataPath`, `GuestHeap`, `Session`, `FormatGuest`; those about `GuestMemory` are in `Session_proofs` | |

`Session` extends `Loader`, which extends `GuestMemory`; `GuestHeap` extends it
too. The control of the guest appears at three levels that fit together:
`BlockFormer` shows that one block runs like its instructions, `BlockChain` that
linked and cached blocks follow each other like the guest's, and `Session` what
becomes of the run each time control leaves translated code.

Operators whose comment begins with *Slip* are not part of a specification:
each is the definition below it with a mistake one could make in that code. With
the slip in its place, the property it is paired with in `PROJECT.json`
(`mutants`) fails, which shows that the property watches that line.

### BlockChain

A guest program is given by the shape of its blocks: the known addresses a block
may leave to (`exits`), how it ends (`term`: a direct branch, `bl`, `br`, `blr`,
`ret`, `svc`, an unknown instruction, running off the window) and the address it
hands over. What instructions compute is left to nondeterminism: a condition may
go either way, `Compute` may load any address into x30, `br` and `blr` may go anywhere. A `ret` through another register
than x30 is a `br`.

| Action | Code |
|---|---|
| `Translate` | `block_for` on a miss: serve the waiting list, link or queue the block's own sites, register the entry, in this order |
| `NoCode` | AsmJit fails, exit 70 |
| `Enter` | `fn(&cpu)`: the prologue publishes the block and loads the pin |
| `HostCall`, `HostStop` | `handle_thunk` returning through LR, or ending the run |
| `ServeSyscall`, `StopOnReason` | what `run` does with `exit_reason` |
| `BranchExit`, `CallExit` | `exit_const`: the patched jump, or the miss path |
| `ReturnExit`, `BranchRegisterExit`, `CallRegisterExit` | `exit_reg`: `Hit`, `Miss`, or `WildHit` on a slot nobody published |
| `ReasonExit`, `GuardFault` | `exit_fault`, `svc`, and the signal handler's `siglongjmp` |
| `Compute` | instructions that change the pinned register only |

Here one pin stands for five: they are loaded and stored side by side, and x30 is
the one whose value the host branches on; `RegFile` has them all. A block's body is an entry `Body(a)`, its
prologue `Start(a)`; `Near` says which pairs of blocks `rel32` can join.

### Flags and LazyFlags

Words are numbers below `2 * Half`; ARM's flags come from `AddWithCarry`, x86's
from the borrow, carry and signed range. One step of `LazyFlags` is one guest
instruction: what the translator notes about it (`flags_pending`, `flag_src`)
and what the emitted code does (`rflags`, `mem`, the bytes `fN..fV`), with the
architecture's `nzcv` beside it. Instructions are grouped by what they do to the
flags; `Clobber` stands for everything that calls `dirty_flags` and then uses
RFLAGS for something else, with any outcome of a constant set `Clobbers`.

The code does lose flags: by consuming them in a fused branch that falls
through, by a plain add, by `tbz`, by computing them from other operands. The
history variable `lost` is set at exactly these places; `FlagsCoherent` and
`DecisionsAgree` say that everything else is right, and `AlwaysAgree`, with
`Kinds` reduced, shows single places going wrong on their own.

### RegFile

`home[r]` is the one place a register lives in while a block runs: the host
register that `pin_of` names, the pin of sp for 31, the context for the rest.
`rsi` and `base_cached` are the base-register cache. Beside them `guest` holds the
architecture's registers. A step is one guest instruction and does to `home`
what the emitted code does and to `guest` what the manual says. What an
instruction shows outside of the registers (the address of an access, the data
stored, the operands compared) is the same on both sides as long as `alike` holds.

| Action | Code |
|---|---|
| `AddImm`: in place, compare, lea, general | the four paths of add/sub (immediate), in the order they are tried |
| `AddReg`: compare, in place, commuted, general | the four paths of add/sub (shifted register) |
| `AddExt` | add/sub (extended register) |
| `Compute`, `ComputeImm` | all other data processing: operands by `ld_r`, result by `st_r` or `st_rsp` |
| `Load`, `Store`, `LoadPair`, `StorePair` | `base_load`, the access, the write-back, in the modes offset, pre and post |
| `LoadIndexed`, `StoreIndexed`, `LoadLiteral` | register offset and literal |
| `NextBlock` | the next block's builder, with nothing cached |

What memory holds is any value, the same for both sides. The functions of data
processing, shifts and extensions are constants: the module asks where operands
come from and where results go; the arithmetic is `DataPath`'s. A transfer register that is also a base written back is left out, as the
architecture leaves its outcome open.

`Forms` lists the forms of add and sub, from four for which the code goes wrong,
that the guest program uses: `cmpsp` (compare of sp with an immediate), `wlea` (32-bit
add between host registers), `shiftrm` (shifted add with rd = rm), `zrsp` (xzr as
first operand or destination of the shifted form). With `Forms = {}` the
properties hold, in the run and for all sizes in the proofs. A violation run
admits `shiftrm`; putting `wlea`, `cmpsp` or `zrsp` into `Forms` in
`MCRegFile.cfg` breaks `RegsCoherent` or `ShownAlike` in the same way.

### InsnFlow and BlockFormer

An address counts instructions. `InsnFlow` is the guest's processor with
everything left out but the pc, x30 and a pending system call; as unconditional
branches change nothing else, its pc may move on through any number of them in the
step that reaches the first (`Through`). `BlockFormer` has the builder's `pc`, `n`
and the host code emitted so far, then the host's place in that code. The guest is
at the address of the operation the host is about to execute, or at `cpu.pc`.

| Action | Code |
|---|---|
| `BeginBuild`, `HandleSyscall`, `HandleThunk` | `run`, with a block built for every entry |
| `Straight`, `SideExit`, `Jump`, `Ending` | one iteration of `build`: `kNext`, a conditional branch's skip label and exit, `jump_to`, the steps that end a block |
| `Unknown`, `FetchFault` | `exit_fault` |
| `RunPlain` ... `RunFault` | the emitted code |

That blocks are kept and linked is left to `BlockChain`, which takes shapes of
blocks as given; here they are formed.

### BitMasks and DataPath

A word is the set of its bit positions, 64 of them, so that shifts, turns and masks
are set expressions and cost little to evaluate; divisions and multiplications use
numbers of `Digits` bits instead: `WordOf` takes a number's lowest bits and `NumOf` is
its inverse, so that neither is a recursion. `Decoded` says what the fields of an
instruction and its operands can hold, encodings that the manual reserves included.
`Exact` names the instructions the translation is right for. A step executes one instruction on given operands:
the action follows the handler's x86 instructions, operator by operator; `Arm` is
the manual's definition, position by position. `kBad` must come where the manual
reserves the encoding, and `trap` (x86's #DE) never.

### GuestMemory, ObjectStore and GuestHeap

Addresses and lengths are unsigned words that wrap at `WordSize`. A cell of the
window holds a byte or, at a block's header, the block's size. The cells that
imported data takes come before the first block: `HEAP_OFF` here is where they end.
The guest calls with pointers into objects it holds and keeps to each function's
contract (areas of `memcpy` and `strcpy` do not overlap, strings are ended, the
destination has room); what is asked is whether the functions then keep to theirs.
`ObjectStore` knows no addresses inside a heap and no headers: objects are
sequences of bytes, and `Contents` reads them off the window.

| Action | Code |
|---|---|
| `Malloc`, `Calloc`, `Realloc`, `Strdup`, `Free`, `OutOfMemory` | `hf_malloc` ... on `Emu::heap_alloc` |
| `Store` | a store by translated code |
| `Move`, `Memset`, `Strcpy`, `Strncpy`, `Strcat`, `Strncat` | the host functions of the name, and their `__*_chk` forms |
| `Sprintf`, `Snprintf` | what they do with the text of `format_guest` |

### What heap_alloc relies on

`heap_alloc` rounds the size up and adds it to the cursor in 64-bit words
(`emu.h:117`, `:118`), and `calloc` multiplies in one (`host-fns.cpp:216`), all
unchecked. `RequestAssumption` excludes the requests for which one of these wraps:
a size within two grains and the heap's end of 2^64, or a product beyond it. No
program with objects that fit the 32 MiB heap makes one. For others the wrapped sum
passes the bound check, and the block is smaller than was asked for.

### Loader, Process and Session

The unit of addresses is four bytes, the stride of a chain; a pointer stands at its
address and covers `Ptr` units. A binary is what its load commands say, and beside
that `pointers`, what its linker meant, which no action of the loader reads. A name
is a stem and its number of leading underscores, since that is what
`resolve_import` strips. `Process` is the program on its own machine: it asks for
library functions and system calls, gets them in order, and ends with a status.

| Action | Code |
|---|---|
| `Open`, `CopySegment`, `FindEntry` | `load`, up to LC_MAIN |
| `Import`, `ImportsDone`, `NextPage`, `FixLink`, `ChainsDone` | `bind_chained_fixups` |
| `BindSlot`, `SectionsDone` | symbol pointer sections, through the indirect table |
| `PushArg`, `ArgsDone`, `Start` | `run` before its loop: strings, pointer table, main's registers |
| `CallImport`, `ReturnFromMain`, `Svc`, `Stray`, `Wander`, `Undefined` | the ways translated code comes back; `Stray` includes the fault handler |
| `HandleThunk`, `HandleSyscall`, `StopOnReason`, `NoCode` | the loop |

One value, `Code`, stands for every pc in the guest's own code: how that moves is
`BlockChain`'s. `mmap` may fail in `Open`, AsmJit in `NoCode`. `Touched` and `Wild` are
the places outside the window and the code that a faulty guest uses.

### CPrintf and FormatGuest

A format is a sequence of characters and directives. How a value is spelt is the
host library's matter on both sides: a piece of text is the value with everything
its spelling depends on (conversion, flags, width, precision, the cut of short
types), and a length. `FormatGuest` reads registers and slots: a slot whose argument
is an int has junk in its upper half. `NoRoom` is `resize` throwing; a text longer
than the buffer, which the code would append with what lies behind it, becomes a
piece that C never produces (`garbled`).

## Runs

| Run | Question | Result |
|---|---|---|
| `chain` | All 512 programs over eight shapes of three blocks, and three with unknown instructions, fetch faults and `blr`, with one address outside the window and one host function: does control move as in `GuestFlow`, is a link ever forgotten, unmade or stale, does a jump come back without need? | 411,973 states, holds |
| `chain_hot` | Programs of direct branches, and with 0 among the addresses: does execution stay in translated code eventually, and where can a jump to a null body come from? | 401,925 states; it does; only through the untouched slot of address 0 |
| `former` | All programs of three instructions, in blocks of at most three: do blocks run like the instructions, end in an exit, and get built at all when branches form loops? | 105,323 states, holds |
| `flags` | All classes of instructions in any order: are flags that are not lost where they should be, and all decisions right? | 19,574 states, holds |
| `flags_plain` | May flags outlive a plain add? | no, a later decision is wrong |
| `regs` | Every sequence of data processing, loads and stores on a pinned and an unpinned register, sp and xzr: are homes, rsi and accesses the guest's? | 448 states, 17 million transitions, holds |
| `regs_shift` | The same with `add xd, xn, xd, lsl #n` | no, the shift is lost |
| `data` | Every mask, bit field, extract, wide move, count; every division and multiplication on four bits: as the manual says, never #DE? Reserved encodings as well, but only what is `Exact`. | 95,812 states, holds |
| `data_reverse` | rbit, rev16 and rev32 on all runs of ones | no, every second group of bits is lost |
| `heap` | Every sequence of allocations, releases and writes on a heap of four grains: are blocks apart, headers intact, objects changed by nothing but what is done to them? | 1,844 states, holds |
| `session` | Twelve binaries (bound by chains, by symbol tables, by both; unknown formats; files that do not load), five argument lists, and any requests: are pointers, argv, calls and exit codes the program's? | 74,027 states, holds |
| `format` | Every format of one or two directives out of eighteen, every function of the family: text, counts and result as in C? | 112,191 states, holds |

### Bounds

`chain`: three blocks suffice for every order of compilation of a caller, a callee
and a third block, for a site that waits for two targets, and for a block whose
DMC slot another one takes over: with `DmcSize = 2` addresses 4, 12 and 20 share a
slot. `former`: with `MaxInsns = 3` and three instructions a block is cut behind a
plain instruction, a side exit and a followed branch, and loops of one to three
branches occur. `flags`: words of two bits (`Half = 2`) are the smallest in which
sign, carry and overflow occur independently. `regs` has X registers of two bits and
W registers of one, the smallest in which a
W result differs from an X result and a carry leaves the lower half; one pinned
register, one unpinned and 31 give every combination of "same or different" and
"host register or context" that the paths of add and sub ask for, since no test in
them involves more than three operands and pins differ in nothing but their number.
A third register that is pinned (or not) would add a case only where two
distinct ones of one sort meet; the proofs cover any set of registers.
`data` has the code's own widths and takes all positions, lengths and encodings; the
operands are patterns of which no bit equals the one a wrong shift would put there.
`Digits = 4` has every sign, the least number and -1, in X and in half-width W.
`heap`: four grains of two cells hold two live blocks with room for a release
between, sizes below, at and above a grain, and run out; bytes 0 and 1 give strings
of every length an object has room for. `session`: two pages with chains of one to three
links, a gap, an import used twice, an argument area that the strings
fill, overflow or leave; `MaxSaid` (two requests before the last) bounds the length of
a run. `format`: words of eight bits with ints of four; a buffer of six and a slack
of four let texts reach the buffer's end through width, precision, string length and
sums of them, and let a width below the slack wrap the sum.
Except for `MaxSaid` there are no bounds on the length of behaviours.

The runs of `BlockChain`, `Session` and `FormatGuest` do not check deadlock because
the program really stops there; the others never do (`BlockFormer` and `DataPath`
stutter when they are done, in `Stopped` and `Done`).

### Fairness

`BlockChain`'s `FairSpec` (for `chain_hot`): weak fairness of `Dispatch`, because
the `while` loop does its next step, and of `BlockExit`, because a block is
straight-line code with forward skips only: it gets to one of its exits. No
fairness is assumed of any particular branch, nor of `Compute` and `GuardFault`.
`BlockFormer`'s `FairSpec` (for `BlocksAreFinite`): weak fairness of `Next`, as the
host thread is never suspended for good; which way a branch goes stays open.

## What the runs found

Three places where the code does not do what its own documentation says are in
`PROJECT.json` under `findings`, each with its run: plain add/sub without
`dirty_flags` (`translator.cpp:724`), a shifted add that drops its shift (`:710`),
and a swap network that masks before it shifts, so that rbit, rev16 and rev32 are
wrong for nearly every operand (`:908`).

The properties also fail with constants other than the ones in the cfg files, where
the code goes wrong in the case they admit:

| Where | What | How to see it |
|---|---|---|
| `translator.h:122` | flags consumed by a fused branch are lost to the next consumer | `MCLazyFlags`, `Kinds = {"arith", "branch"}`, `AlwaysAgree` |
| `translator.cpp:162` | `cmn` is emitted as `cmp` | `Kinds = {"cmn", "exit", "branch"}`, `AlwaysAgree` |
| `translator.cpp:351` | `tbz` clobbers pending flags | `Kinds = {"arith", "testbit", "carry"}`, `AlwaysAgree` |
| `translator.cpp:185` | a 32-bit add that is a `lea` leaves the upper half set | `MCRegFile`, `Forms = {"wlea"}`, `RegsCoherent` |
| `translator.cpp:142` | `cmp sp, #imm` writes sp: rd and rn are both 31, and the in-place path comes first | `Forms = {"cmpsp"}` |
| `translator.cpp:684`, `:695`, `:713` | xzr taken for sp in shifted add and sub | `Forms = {"zrsp"}` |
| `translator.cpp:957` | cls is one too large | `MCDataPath`, `Insns <- All`, `AgreesWithArm` |
| `translator.cpp:274` | sbfiz fills with the sign below the field too | the same |
| `translator.cpp:251`, `:293` | 32-bit bit fields with immr or imms from 32 up, and 32-bit extr with lsb from 32 up, are translated; the manual reserves them | the same |
| `emu.cpp:296` | a block's jump to itself is never linked (`emu.h:34`: jumps are patched once their target is compiled) | `MCBlockChain`, `Programs <- DirectPrograms`, `LinkedOnceCompiled` |
| `translator.h:318` | a branch to address 0 through the untouched slot 0 jumps to a null body | `Addr <- ZeroAddr` in `MCBlockChain.cfg`, `ImplementsGuestFlow`: the run ends as no guest does |
| `host-fns.cpp:337` | `__strncat_chk` is `strcat`, so its count is not read | `MCGuestHeap`, `ShortCounts = TRUE`, `HeadersHonest` and `ImplementsObjectStore` |
| `emu.cpp:37` | a null pointer of a binary at 4 GiB lies beyond the guards of 2 GiB | `MCSession`, `Touched = {0}`, `StraysReported` |
| `emu.cpp:306` | a jump to a thunk nobody reserved ends the run with status 0 | `Wild = {250}`, `ImplementsProcess` |

Found while reading, and outside what the models distinguish: a negative `%*d` width
below -64 makes `need` wrap and `resize` throw, which ends the engine
(`host-fns.cpp:63`; `ThrowsOnlyBelow` says that nothing else does, and `CPrintf` is
not held to it); a `%f` whose text is longer than the
buffer is appended with bytes that `snprintf` did not write (`:91`, `:118`); a
negative star precision makes a spec the host cannot read (`:51`); `%p` ignores its
width (`:105`); `%hhn` and `%ln` store four bytes (`:110`); `%ls` and `%lc` are read as
bytes; a fault at a fetch reports the fault address of an earlier one
(`emu.cpp:439`); a data symbol imported twice has two cells (`host-fns.cpp:366`);
addends of binds are ignored (`emu.cpp:70`, `:103`), as are the result of
`bind_chained_fixups` (`:215`); a segment whose part of the file is longer than the segment is
copied on into the guard, as `filesize` is compared with nothing (`:185`, `:190`;
`SegmentsAssumption` excludes it).

## Proofs

`BlockChain_proofs` proves for any set of addresses, window, cache size, reach
and set of programs:

* `TypeCorrect`, `ChainIsSound`, `LinksAreComplete`: from one inductive
  invariant, the conjunction of `TypeOK`, `LinksSound`, `DmcSound`,
  `LinksComplete` and what they need of each other: entries are bodies, queues
  hold only compiled blocks, the running block is compiled, a slot whose body is
  set carries its own tag. `ModUnique` and `SlotsAgree` prove that publishing and
  probing compute the same slot.
* `Refinement`: `Spec => ImplementsGuestFlow` if 0 is not an address of the guest.
  The assumption is needed: with `ZeroAddr` the property fails. The
  mapping reads pc and x30 from the context while the dispatcher runs and from the
  running block and the pin otherwise; each step is a step of `GuestFlow` or
  leaves its variables alone.
* `JumpsAreLearned`: a link stays once it is made (a block is translated only while it
  has no entry, so no link to it or of it exists that could be overwritten), and a direct
  jump comes back to `run` only for a block that does not exist, one out of reach, or
  its own. That is the safety core of `HotPathsStayChained`: as blocks are finitely many
  and each such way back is followed by a translation, they come to an end.
* `CrashesAreNull`: translated code leaves generated code only by an indirect branch
  to address 0 through the untouched slot 0, with 0 among the addresses or not. The
  lemmas `CrashStep` and `BarrenSlots` use the same invariant: a slot whose body is
  unset has tag 0, so no other address passes its test.

`BlockFormer_proofs` proves for any program, window and limit `TypeCorrect`,
`BlocksEndInExit` and `Refinement` (`Spec => ImplementsInsnFlow`). The invariant says
of the code emitted so far that each operation is the instruction at its address
(`Faithful`), that each leads, perhaps through followed branches, to the next one's
address (`Linked`), and that the builder's pc is where the last one leads; of a
finished block, that its last operation leaves it. `BlocksRunOut` is the safety core
of `BlocksAreFinite`: with `StepsLeft`, the iterations left to the builder and the
operations left to the block, every step between two turns of the dispatcher leaves
fewer, at most `2 * MaxInsns + 2` in all. What the prover cannot add is that these
steps are taken.

`LazyFlags_proofs` proves, for words of any width:

* `AddMatches`, `SubMatches`, `LogicMatches`: RFLAGS after the x86 operation,
  stored by `flags_add`/`flags_sub`/`flags_logic`, are ARM's NZCV.
* `FusedMeans`, `InvMeans`, `EmitMeans`: the tables of `take_fused_cond`, `inv_cc`
  and the bytes-to-condition code of `emit_cond` mean the ARM condition.
* `TypeCorrect`, `FlagsAreCoherent`, `DecisionsAreRight` from the invariant
  `IInv`: besides coherence it needs that C and O are clear while flags of a
  logical operation are pending, since `log_map` reads SF where ARM compares N
  and V.

`RegFile_proofs` proves, for words of any width, any set of registers and any choice
of pinned ones, any functions, shifts, extensions, offsets and immediates, and
`Forms = {}`: `TypeCorrect`, `RegistersAreCoherent`, `BaseIsCoherent`,
`AccessesAreAlike`, from `IInv`, the conjunction of the four invariants. None is
inductive alone: registers stay coherent across a load only if rsi is the base, rsi
stays the base only if the result written beside it goes where the note says, and
accesses are alike only if both hold.

`DataPath_proofs` proves, for any instructions on any operands, words of 64 and 32
bits, and numbers of every even width up to 64 bits (with `Digits = 64`, the code's own):

* `TypeCorrect` and `NoDivisionTraps`. The only quotients that do not fit their register
  are those by zero and of the least number by -1 (`SignedQuotient`).
* `Agreement`: an instruction that is `Exact` leaves what the manual says of it, or is
  refused, and then it is reserved; `ExactProgramsAgree` puts it as `Spec => []AgreesWithArm`.
  There is one lemma per handler (`LogicalImmRight`, `BitfieldRight`, ...).

Masks: `DecodeMasks` says that `decode_bit_masks` yields the manual's masks for every
encoding, by `DecodeSize` (the position of the highest bit is the row of the manual's
table), `TurnedBits` (one bit of the turned element) and `ElementMasks`. Numbers: that a
number exists for every word and only one (`NumbersExist`, `NumOfFacts`, `NumOfWord`) is
an induction over the width, by the least counterexample; that `2 ^ n` grows as
it should (`Powers`) comes from counting subsets, as the prover knows no more of powers;
`LowDigits` and `LowDigitsOfSum` say that low bits of sums and products depend on low
bits only, `HighHalf` that umulh and smulh take the others. `Exact` leaves out what the
code gets wrong, as the runs found it: cls; sbfiz of a field whose sign is set; rbit,
rev16 and rev32 of operands with more than the lowest bit or byte; the reserved encodings
that are translated. On the instructions of `MCDataPath` it leaves out nothing
else, but for sbfiz in encodings that are refused.

`GuestHeap_proofs` proves, if `ShortCounts = FALSE`, for any layout, sizes and texts
`TypeCorrect`, `BlocksAreDisjoint`, `HeadersAreHonest` and `Refinement`
(`Spec => ImplementsObjectStore`). The invariant adds that the
cursor is aligned, and that what the guest holds is a block or the image's object.
Blocks being disjoint is needed to keep headers honest (a write inside a block must
miss the headers of the others), the order of cursor and blocks to keep blocks
disjoint. One lemma (`HandKeeps`) carries all allocations, one (`WriteKeeps`) all
writes. The refinement needs more (`RInv`): that the padding rounding puts behind a
block belongs to that block only, and holds bytes and no header. `realloc` copies as many
bytes as the header says, which may be more than the object has, so it reads and writes
there. Then each action is the abstract one on `Contents`: an allocation
adds an object and keeps the others' cells, a write changes the cells of one object to
what the function's contract says.

`Session_proofs` proves, for any binaries, arguments, functions and layout:

* Of `GuestMemory`, that `in_range` is exact for every address and length a word can hold
  (`InRangeExact`), and that an access within the guards' reach touches the host byte
  that stands for its address, inside the mapping, so that the handler turns a fault there
  back into the guest's own address (`GuardsCatch`). `ModSmall`, `ModTurn` and `ModBelow`
  are the wrapping arithmetic, `NeedFacts` the rounding; `GuestHeap_proofs` has its own
  copies of the lemmas it shares, as neither module extends the other's.
* `TypeCorrect`, `ThunksAreUnique`, and `StraysAreReported`, if all stray accesses are
  within the guards' reach (`Near`, needed: see the null pointer above).
* `ArgumentsAreIntact`: the invariant `ArgsInv` follows the strings as they are pushed:
  those written so far stand whole between the area's start and the cursor, which is as
  far on as their rounded lengths add up to, and where the list ends, it is complete or
  its next string reaches beyond the area. The table goes behind the cursor.
* `PointersAreBound`, for binaries of which `LinkedAssumption` holds: what their chains
  and tables say is what their linker meant. That is a contract between the linker and
  the loader (`WellLinked` in `Loader`): a chain runs upwards inside its page, pages
  share no pointer, a chain's word and an entry of the indirect table name what
  `pointers` says, all that is to be bound is on a chain or in a table, and the data
  cells fit the heap. The walk overwrites the words it follows, so the invariant
  `LinkInv` tells the links in front of the cursor, still the file's, from those behind
  it, already bound, and keeps both apart from the cells that importing a datum writes.
* `Refinement`: `Spec => ImplementsProcess`, if also no stray jump goes to where thunks
  are (`Tame`, needed as well). Its invariant (`CallInv`) says that pc, exit reason and
  x0 together name what the guest asked for; that a bound slot leads to the function of
  its own name is `PointersAreBound`.

`FormatGuest_proofs` proves, for any width of words and ints, buffer, slack and calls:
`TypeCorrect`, `ThrowsAreBelow`, and `Refinement`, that `Spec` and `[]Countable` imply
`ImplementsPrintf`. The invariant has three parts. `ReadInv`: the slots taken so far are
those of the directives passed, so the next one is the argument C takes. `FieldInv`: width
and precision are the directive's, or what its stars' slots decode to as signed ints,
junk in the upper halves or not. `TextInv`: the buffer never shrinks, and the
result is the text's length. `NeedFacts` shows that `need`, added up in wrapping words, is the sum it
stands for unless that is negative; `PieceFits`, that the text then fits the buffer made
for it. `Countable` is about texts that outgrow an int before a `%n`, of which C does not
say what is stored. `CallsAssumption` says what the calls are: arguments of the types
their directives take, and none of the cases in which the code is known to differ from C
(negative star precisions, `%p` with a width, a double whose part before the point is
about as long as the slack, a negative width before a text longer than the buffer: see
what the runs found).

The assumptions are those on the constants, which TLC evaluates in every run; the
cfg files satisfy them all. For the control flow: `AddrAssumption`, `DmcAssumption`,
`NearAssumption`, `ProgramAssumption`, `NoneAssumption`, `LimitAssumption`. For words:
`HalfAssumption`, `ClobbersAssumption`, `WordAssumption`, `RegsAssumption`,
`DataAssumption`, `DigitsAssumption` (any even width up to 64), `InsnsAssumption`
(instructions are `Decoded`). `WordAssumption` of
`FormatGuest` has ints narrower than words, and `CallsAssumption` is described above. For
memory: `LayoutAssumption` (the window and
as much again fit a word, the heap fits the window), `MappingAssumption` (one mapping holds window
and guards), `BytesAssumption`, `TextAssumption`, `RequestAssumption`,
`ShortCountsAssumption`. For a session: `PtrAssumption`, `ThunkAssumption` (thunks lie
beyond the window), `ImagesAssumption`, `SegmentsAssumption`, `NamesAssumption`, `LinkedAssumption`, `StackAssumption` (the argument
area is above the heap and holds whole pointers, and the pointer table fits the window: `run`
does not check the latter, it is a bound on the argument lists), `GuestAssumption`, `OwnAssumption` (no binary calls a
function `__reversetta_exit`).

Only model-checked: `HotPathsStayChained` and `BlocksAreFinite`, as liveness under
fairness is beyond the prover (`JumpsAreLearned` and `BlocksRunOut` are the parts that are
not).

## Not modelled

AsmJit and the encodings it emits. Finding the arm64 slice and reading the fields of
Mach-O structures; `bits`, `bit`, `sext` on encodings: the models start from what was
read. Host functions that only return a value or write a stream (`strlen`, `strcmp`,
`atoi`, `puts`, `rand`, ...): each is one call of the host's own library. The bytes
written by the write system call. Option parsing, banners, logging. Concurrent host
threads (there are none). Guests that change their own code: blocks are never
translated again.
