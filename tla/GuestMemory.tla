----------------------------- MODULE GuestMemory -----------------------------
(***************************************************************************)
(* The layout of guest memory and the arithmetic on it: the window, its    *)
(* guards and the check every host access goes through (emu.h), the host   *)
(* address a translated access touches, and the sizes the heap works with. *)
(* Addresses and lengths are unsigned words: sums wrap at WordSize.        *)
(***************************************************************************)
EXTENDS Integers

CONSTANTS
  WordSize,    \* number of values of a word: 2^64
  Base,        \* base, the guest address the window starts at
  WindowSize,  \* GUEST_WINDOW
  HeapOff,     \* HEAP_OFF
  HeapSize,    \* HEAP_SIZE
  Grain,       \* alignment of the heap and size of a block header: 16
  Guard,       \* GUARD, the size of the area without access on each side
  MemAt        \* mem, the host address of the window

ASSUME LayoutAssumption ==
  /\ WordSize \in Nat /\ Base \in Nat /\ WindowSize \in Nat
  /\ HeapOff \in Nat /\ HeapSize \in Nat /\ Guard \in Nat /\ MemAt \in Nat
  /\ Grain \in Nat \ {0}
  /\ Base + 2 * WindowSize + 2 * Grain <= WordSize
  /\ HeapOff + HeapSize <= WindowSize

\* One mapping holds the guards and the window: mmap returned all of it.
ASSUME MappingAssumption ==
  Guard <= MemAt /\ MemAt + WindowSize + Guard < WordSize

Words == 0 .. WordSize - 1

Cells == Base .. Base + WindowSize - 1

HeapStart == Base + HeapOff
HeapEnd   == Base + HeapOff + HeapSize

\* Slip: the end of the access, computed in a word.
InRangeBySum(addr, len) ==
  addr >= Base /\ (addr + len) % WordSize <= Base + WindowSize

\* in_range: may the host touch len bytes at addr?
InRange(addr, len) ==
  /\ addr >= Base
  /\ addr - Base <= WindowSize
  /\ len <= WindowSize - (addr - Base)

\* What a translated load or store of guest address g touches, with mem_bias
\* added in a word.
MemBias      == (MemAt - Base) % WordSize
HostAddr(g)  == (MemBias + g) % WordSize

\* Slip: the place in the window, not the address.
FaultOffset(h) == (h - MemAt) % WordSize

\* The guest address the fault handler makes of a host address.
FaultAddr(h) == (h - MemBias) % WordSize

\* guest_fault_handler: is a fault at host address h the guest's?
Caught(h) == MemAt - Guard <= h /\ h < MemAt + WindowSize + Guard

\* heap_alloc: a size in whole grains.
Need(size) == (((size + (Grain - 1)) % WordSize) \div Grain) * Grain
=============================================================================
