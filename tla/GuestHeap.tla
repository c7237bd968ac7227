------------------------------ MODULE GuestHeap ------------------------------
(***************************************************************************)
(* The guest's heap (Emu::heap_alloc and the malloc family) and the host   *)
(* functions that write guest memory: mem*, str* and the formatted prints. *)
(* A cell of memory is one unit that either holds a byte or a block's size *)
(* header.  The cells the loader takes for imported data come first in the *)
(* heap and are left out: HEAP_OFF here is where they end.  The guest      *)
(* keeps to the contracts of the functions it calls; what is asked is      *)
(* whether the functions keep to theirs.                                   *)
(***************************************************************************)
EXTENDS GuestMemory, Sequences

CONSTANTS
  Bytes,      \* values of a byte
  Requests,   \* sizes the guest asks for
  Texts,      \* results of format_guest
  DataAt,     \* an object of the image itself,
  DataSize,   \* and its size
  ShortCounts \* may strncat be called with a count below the source's length?

ASSUME BytesAssumption == Bytes \subseteq Nat /\ 0 \in Bytes

\* No request comes so close to the size of a word that rounding it up, or
\* adding it to the cursor, wraps (README, "What heap_alloc relies on").
ASSUME RequestAssumption ==
  /\ Requests \subseteq Nat
  /\ \A n \in Requests : \A m \in Requests \cup {1} :
       HeapEnd + n * m + 2 * Grain <= WordSize

ASSUME ShortCountsAssumption == ShortCounts \in BOOLEAN

ASSUME DataAssumption ==
  /\ DataAt \in Nat /\ DataSize \in Nat
  /\ Base <= DataAt /\ DataAt < HeapStart /\ DataAt + DataSize <= HeapStart

ASSUME TextAssumption == Texts \subseteq Seq(Bytes \ {0})

VARIABLES
  heap_cur,   \* Emu::heap_cur
  mem,        \* the window
  live        \* pointers the guest holds -> the sizes it asked for

vars == <<heap_cur, mem, live>>

Objects == DOMAIN live
Blocks  == {p \in Objects : p >= HeapStart}

----------------------------------------------------------------------------
(* What the guest may pass: places in its own objects.                     *)

CellsOf(p) == p .. p + live[p] - 1

\* Cells of object p from a on.
Room(p, a) == p + live[p] - a

\* Places in object p where a string starts: it ends in the same object.
Strings(p) == {a \in CellsOf(p) : \E b \in a .. p + live[p] - 1 : mem[b] = 0}

\* The two runs of n and m cells do not overlap.
Apart(a, n, b, m) == a + n <= b \/ b + m <= a

----------------------------------------------------------------------------
(* Memory.                                                                 *)

\* strlen of guest_cstr: the first zero from a on, which the window has.
ZerosFrom(a) == {k \in 0 .. WindowSize : a + k \in Cells /\ mem[a + k] = 0}
strlen(a) == CHOOSE k \in ZerosFrom(a) : \A j \in ZerosFrom(a) : k <= j

\* Memory m with n cells from a on set to c, if the window has them
\* (host_ptr, then memcpy or memset).
Put(m, a, n, c) ==
  IF InRange(a, n)
  THEN [x \in Cells |-> IF a <= x /\ x < a + n THEN c[x - a] ELSE m[x]]
  ELSE m

Zeros(n)       == [k \in 0 .. n - 1 |-> 0]
Slice(m, a, n) == [k \in 0 .. n - 1 |-> m[a + k]]

----------------------------------------------------------------------------
(* heap_alloc                                                              *)

\* Slip: the header is not part of what has to fit.
NoRoomForBlock(size) == (heap_cur + Need(size)) % WordSize > HeapEnd

NoRoom(size) == (heap_cur + Need(size) + Grain) % WordSize > HeapEnd

\* The pointer heap_alloc returns, and memory with the block's header in it.
NewBlock == (heap_cur + Grain) % WordSize
WithHeader(size) == Put(mem, heap_cur, 1, [k \in {0} |-> Need(size)])

\* Slip: the cursor moves by the size that was asked for.
BumpUnrounded(size) == (NewBlock + size) % WordSize

Bump(size) == (NewBlock + Need(size)) % WordSize

\* The guest holds a block of size cells more, and p no longer.
Hand(size, p) ==
  /\ ~NoRoom(size)
  /\ heap_cur' = Bump(size)
  /\ live' = [q \in (Objects \ p) \cup {NewBlock} |->
                IF q = NewBlock THEN size ELSE live[q]]

Malloc(size) ==
  /\ Hand(size, {})
  /\ mem' = WithHeader(size)

Calloc(n, m) ==
  LET size == (n * m) % WordSize IN
  /\ Hand(size, {})
  /\ mem' = Put(WithHeader(size), NewBlock, size, Zeros(size))

\* Slip: as many cells as the new block has.
CopiedByNew(old, size) == size

\* How much of a block realloc keeps: what its header says, or what fits.
Copied(old, size) ==
  LET oldsz == IF InRange(old - Grain, 1) THEN mem[old - Grain] ELSE 0
  IN IF oldsz < size THEN oldsz ELSE size

Realloc(old, size) ==
  LET n == Copied(old, size) IN
  /\ Hand(size, {old})
  /\ mem' = IF InRange(old, n)
            THEN Put(WithHeader(size), NewBlock, n, Slice(WithHeader(size), old, n))
            ELSE WithHeader(size)

Strdup(s) ==
  LET n == strlen(s) + 1 IN
  /\ Hand(n, {})
  /\ mem' = Put(WithHeader(n), NewBlock, n, Slice(mem, s, n))

\* The block stays where it is, but the guest may not use it any more.
Free(p) ==
  /\ live' = [q \in Objects \ {p} |-> live[q]]
  /\ UNCHANGED <<heap_cur, mem>>

\* heap_alloc returns 0; the caller returns it.
OutOfMemory(size) ==
  /\ NoRoom(size)
  /\ UNCHANGED vars

Allocate ==
  \/ \E n \in Requests : Malloc(n) \/ OutOfMemory(n)
  \/ \E n, m \in Requests : Calloc(n, m)
  \/ \E p \in Blocks : Free(p) \/ \E n \in Requests : Realloc(p, n)
  \/ \E p \in Objects : \E s \in Strings(p) : Strdup(s)

----------------------------------------------------------------------------
(* Writes to objects.  The guest passes a destination d in object p, and   *)
(* sources that keep to the function's contract.                           *)

Write(p, d, n, c) ==
  /\ n <= Room(p, d)
  /\ mem' = Put(mem, d, n, c)
  /\ UNCHANGED <<heap_cur, live>>

\* A store by translated code.
Store(p, d) == \E b \in Bytes : Write(p, d, 1, [k \in {0} |-> b])

\* memcpy and memmove; memcpy's areas do not overlap.
Move(p, d) ==
  \E q \in Objects : \E s \in CellsOf(q) : \E n \in 1 .. Room(q, s) :
    Write(p, d, n, Slice(mem, s, n))

Memset(p, d) ==
  \E b \in Bytes : \E n \in 1 .. live[p] : Write(p, d, n, [k \in 0 .. n - 1 |-> b])

Strcpy(p, d) ==
  \E q \in Objects : \E s \in Strings(q) :
    LET n == strlen(s) + 1 IN
    Apart(d, n, s, n) /\ Write(p, d, n, Slice(mem, s, n))

Strncpy(p, d) ==
  \E q \in Objects : \E s \in Strings(q) : \E n \in 1 .. live[p] :
    LET len == strlen(s) IN
    /\ Apart(d, n, s, IF len < n THEN len + 1 ELSE n)
    /\ Write(p, d, n, [k \in 0 .. n - 1 |-> IF k < len THEN mem[s + k] ELSE 0])

\* strcat finds the end of the destination first.
Strcat(p, d) ==
  \E q \in Objects : \E s \in Strings(q) :
    LET at == d + strlen(d)
        n  == strlen(s) + 1
    IN /\ d \in Strings(p)
       /\ Apart(d, strlen(d) + n, s, n)
       /\ Write(p, at, n, Slice(mem, s, n))

\* __strncat_chk is entered in g_host_fns as strcat: the count is not read.
Strncat(p, d) ==
  \E q \in Objects : \E s \in Strings(q) : \E n \in 0 .. strlen(s) :
    LET at  == d + strlen(d)
        len == strlen(s) + 1
        cut == IF n < strlen(s) THEN n + 1 ELSE len
    IN /\ d \in Strings(p) /\ at - d + cut <= Room(p, d)
       /\ n < strlen(s) => ShortCounts
       /\ Apart(d, at - d + cut, s, len)
       /\ mem' = Put(mem, at, len, Slice(mem, s, len))
       /\ UNCHANGED <<heap_cur, live>>

\* n characters of a text and a zero.
PrintText(p, d, t, n) ==
  Write(p, d, n + 1, [k \in 0 .. n |-> IF k < n THEN t[k + 1] ELSE 0])

\* sprintf and __sprintf_chk
Sprintf(p, d) == \E t \in Texts : PrintText(p, d, t, Len(t))

\* Slip: the zero comes on top of the n bytes.
SnprintfPastEnd(p, d) ==
  \E t \in Texts : \E n \in 1 .. live[p] :
    /\ n <= Room(p, d)
    /\ mem' = Put(mem, d, n + 1, [k \in 0 .. n |-> IF k < Len(t) THEN t[k + 1] ELSE 0])
    /\ UNCHANGED <<heap_cur, live>>

\* snprintf and __snprintf_chk, for a buffer of n bytes.
Snprintf(p, d) ==
  \E t \in Texts : \E n \in 1 .. live[p] :
    PrintText(p, d, t, IF n - 1 < Len(t) THEN n - 1 ELSE Len(t)) /\ n <= Room(p, d)

Fill == \E p \in Objects : \E d \in CellsOf(p) :
  \/ Store(p, d) \/ Move(p, d) \/ Memset(p, d)
  \/ Strcpy(p, d) \/ Strncpy(p, d) \/ Strcat(p, d) \/ Strncat(p, d)
  \/ Sprintf(p, d) \/ Snprintf(p, d)

----------------------------------------------------------------------------

Init ==
  /\ heap_cur = HeapStart
  /\ \E c \in [0 .. DataSize - 1 -> Bytes] :
       mem = Put([x \in Cells |-> 0], DataAt, DataSize, c)
  /\ live = [p \in {DataAt} |-> DataSize]

Next == Allocate \/ Fill

Spec == Init /\ [][Next]_vars

----------------------------------------------------------------------------
(* Properties.                                                             *)

TypeOK ==
  /\ heap_cur \in HeapStart .. HeapEnd
  /\ mem \in [Cells -> Nat]
  /\ Objects \subseteq Cells \cup {HeapEnd}
  /\ live \in [Objects -> Nat]

\* Whatever sizes that do not wrap (RequestAssumption) are asked for, in
\* whatever order: each block the guest holds lies with its header inside the
\* heap, below the cursor and on its alignment, and no two of them share a cell
\* (heap_alloc).
BlocksDisjoint ==
  /\ \A p \in Blocks :
       /\ HeapStart + Grain <= p /\ p + live[p] <= heap_cur
       /\ \E k \in 0 .. HeapSize : p = HeapStart + k * Grain
  /\ \A p, q \in Blocks : p < q => p + live[p] + Grain <= q

\* No write of the guest or of a host function on its behalf reaches a header:
\* realloc always finds a size that covers the block (and no more than the
\* rounding adds to it).
HeadersHonest ==
  \A p \in Blocks : mem[p - Grain] = Need(live[p])

\* The program's view: each pointer it holds, with the bytes behind it.
Contents == [p \in Objects |-> [k \in 1 .. live[p] |-> mem[p + k - 1]]]

Program == INSTANCE ObjectStore WITH objects <- Contents

\* The heap without free, the headers between the blocks and the functions
\* that write through raw pointers give the program what C's library promises:
\* objects change only by what is done to them (malloc to strdup, mem*, str*).
ImplementsObjectStore == Program!StoreSpec
=============================================================================
