--------------------------- MODULE Session_proofs ---------------------------
(***************************************************************************)
(* For every set of binaries, arguments and functions: main gets its       *)
(* arguments whole, the table of thunks stays a table of names, load binds *)
(* every pointer as the linker meant it, stray accesses within the guards' *)
(* reach are reported, and a run is the program's own.                     *)
(***************************************************************************)
EXTENDS Session, TLAPS, WellFoundedInduction

\* The state of load alone, and what run adds to it.
LoadOK ==
  /\ image \in Images
  /\ mem \in [Cells -> Links]
  /\ heap_cur \in HeapStart .. HeapEnd
  /\ thunks \in Seq(CNames)
  /\ import_values \in Seq(Nat)
  /\ s \in Nat \ {0} /\ k \in Nat \ {0} /\ link \in Nat \cup {None}

RunOK ==
  /\ args \in ArgLists
  /\ cursor \in Info .. StackTop
  /\ argv_ptrs \in Seq(Cells)
  /\ exit_code \in Nat /\ x0 \in Nat
  /\ \E c \in Nat : StackTop - cursor = c * Ptr

----------------------------------------------------------------------------
(* Arithmetic.                                                             *)

\* A set of numbers has a least element.
Below == {ss \in Nat \X Nat : ss[1] < ss[2]}

LEMMA Least ==
  ASSUME NEW T \in SUBSET Nat, T # {}
  PROVE  \E x \in T : \A y \in T : x <= y
<1>1. IsWellFoundedOn(Below, Nat)
  <2>1. Below = OpToRel(<, Nat)
    BY Zenon DEF OpToRel, Below
  <2> QED BY <2>1, NatLessThanWellFounded, Zenon
<1>2. PICK x \in T : \A y \in T : ~(<<y, x>> \in Below)
  BY <1>1, WFMin
<1>3. \A y \in T : ~(y < x)
  BY <1>2 DEF Below
<1> QED BY <1>3

\* f holds the sums of the first of n numbers g.
Sums(f, g, n) == f = [j \in 0 .. n |-> IF j = 0 THEN 0 ELSE f[j - 1] + g[j]]

LEMMA SumsExist ==
  ASSUME NEW g PROVE \A n \in Nat : \E f : Sums(f, g, n)
<1> DEFINE T == {n \in Nat : ~\E f : Sums(f, g, n)}
<1> SUFFICES ASSUME T # {} PROVE FALSE
  OBVIOUS
<1>1. PICK n \in T : \A m \in T : n <= m
  <2>1. T \in SUBSET Nat
    OBVIOUS
  <2> HIDE DEF T
  <2> QED BY <2>1, Least
<1>2. n \in Nat /\ ~\E f : Sums(f, g, n)
  OBVIOUS
<1>3. CASE n = 0
  <2> DEFINE f == [j \in 0 .. 0 |-> 0]
  <2>1. Sums(f, g, 0)
    BY DEF Sums
  <2> QED BY <1>2, <1>3, <2>1
<1>4. CASE n # 0
  <2>1. n - 1 \in Nat /\ n - 1 \notin T
    BY <1>1, <1>2, <1>4
  <2>2. PICK f : Sums(f, g, n - 1)
    BY <2>1
  <2> DEFINE f1 == [j \in 0 .. n |-> IF j = n THEN f[n - 1] + g[n] ELSE f[j]]
             f2 == [j \in 0 .. n |-> IF j = 0 THEN 0 ELSE f1[j - 1] + g[j]]
  <2>3. ASSUME NEW j \in 0 .. n PROVE f1[j] = f2[j]
    <3>1. CASE j = n
      <4>1. n - 1 \in 0 .. n /\ n - 1 # n
        BY <1>2, <1>4
      <4> QED BY <1>2, <1>4, <3>1, <4>1
    <3>2. CASE j # n
      <4>1. j \in 0 .. n - 1 /\ (j # 0 => j - 1 \in 0 .. n /\ j - 1 # n)
        BY <1>2, <3>2
      <4>2. f[j] = IF j = 0 THEN 0 ELSE f[j - 1] + g[j]
        BY <2>2, <4>1 DEF Sums
      <4> QED BY <3>2, <4>1, <4>2
    <3> QED BY <3>1, <3>2
  <2>4. f1 = f2
    BY ONLY <2>3, Zenon
  <2>5. Sums(f1, g, n)
    BY <2>4 DEF Sums
  <2> QED BY <1>2, <2>5
<1> QED BY <1>3, <1>4

\* Sums of naturals are naturals and grow.
LEMMA SumsFacts ==
  ASSUME NEW n \in Nat, NEW g, \A j \in 1 .. n : g[j] \in Nat, NEW f, Sums(f, g, n)
  PROVE  /\ f[0] = 0 /\ \A j \in 1 .. n : f[j] = f[j - 1] + g[j]
         /\ \A j \in 0 .. n : f[j] \in Nat /\ f[j] <= f[n]
<1>1. f[0] = 0 /\ \A j \in 1 .. n : f[j] = f[j - 1] + g[j]
  BY DEF Sums
<1>2. \A j \in 0 .. n : f[j] \in Nat
  <2> DEFINE T == {j \in 0 .. n : f[j] \notin Nat}
  <2> SUFFICES ASSUME T # {} PROVE FALSE
    OBVIOUS
  <2>1. PICK j \in T : \A i \in T : j <= i
    <3>1. T \in SUBSET Nat
      OBVIOUS
    <3> HIDE DEF T
    <3> QED BY <3>1, Least
  <2>2. j # 0
    BY <1>1
  <2>3. j \in 1 .. n /\ j - 1 \in 0 .. n /\ j - 1 \notin T
    BY <2>1, <2>2
  <2> QED BY <1>1, <2>3
<1>3. \A j \in 0 .. n : f[j] <= f[n]
  <2> DEFINE T == {i \in 0 .. n : ~(f[n - i] <= f[n])}
  <2>1. T = {}
    <3> SUFFICES ASSUME T # {} PROVE FALSE
      OBVIOUS
    <3>1. PICK j \in T : \A i \in T : j <= i
      <4>1. T \in SUBSET Nat
        OBVIOUS
      <4> HIDE DEF T
      <4> QED BY <4>1, Least
    <3>2. j # 0
      BY <1>2
    <3>3. j \in 1 .. n /\ j - 1 \in 0 .. n /\ j - 1 \notin T
      BY <3>1, <3>2
    <3> DEFINE m == n - (j - 1)
    <3>4. m \in 1 .. n /\ m - 1 = n - j /\ f[m] <= f[n]
      BY <3>3
    <3>5. f[m] = f[m - 1] + g[m] /\ g[m] \in Nat /\ f[m - 1] \in Nat /\ f[m] \in Nat
          /\ f[n] \in Nat
      BY <1>1, <1>2, <3>4
    <3>6. f[n - j] <= f[n]
      <4> HIDE DEF m
      <4> QED BY <3>4, <3>5
    <3> QED BY <3>1, <3>6
  <2>2. ASSUME NEW j \in 0 .. n PROVE f[j] <= f[n]
    <3>1. n - j \in 0 .. n /\ n - (n - j) = j
      OBVIOUS
    <3>2. n - j \notin T
      BY <2>1
    <3> QED BY <3>1, <3>2
  <2> QED BY <2>2
<1> QED BY <1>1, <1>2, <1>3

\* A word cut to the size of a word is the word.
LEMMA ModSmall ==
  ASSUME NEW d \in Nat, NEW m \in Nat, m < d
  PROVE  m % d = m
<1>1. PICK q \in Nat, r \in Nat : m = d * q + r /\ r < d /\ r = m % d
  <2>1. m \div d \in Nat /\ m % d \in Nat /\ m % d < d
        /\ m = d * (m \div d) + (m % d)
    OBVIOUS
  <2> QED BY <2>1
<1>2. CASE q = 0
  BY <1>1, <1>2
<1>3. CASE q >= 1
  <2>1. d * q >= d
    BY <1>3
  <2> QED BY <1>1, <2>1
<1> QED BY <1>1, <1>2, <1>3

\* A full turn leaves a word as it is.
LEMMA ModTurn ==
  ASSUME NEW d \in Nat, NEW m \in Nat, m < d
  PROVE  (d * 1 + m) % d = m
<1>1. PICK q \in Nat, r \in Nat : d + m = d * q + r /\ r < d /\ r = (d + m) % d
  <2> DEFINE v == d + m
  <2>1. v \in Nat /\ d > 0
    OBVIOUS
  <2>2. v \div d \in Nat /\ v % d \in Nat /\ v % d < d /\ v = d * (v \div d) + (v % d)
    <3> HIDE DEF v
    <3> QED BY <2>1
  <2> QED BY <2>2
<1>2. CASE q = 1
  BY <1>1, <1>2
<1>3. CASE q = 0
  BY <1>1, <1>3
<1>4. CASE q >= 2
  <2>1. d * (q - 2) >= 0
    BY <1>4
  <2>2. d * (q - 2) = d * q - 2 * d
    OBVIOUS
  <2> QED BY <1>1, <2>1, <2>2
<1> QED BY <1>1, <1>2, <1>3, <1>4

\* A wrapped difference is the difference plus one turn.
LEMMA ModBelow ==
  ASSUME NEW d \in Nat, NEW m \in Nat, 0 < m, m <= d
  PROVE  (-m) % d = d - m
<1> DEFINE v == 0 - m
<1>1. PICK q \in Int, r \in Nat : v = d * q + r /\ r < d /\ r = v % d
  <2>1. v \in Int /\ d > 0
    OBVIOUS
  <2>2. v \div d \in Int /\ v % d \in Nat /\ v % d < d /\ v = d * (v \div d) + (v % d)
    <3> HIDE DEF v
    <3> QED BY <2>1
  <2> HIDE DEF v
  <2> QED BY <2>2
<1>2. CASE q = -1
  BY <1>1, <1>2
<1>3. CASE q >= 0
  <2>1. d * q >= 0
    BY <1>3
  <2> QED BY <1>1, <2>1
<1>4. CASE q <= -2
  <2>1. d * (q + 2) <= 0
    BY <1>4
  <2>2. d * (q + 2) = d * q + 2 * d
    OBVIOUS
  <2> QED BY <1>1, <2>1, <2>2
<1> QED BY <1>1, <1>2, <1>3, <1>4

\* A size in whole grains covers the size and adds less than a grain.
LEMMA NeedFacts ==
  ASSUME NEW n \in Nat, n + Grain <= WordSize
  PROVE  /\ Need(n) \in Nat /\ n <= Need(n) /\ Need(n) <= n + Grain - 1
         /\ \E j \in Nat : Need(n) = j * Grain
<1> DEFINE v == n + (Grain - 1)
           j == v \div Grain
<1>1. v \in Nat /\ v < WordSize /\ Grain \in Nat /\ Grain > 0 /\ WordSize \in Nat
  BY LayoutAssumption
<1>2. v % WordSize = v
  BY <1>1, ModSmall
<1>3. j \in Nat /\ v = Grain * j + (v % Grain) /\ v % Grain \in 0 .. Grain - 1
  <2> HIDE DEF v
  <2> QED BY <1>1
<1>4. Need(n) = j * Grain
  BY <1>2 DEF Need
<1>5. j * Grain = Grain * j
  BY <1>1, <1>3
<1>6. j * Grain \in Nat
  BY <1>1, <1>3
<1>7. v = n + (Grain - 1) /\ v % Grain \in 0 .. Grain - 1 /\ j \in Nat
      /\ v = Grain * j + (v % Grain)
  BY <1>3
<1> HIDE DEF j, v
<1>8. j * Grain = n + (Grain - 1) - (v % Grain)
  BY <1>1, <1>5, <1>6, <1>7
<1>9. n <= Need(n) /\ Need(n) <= n + Grain - 1
  BY <1>1, <1>4, <1>6, <1>7, <1>8
<1> QED BY <1>4, <1>6, <1>7, <1>9

----------------------------------------------------------------------------
(* The window and its guards.                                              *)

\* The host's check of an access is exact for every address and length a
\* register can hold: no sum in it wraps (Emu::in_range).
THEOREM InRangeExact ==
  ASSUME NEW addr \in Words, NEW len \in Words
  PROVE  InRange(addr, len) <=> Base <= addr /\ addr + len <= Base + WindowSize
BY LayoutAssumption DEF InRange, Words

\* What translated code touches when it accesses guest address g without a
\* check, for every g within a guard's size of the window: the host byte that
\* stands for g, inside the mapping; the fault handler takes the fault for the
\* guest's and reports g itself (Emu::map_memory, guest_fault_handler).
THEOREM GuardsCatch ==
  ASSUME NEW g \in Words, Base - Guard <= g, g < Base + WindowSize + Guard
  PROVE  /\ HostAddr(g) = MemAt + (g - Base)
         /\ Caught(HostAddr(g))
         /\ FaultAddr(HostAddr(g)) = g
<1>1. /\ Base \in Nat /\ MemAt \in Nat /\ Guard \in Nat /\ WindowSize \in Nat
      /\ WordSize \in Nat /\ Base < WordSize /\ MemAt < WordSize
      /\ Guard <= MemAt /\ MemAt + WindowSize + Guard < WordSize
      /\ g \in Nat /\ g < WordSize
  BY LayoutAssumption, MappingAssumption DEF Words
<1> DEFINE h == MemAt + (g - Base)
<1>2. h \in Nat /\ h < WordSize
  BY <1>1
<1>3. HostAddr(g) = h /\ (h - MemBias) % WordSize = g
  <2>1. CASE MemAt >= Base
    <3>1. MemBias = MemAt - Base
      BY <1>1, <2>1, ModSmall DEF MemBias
    <3>2. MemBias + g = h /\ h - MemBias = g
      BY <1>1, <3>1
    <3> HIDE DEF h
    <3> QED BY <1>1, <1>2, <3>2, ModSmall DEF HostAddr
  <2>2. CASE MemAt < Base
    <3> DEFINE m == Base - MemAt
    <3>1. m \in Nat /\ 0 < m /\ m <= WordSize
      BY <1>1, <2>2
    <3>2. (-m) % WordSize = WordSize - m
      BY <1>1, <3>1, ModBelow
    <3>3. MemAt - Base = -m
      BY <1>1
    <3>4. MemBias = WordSize - m
      BY <3>2, <3>3 DEF MemBias
    <3>5. MemBias + g = WordSize + h
      BY <1>1, <3>4
    <3>6. (WordSize * 1 + h) % WordSize = h
      <4> HIDE DEF h
      <4> QED BY <1>1, <1>2, ModTurn
    <3>7. HostAddr(g) = h
      <4>1. WordSize * 1 + h = WordSize + h
        BY <1>1, <1>2
      <4> QED BY <3>5, <3>6, <4>1 DEF HostAddr
    <3>8. h - MemBias = g - WordSize
      BY <1>1, <3>4
    <3>9. (g - WordSize) % WordSize = g
      <4>1. CASE g = 0
        <5>1. 0 < WordSize /\ WordSize <= WordSize
          BY <1>1
        <5>2. (-WordSize) % WordSize = WordSize - WordSize
          BY ONLY <1>1, <5>1, ModBelow
        <5>3. g - WordSize = -WordSize /\ WordSize - WordSize = 0
          BY <1>1, <4>1
        <5> QED BY <4>1, <5>2, <5>3
      <4>2. CASE g > 0
        <5>1. WordSize - g \in Nat /\ 0 < WordSize - g /\ WordSize - g <= WordSize
          BY <1>1, <4>2
        <5>2. (-(WordSize - g)) % WordSize = WordSize - (WordSize - g)
          BY <1>1, <5>1, ModBelow
        <5>3. g - WordSize = -(WordSize - g)
          BY <1>1
        <5> QED BY <1>1, <5>2, <5>3
      <4> QED BY <1>1, <4>1, <4>2
    <3> QED BY <3>7, <3>8, <3>9
  <2> QED BY <1>1, <2>1, <2>2
<1>4. Caught(h)
  BY <1>1 DEF Caught
<1> QED BY <1>3, <1>4 DEF FaultAddr

----------------------------------------------------------------------------
(* Load.                                                                   *)

LEMMA LayoutFacts ==
  /\ Base \in Nat /\ WindowSize \in Nat /\ Ptr \in Nat /\ 1 <= Ptr /\ Grain \in Nat
  /\ HeapStart \in Nat /\ HeapEnd \in Nat /\ HeapStart <= HeapEnd /\ WordSize \in Nat
  /\ Need(Ptr) \in Nat
<1>1. /\ Base \in Nat /\ WindowSize \in Nat /\ Ptr \in Nat /\ 1 <= Ptr /\ Grain \in Nat
      /\ HeapStart \in Nat /\ HeapEnd \in Nat /\ HeapStart <= HeapEnd /\ WordSize \in Nat
      /\ Ptr + Grain <= WordSize
  BY LayoutAssumption, PtrAssumption DEF HeapStart, HeapEnd
<1>2. Need(Ptr) \in Nat
  BY <1>1, NeedFacts
<1> QED BY <1>1, <1>2

\* Writing a pointer's worth keeps the window a window.
LEMMA WriteFacts ==
  ASSUME NEW m \in [Cells -> Links], NEW a \in Int, NEW v \in Nat
  PROVE  WritePtr(m, a, v) \in [Cells -> Links]
<1>1. Plain(v) \in Links
  BY DEF Plain, Links
<1> QED BY <1>1 DEF WritePtr

\* A name has at most one index; thunk_for gives it or the next free one.
LEMMA ThunkFacts ==
  ASSUME thunks \in Seq(CNames), NEW name \in CNames
  PROVE  /\ thunk_for(name) \in Nat
         /\ ThunksWith(name) \in Seq(CNames)
<1>1. CASE HasThunk(name)
  <2>1. PICK j \in DOMAIN thunks : thunks[j] = name
    BY <1>1 DEF HasThunk
  <2>2. (CHOOSE i \in DOMAIN thunks : thunks[i] = name) \in DOMAIN thunks
    BY <2>1
  <2>3. DOMAIN thunks \subseteq Nat \ {0}
    OBVIOUS
  <2> QED BY <1>1, <2>2, <2>3, ThunkAssumption DEF thunk_for, ThunksWith
<1>2. CASE ~HasThunk(name)
  BY <1>2, ThunkAssumption DEF thunk_for, ThunksWith
<1> QED BY <1>1, <1>2

LEMMA StrippedFacts ==
  ASSUME NEW raw \in CNames
  PROVE  Stripped(raw) \in CNames
BY DEF Stripped, CNames

\* What resolve_import does to any of the three is within their types.
LEMMA ResolveFacts ==
  ASSUME LoadOK, NEW name \in CNames
  PROVE  /\ Resolved(name) \in Nat
         /\ MemWith(name) \in [Cells -> Links]
         /\ Resolve(name) => heap_cur' \in HeapStart .. HeapEnd /\ thunks' \in Seq(CNames)
<1>1. heap_cur \in Nat /\ NewCell \in Nat
  BY LayoutFacts DEF LoadOK, NewCell
<1>2. IsData(name) => HostData[name] \in Nat
  BY NamesAssumption DEF IsData
<1>3. Resolved(name) \in Nat
  BY <1>1, ThunkFacts DEF Resolved, LoadOK
<1>4. MemWith(name) \in [Cells -> Links]
  <2>1. WritePtr(mem, heap_cur, Need(Ptr)) \in [Cells -> Links]
    BY <1>1, LayoutFacts, WriteFacts DEF LoadOK
  <2>2. IsData(name) =>
          WritePtr(WritePtr(mem, heap_cur, Need(Ptr)), NewCell, HostData[name])
            \in [Cells -> Links]
    BY <1>1, <1>2, <2>1, WriteFacts
  <2> QED BY <2>2 DEF MemWith, LoadOK
<1>5. ASSUME Resolve(name)
      PROVE  heap_cur' \in HeapStart .. HeapEnd /\ thunks' \in Seq(CNames)
  <2>1. thunks' \in Seq(CNames)
    BY <1>5, ThunkFacts DEF Resolve, LoadOK
  <2>2. CASE IsData(name) /\ ~NoCell
    <3>1. heap_cur' = heap_cur + Grain + Need(Ptr)
      BY <1>5, <2>2 DEF Resolve, NewCell
    <3>2. heap_cur + Need(Ptr) + Grain <= HeapEnd
      BY <1>1, <2>2, LayoutFacts DEF NoCell
    <3> QED BY <1>1, <2>1, <3>1, <3>2, LayoutFacts DEF LoadOK
  <2>3. CASE ~(IsData(name) /\ ~NoCell)
    BY <1>5, <2>1, <2>3 DEF Resolve, LoadOK
  <2> QED BY <2>2, <2>3
<1> QED BY <1>3, <1>4, <1>5

LEMMA ElementOf ==
  ASSUME NEW S, NEW q \in Seq(S), NEW i \in Nat \ {0}, i <= Len(q)
  PROVE  q[i] \in S
OBVIOUS

LEMMA ElementIn ==
  ASSUME NEW S, NEW q \in Seq(S), NEW i \in DOMAIN q
  PROVE  q[i] \in S /\ i \in Nat \ {0} /\ i <= Len(q)
OBVIOUS

LEMMA GotoFacts ==
  ASSUME NEW p, Goto(p)
  PROVE  phase' = p /\ s' \in Nat \ {0} /\ k' \in Nat \ {0}
BY DEF Goto

LEMMA LoadInitOK == LoadInit => LoadOK
<1> SUFFICES ASSUME LoadInit PROVE LoadOK
  OBVIOUS
<1>1. mem \in [Cells -> Links]
  BY DEF LoadInit, Plain, Links
<1>2. heap_cur \in HeapStart .. HeapEnd
  BY LayoutFacts DEF LoadInit
<1>3. thunks \in Seq(CNames) /\ import_values \in Seq(Nat)
  BY NamesAssumption DEF LoadInit
<1> QED BY <1>1, <1>2, <1>3 DEF LoadInit, LoadOK

\* Each step of load keeps its state in order.
LEMMA LoadKeeps == LoadOK /\ Load => LoadOK'
<1> SUFFICES ASSUME LoadOK, Load PROVE LoadOK'
  OBVIOUS
<1>i. /\ image \in Images
      /\ mem \in [Cells -> Links]
      /\ heap_cur \in HeapStart .. HeapEnd
      /\ thunks \in Seq(CNames)
      /\ import_values \in Seq(Nat)
      /\ s \in Nat \ {0} /\ k \in Nat \ {0} /\ link \in Nat \cup {None}
  BY DEF LoadOK
<1>im. /\ image.segs \in Seq([vmaddr : Nat, vmsize : Nat, data : Seq(Links)])
       /\ image.imports \in Seq(CNames)
       /\ image.starts \in Seq([known : BOOLEAN, offset_form : BOOLEAN, segment_offset : Nat,
                          page_start : Seq(Nat \cup {None})])
       /\ image.sections \in Seq([addr : Nat, syms : Seq(CNames)])
  BY <1>i, ImagesAssumption
<1>1. CASE Open
  BY <1>i, <1>1, GotoFacts DEF Open, LoadOK
<1>2. CASE CopySegment
  <2> DEFINE seg == image.segs[s]
  <2>1. seg \in [vmaddr : Nat, vmsize : Nat, data : Seq(Links)]
    <3>1. s <= Len(image.segs)
      BY <1>2 DEF CopySegment
    <3> QED BY <1>i, <1>im, <3>1, ElementOf
  <2>2. s' \in Nat \ {0} /\ k' \in Nat \ {0}
    BY <1>i, <1>2, GotoFacts DEF CopySegment
  <2>3. mem' \in [Cells -> Links]
    <3>1. CASE seg.data # <<>> /\ InRange(seg.vmaddr, seg.vmsize)
      <4>1. mem' = [a \in Cells |->
              IF a \in seg.vmaddr .. seg.vmaddr + Len(seg.data) - 1
              THEN seg.data[a - seg.vmaddr + 1] ELSE mem[a]]
        BY <1>2, <3>1 DEF CopySegment
      <4>2. ASSUME NEW a \in Cells, a \in seg.vmaddr .. seg.vmaddr + Len(seg.data) - 1
            PROVE  seg.data[a - seg.vmaddr + 1] \in Links
        <5>1. a - seg.vmaddr + 1 \in 1 .. Len(seg.data)
          BY <2>1, <4>2
        <5> QED BY <2>1, <5>1
      <4> HIDE DEF seg
      <4> QED BY <1>i, <4>1, <4>2
    <3>2. CASE ~(seg.data # <<>> /\ InRange(seg.vmaddr, seg.vmsize))
      BY <1>i, <1>2, <3>2 DEF CopySegment
    <3> QED BY <3>1, <3>2
  <2> QED BY <1>i, <1>2, <2>2, <2>3 DEF CopySegment, LoadOK
<1>3. CASE FindEntry
  BY <1>i, <1>3, GotoFacts DEF FindEntry, LoadOK
<1>4. CASE Import
  <2> DEFINE name == Stripped(image.imports[s])
  <2>1. name \in CNames
    BY <1>i, <1>im, <1>4, StrippedFacts DEF Import
  <2>2. CASE image.known
    <3>1. CASE Resolve(name) /\ mem' = MemWith(name)
               /\ import_values' = Append(import_values, Resolved(name)) /\ s' = s + 1
               /\ UNCHANGED <<phase, k>>
      <4> HIDE DEF name
      <4>1. mem' \in [Cells -> Links] /\ import_values' \in Seq(Nat)
            /\ heap_cur' \in HeapStart .. HeapEnd /\ thunks' \in Seq(CNames)
        BY <1>i, <2>1, <3>1, ResolveFacts
      <4> QED BY <1>i, <1>4, <3>1, <4>1 DEF Import, LoadOK
    <3> QED BY <1>4, <2>2, <3>1 DEF Import
  <2>3. CASE ~image.known
    BY <1>i, <1>4, <2>3, GotoFacts DEF Import, LoadOK
  <2> QED BY <2>2, <2>3
<1>5. CASE ImportsDone
  BY <1>i, <1>5, GotoFacts DEF ImportsDone, LoadOK
<1>6. CASE NextPage
  <2> DEFINE seg == image.starts[s]
  <2>1. seg \in [known : BOOLEAN, offset_form : BOOLEAN, segment_offset : Nat,
                 page_start : Seq(Nat \cup {None})]
    <3>1. s <= Len(image.starts)
      BY <1>6 DEF NextPage
    <3> QED BY <1>i, <1>im, <3>1, ElementOf
  <2>l. Len(seg.page_start) \in Nat /\ seg.known \in BOOLEAN
    BY <2>1
  <2>n. \/ /\ seg.known /\ k <= Len(seg.page_start)
           /\ link' = IF seg.page_start[k] = None THEN None
                      ELSE Base + seg.segment_offset + (k - 1) * PageSize + seg.page_start[k]
           /\ k' = k + 1 /\ s' = s
        \/ /\ ~seg.known \/ k > Len(seg.page_start)
           /\ s' = s + 1 /\ k' = 1 /\ link' = link
    BY <1>6 DEF NextPage
  <2>2. CASE seg.known /\ k <= Len(seg.page_start)
    <3>1. seg.page_start[k] \in Nat \cup {None}
      BY <1>i, <2>1, <2>2
    <3>2. (k - 1) * PageSize \in Nat
      BY <1>i, NamesAssumption
    <3>3. link' = IF seg.page_start[k] = None THEN None
                  ELSE Base + seg.segment_offset + (k - 1) * PageSize + seg.page_start[k]
      <4> HIDE DEF seg
      <4> QED BY <1>i, <2>2, <2>l, <2>n
    <3>4. link' \in Nat \cup {None}
      <4> HIDE DEF seg
      <4> QED BY <2>1, <3>1, <3>2, <3>3, LayoutFacts
    <3>5. k' = k + 1 /\ s' = s
      <4> HIDE DEF seg
      <4> QED BY <1>i, <2>2, <2>l, <2>n
    <3> QED BY <1>i, <1>6, <3>4, <3>5 DEF NextPage, LoadOK
  <2>3. CASE ~(seg.known /\ k <= Len(seg.page_start))
    BY <1>i, <1>6, <2>3 DEF NextPage, LoadOK
  <2> QED BY <2>2, <2>3
<1>7. CASE FixLink
  <2> DEFINE raw == ReadPtr(link)
             v == IF image.starts[s].offset_form THEN Base + raw.n ELSE raw.n
  <2>1. link \in Nat
    BY <1>i, <1>7 DEF FixLink
  <2>2. raw \in Links
    <3>1. CASE InRange(link, Ptr)
      <4>1. link \in Cells
        BY <2>1, <3>1, LayoutFacts DEF InRange, Cells
      <4> QED BY <1>i, <3>1, <4>1 DEF ReadPtr
    <3>2. CASE ~InRange(link, Ptr)
      BY <3>2 DEF ReadPtr, Plain, Links
    <3> QED BY <3>1, <3>2
  <2>3. raw.bind \in BOOLEAN /\ raw.next \in Nat /\ raw.n \in Nat
    BY <2>2 DEF Links
  <2>4. v \in Nat
    BY <2>3, LayoutFacts
  <2>5. Bound(raw) \in [Cells -> Links]
    <3>1. raw.n < Len(import_values) => import_values[raw.n + 1] \in Nat
      BY <1>i, <2>3
    <3> HIDE DEF raw
    <3> QED BY <1>i, <2>1, <3>1, WriteFacts DEF Bound
  <2>6. WritePtr(mem, link, v) \in [Cells -> Links]
    BY <1>i, <2>1, <2>4, WriteFacts
  <2>7. mem' = (IF raw.bind THEN Bound(raw) ELSE WritePtr(mem, link, v))
        /\ link' = Following(raw)
    BY <1>7 DEF FixLink
  <2>8. link' \in Nat \cup {None}
    BY <2>1, <2>3, <2>7 DEF Following
  <2>9. mem' \in [Cells -> Links]
    BY <2>5, <2>6, <2>7
  <2> QED BY <1>i, <1>7, <2>8, <2>9 DEF FixLink, LoadOK
<1>8. CASE ChainsDone
  BY <1>i, <1>8, GotoFacts DEF ChainsDone, LoadOK
<1>9. CASE BindSlot
  <2> DEFINE sect == image.sections[s]
             name == Stripped(sect.syms[k])
             at == sect.addr + (k - 1) * Ptr
  <2>1. sect \in [addr : Nat, syms : Seq(CNames)]
    <3>1. s <= Len(image.sections)
      BY <1>9 DEF BindSlot
    <3> QED BY <1>i, <1>im, <3>1, ElementOf
  <2>l. Len(sect.syms) \in Nat
    BY <2>1
  <2>2. CASE k <= Len(sect.syms) /\ sect.syms[k] # Skipped
    <3>1. name \in CNames
      <4>1. sect.syms[k] \in CNames
        BY <1>i, <2>1, <2>2
      <4> QED BY <4>1, StrippedFacts
    <3>2. at \in Nat
      <4>1. (k - 1) * Ptr \in Nat
        BY <1>i, LayoutFacts
      <4> QED BY <2>1, <4>1
    <3>3. Resolve(name) /\ mem' = WritePtr(MemWith(name), at, Resolved(name))
          /\ k' = k + 1 /\ s' = s
      BY <1>i, <1>9, <2>2, <2>l DEF BindSlot
    <3>4. heap_cur' \in HeapStart .. HeapEnd /\ thunks' \in Seq(CNames)
          /\ MemWith(name) \in [Cells -> Links] /\ Resolved(name) \in Nat
      <4> HIDE DEF name
      <4> QED BY <3>1, <3>3, ResolveFacts
    <3>5. mem' \in [Cells -> Links]
      <4> HIDE DEF name, at
      <4> QED BY <3>2, <3>3, <3>4, WriteFacts
    <3> QED BY <1>i, <1>9, <3>3, <3>4, <3>5 DEF BindSlot, LoadOK
  <2>3. CASE ~(k <= Len(sect.syms) /\ sect.syms[k] # Skipped)
    BY <1>i, <1>9, <2>3 DEF BindSlot, LoadOK
  <2> QED BY <2>2, <2>3
<1>10. CASE SectionsDone
  BY <1>i, <1>10, GotoFacts DEF SectionsDone, LoadOK
<1> QED BY <1>1, <1>2, <1>3, <1>4, <1>5, <1>6, <1>7, <1>8, <1>9, <1>10 DEF Load

----------------------------------------------------------------------------
(* run.                                                                    *)

\* What a number is made of, for a divisor.
LEMMA DivFacts ==
  ASSUME NEW v \in Nat, NEW n \in Nat, 1 <= n
  PROVE  /\ v \div n \in Nat /\ v % n \in 0 .. n - 1
         /\ v = n * (v \div n) + (v % n) /\ v = (v \div n) * n + (v % n)
OBVIOUS

\* Rounding up gives a multiple, and stays below a bound that is one.
LEMMA AlignedFacts ==
  ASSUME NEW a \in Nat, NEW n \in Nat, 1 <= n
  PROVE  /\ Aligned(a, n) \in Nat /\ a <= Aligned(a, n) /\ Aligned(a, n) <= a + n - 1
         /\ \E q \in Nat : Aligned(a, n) = q * n
         /\ \A t \in Nat : a <= t * n =>
              \E c \in Nat : t * n - Aligned(a, n) = c * n
<1> DEFINE v == a + (n - 1)
           q == v \div n
<1>1. v \in Nat
  OBVIOUS
<1>2. q \in Nat /\ v % n \in 0 .. n - 1 /\ v = q * n + (v % n)
  <2> HIDE DEF v
  <2> QED BY <1>1, DivFacts
<1>3. Aligned(a, n) = q * n
  BY DEF Aligned
<1>4. v = a + (n - 1) /\ q * n \in Nat
  BY <1>2
<1> HIDE DEF v, q
<1>5. ASSUME NEW t \in Nat, a <= t * n
      PROVE  \E c \in Nat : t * n - Aligned(a, n) = c * n
  <2>1. q <= t
    <3> SUFFICES ASSUME q >= t + 1 PROVE FALSE
      BY <1>2
    <3>1. q * n >= (t + 1) * n /\ (t + 1) * n = t * n + n /\ t * n \in Nat
      BY <1>2
    <3> QED BY <1>2, <1>4, <1>5, <3>1
  <2>2. t - q \in Nat /\ (t - q) * n = t * n - q * n
    BY <1>2, <2>1
  <2> QED BY <1>3, <2>2
<1>6. Aligned(a, n) \in Nat /\ a <= Aligned(a, n) /\ Aligned(a, n) <= a + n - 1
  BY <1>2, <1>3, <1>4
<1> QED BY <1>2, <1>3, <1>5, <1>6

\* A multiple divided is the factor.
LEMMA DivExact ==
  ASSUME NEW j \in Nat, NEW n \in Nat, 1 <= n
  PROVE  (j * n) \div n = j
<1> DEFINE v == j * n
           q == v \div n
<1>1. v \in Nat /\ v = n * j
  OBVIOUS
<1>2. q \in Nat /\ v = n * q + (v % n) /\ v % n \in 0 .. n - 1
  <2> HIDE DEF v
  <2> QED BY <1>1
<1> HIDE DEF v, q
<1>3. ~(q >= j + 1)
  <2> SUFFICES ASSUME q >= j + 1 PROVE FALSE
    OBVIOUS
  <2>1. n * q >= n * (j + 1) /\ n * (j + 1) = n * j + n
    BY <1>2
  <2> QED BY <1>1, <1>2, <2>1
<1>4. ~(j >= q + 1)
  <2> SUFFICES ASSUME j >= q + 1 PROVE FALSE
    OBVIOUS
  <2>1. n * j >= n * (q + 1) /\ n * (q + 1) = n * q + n
    BY <1>2
  <2> QED BY <1>1, <1>2, <2>1
<1>5. q = j
  BY <1>2, <1>3, <1>4
<1> QED BY <1>5 DEF q, v

LEMMA StackFacts ==
  ASSUME args \in ArgLists
  PROVE  /\ Info \in Nat /\ StackTop \in Nat /\ Base <= Info /\ Info <= StackTop
         /\ StackTop < Base + WindowSize /\ Base < ThunkBase /\ ThunkBase \in Nat
         /\ \E c \in Nat : StackTop - Info = c * Ptr
<1>1. /\ StackTopOff \in Nat /\ ArgvArea \in Nat /\ ArgvArea % Ptr = 0
      /\ HeapOff + HeapSize + ArgvArea <= StackTopOff
      /\ StackTopOff + Grain + (Len(args) + 3) * Ptr <= WindowSize
  BY StackAssumption
<1>2. Len(args) \in Nat
  BY GuestAssumption
<1>3. (Len(args) + 3) * Ptr \in Nat
  BY <1>2, LayoutFacts
<1>4. HeapOff \in Nat /\ HeapSize \in Nat /\ Grain \in Nat \ {0} /\ Base + WindowSize <= ThunkBase
      /\ ThunkBase \in Nat
  BY LayoutAssumption, ThunkAssumption
<1>5. \E c \in Nat : StackTop - Info = c * Ptr
  <2>1. ArgvArea \div Ptr \in Nat /\ ArgvArea = (ArgvArea \div Ptr) * Ptr
    <3> DEFINE c == ArgvArea \div Ptr
    <3>1. c \in Nat /\ ArgvArea = c * Ptr + (ArgvArea % Ptr)
      BY <1>1, LayoutFacts, DivFacts
    <3>2. c * Ptr \in Nat
      BY <3>1, LayoutFacts
    <3> HIDE DEF c
    <3> QED BY <1>1, <3>1, <3>2 DEF c
  <2>2. StackTop - Info = ArgvArea
    BY <1>1, LayoutFacts DEF Info, StackTop
  <2> QED BY <2>1, <2>2
<1> QED BY <1>1, <1>3, <1>4, <1>5, LayoutFacts DEF Info, StackTop

TypeInv == LoadOK /\ RunOK

LEMMA InitOK == Init => TypeInv
<1> SUFFICES ASSUME Init PROVE TypeInv
  OBVIOUS
<1>1. LoadOK
  BY LoadInitOK DEF Init
<1>2. args \in ArgLists /\ cursor = Info /\ argv_ptrs = <<>> /\ exit_code = 0 /\ x0 = 0
  BY DEF Init
<1>3. Info \in Info .. StackTop
  BY <1>2, StackFacts
<1>4. \E c \in Nat : StackTop - cursor = c * Ptr
  BY <1>2, StackFacts
<1> QED BY <1>1, <1>2, <1>3, <1>4 DEF TypeInv, RunOK

LEMMA PushArgOK == TypeInv /\ PushArg => TypeInv'
<1> SUFFICES ASSUME TypeInv, PushArg PROVE TypeInv'
  OBVIOUS
<1>i. /\ LoadOK /\ args \in ArgLists /\ cursor \in Info .. StackTop
      /\ argv_ptrs \in Seq(Cells) /\ exit_code \in Nat /\ x0 \in Nat
  BY DEF TypeInv, RunOK
<1>1. Len(args[s]) \in Nat /\ args[s] \in Seq(Nat)
  <2>1. args \in Seq(Seq(Nat)) /\ s <= Len(args) /\ s \in Nat \ {0}
    BY <1>i, GuestAssumption DEF PushArg, LoadOK
  <2>2. args[s] \in Seq(Nat)
    BY <2>1, ElementOf
  <2> QED BY <2>2
<1>2. CASE cursor + Len(args[s]) < StackTop
  <2>1. /\ mem' = [a \in Cells |-> IF a \in cursor .. cursor + Len(args[s]) - 1
                                   THEN Plain(args[s][a - cursor + 1]) ELSE mem[a]]
        /\ argv_ptrs' = Append(argv_ptrs, cursor) /\ cursor' = Past(args[s])
        /\ s' = s + 1 /\ k' = k
    BY <1>i, <1>1, <1>2, StackFacts DEF PushArg
  <2>2. cursor \in Cells
    BY <1>i, <1>1, <1>2, StackFacts, LayoutFacts DEF Cells
  <2>3. cursor' \in Info .. StackTop /\ \E d \in Nat : StackTop - cursor' = d * Ptr
    <3>1. PICK c \in Nat : StackTop - cursor = c * Ptr
      BY DEF TypeInv, RunOK
    <3>2. cursor \in Nat /\ StackTop \in Nat /\ Len(args[s]) <= c * Ptr /\ c * Ptr \in Nat
      BY <1>i, <1>1, <1>2, <3>1, StackFacts, LayoutFacts
    <3>3. PICK d \in Nat : c * Ptr - Aligned(Len(args[s]), Ptr) = d * Ptr
      <4>1. \A t \in Nat : Len(args[s]) <= t * Ptr =>
              \E d \in Nat : t * Ptr - Aligned(Len(args[s]), Ptr) = d * Ptr
        BY <1>1, LayoutFacts, AlignedFacts
      <4> QED BY <3>1, <3>2, <4>1
    <3>4. Aligned(Len(args[s]), Ptr) \in Nat
      BY <1>1, LayoutFacts, AlignedFacts
    <3>5. cursor' = cursor + Aligned(Len(args[s]), Ptr)
      BY <2>1 DEF Past
    <3>6. StackTop - cursor' = d * Ptr /\ d * Ptr \in Nat
      BY <3>1, <3>2, <3>3, <3>4, <3>5, LayoutFacts
    <3> QED BY <1>i, <3>2, <3>4, <3>5, <3>6, StackFacts
  <2>4. mem' \in [Cells -> Links]
    <3>1. ASSUME NEW a \in Cells, a \in cursor .. cursor + Len(args[s]) - 1
          PROVE  Plain(args[s][a - cursor + 1]) \in Links
      <4>1. a - cursor + 1 \in 1 .. Len(args[s])
        BY <1>i, <1>1, <3>1, StackFacts
      <4> QED BY <1>1, <4>1 DEF Plain, Links
    <3>2. mem \in [Cells -> Links]
      BY <1>i DEF LoadOK
    <3> QED BY <2>1, <3>1, <3>2
  <2>5. UNCHANGED <<image, link, heap_cur, thunks, import_values, args, x0, exit_code>>
    BY DEF PushArg
  <2>6. LoadOK'
    BY <1>i, <2>1, <2>4, <2>5 DEF LoadOK
  <2>7. argv_ptrs' \in Seq(Cells)
    BY <1>i, <2>1, <2>2
  <2> QED BY <1>i, <2>3, <2>5, <2>6, <2>7 DEF TypeInv, RunOK
<1>3. CASE cursor + Len(args[s]) >= StackTop
  <2>1. ~(cursor + Len(args[s]) < StackTop)
    BY <1>i, <1>1, <1>3, StackFacts
  <2>2. UNCHANGED <<image, link, mem, heap_cur, thunks, import_values, args, cursor,
                   argv_ptrs, x0, exit_code>> /\ Goto("argv")
    BY <2>1 DEF PushArg
  <2> QED BY <1>i, <2>2, GotoFacts DEF TypeInv, RunOK, LoadOK
<1> QED BY <1>2, <1>3 DEF PushArg

LEMMA StartOK == TypeInv /\ Start => TypeInv'
<1> SUFFICES ASSUME TypeInv, Start PROVE TypeInv'
  OBVIOUS
<1>i. /\ LoadOK /\ args \in ArgLists /\ cursor \in Info .. StackTop
      /\ argv_ptrs \in Seq(Cells) /\ exit_code \in Nat /\ x0 \in Nat
      /\ mem \in [Cells -> Links]
  BY DEF TypeInv, RunOK, LoadOK
<1> DEFINE n     == Len(argv_ptrs)
           argv  == Aligned(cursor, Grain)
           envp  == argv + (n + 1) * Ptr
           apple == envp + Ptr
           At(a) == ((a - argv) \div Ptr) + 1
<1>1. /\ mem' = [a \in Cells |->
             IF \E j \in 1 .. n : a = argv + (j - 1) * Ptr
             THEN Plain(argv_ptrs[At(a)])
             ELSE IF a \in {envp - Ptr, envp, apple} THEN Plain(0) ELSE mem[a]]
      /\ x0' = n
      /\ Goto("running")
      /\ UNCHANGED <<image, link, heap_cur, thunks, import_values, args, cursor, argv_ptrs,
                     exit_code>>
  BY DEF Start
<1>2. n \in Nat
  BY <1>i
<1>3. argv \in Int
  <2>1. cursor \in Nat /\ Grain \in Nat /\ Grain > 0
    BY <1>i, StackFacts, LayoutAssumption
  <2>2. (cursor + (Grain - 1)) \div Grain \in Int
    BY <2>1
  <2> QED BY <2>1, <2>2 DEF Aligned
<1> HIDE DEF n, argv
<1>4. ASSUME NEW a \in Cells, NEW j \in 1 .. n, a = argv + (j - 1) * Ptr
      PROVE  Plain(argv_ptrs[At(a)]) \in Links
  <2>1. j - 1 \in Nat
    BY <1>2
  <2>2. (j - 1) * Ptr \in Nat
    BY <2>1, LayoutFacts
  <2>3. a - argv = (j - 1) * Ptr
    BY <1>3, <1>4, <2>2
  <2>4. ((j - 1) * Ptr) \div Ptr = j - 1
    BY <2>1, LayoutFacts, DivExact
  <2>5. At(a) = j
    BY <1>2, <2>3, <2>4
  <2>6. argv_ptrs[j] \in Cells
    BY <1>i, <1>4 DEF n
  <2>7. argv_ptrs[j] \in Nat
    BY <2>6, LayoutFacts DEF Cells
  <2> QED BY <2>5, <2>7 DEF Plain, Links
<1>5. Plain(0) \in Links
  BY DEF Plain, Links
<1>6. mem' \in [Cells -> Links]
  <2> HIDE DEF At, envp, apple
  <2> QED BY <1>i, <1>1, <1>4, <1>5
<1>7. LoadOK'
  BY <1>i, <1>1, <1>6, GotoFacts DEF LoadOK
<1> QED BY <1>i, <1>1, <1>2, <1>7 DEF TypeInv, RunOK

LEMMA GuestOK == TypeInv /\ Guest => TypeInv'
<1> SUFFICES ASSUME TypeInv, Guest PROVE TypeInv'
  OBVIOUS
<1>1. UNCHANGED <<loaderVars, args, cursor, argv_ptrs, exit_code>>
  BY DEF Guest, CallImport, ReturnFromMain, Svc, Stray, Wander, Undefined, UnchangedByGuest
<1>2. x0' \in Values \/ x0' = x0
  BY DEF Guest, CallImport, ReturnFromMain, Svc, Stray, Wander, Undefined
<1>3. x0' \in Nat
  BY <1>2, GuestAssumption DEF TypeInv, RunOK
<1> QED BY <1>1, <1>3 DEF TypeInv, RunOK, LoadOK, loaderVars

LEMMA FinishFacts ==
  ASSUME TypeInv, NEW code \in Nat, Finish(code), UnchangedByLoop
  PROVE  TypeInv'
BY GotoFacts DEF Finish, UnchangedByLoop, TypeInv, RunOK, LoadOK

LEMMA DoneFacts ==
  ASSUME TypeInv, NEW what, Done(what), UnchangedByLoop
  PROVE  TypeInv'
BY GuestAssumption DEF Done, UnchangedByLoop, TypeInv, RunOK, LoadOK

LEMMA LoopOK == TypeInv /\ Loop => TypeInv'
<1> SUFFICES ASSUME TypeInv, Loop PROVE TypeInv'
  OBVIOUS
<1>1. exit_code \in Nat /\ x0 % IntSize \in Nat
  BY GuestAssumption DEF TypeInv, RunOK
<1>2. CASE HandleThunk
  <2>1. UnchangedByLoop
    BY <1>2 DEF HandleThunk
  <2>2. (\E code \in Nat : Finish(code)) \/ (\E what : Done(what))
    BY <1>1, <1>2 DEF HandleThunk
  <2> QED BY <2>1, <2>2, FinishFacts, DoneFacts
<1>3. CASE HandleSyscall
  <2>1. UnchangedByLoop
    BY <1>3 DEF HandleSyscall
  <2>2. (\E code \in Nat : Finish(code)) \/ (\E what : Done(what))
    BY <1>1, <1>3 DEF HandleSyscall
  <2> QED BY <2>1, <2>2, FinishFacts, DoneFacts
<1>4. CASE StopOnReason
  BY <1>4, FinishFacts DEF StopOnReason
<1>5. CASE NoCode
  BY <1>5, FinishFacts DEF NoCode
<1> QED BY <1>2, <1>3, <1>4, <1>5 DEF Loop

LEMMA TypeKeeps == TypeInv /\ [Next]_vars => TypeInv'
<1> SUFFICES ASSUME TypeInv, [Next]_vars PROVE TypeInv'
  OBVIOUS
<1>1. CASE LoadStep
  <2>1. LoadOK'
    BY <1>1, LoadKeeps DEF LoadStep, TypeInv
  <2> QED BY <1>1, <2>1 DEF LoadStep, TypeInv, RunOK, runVars
<1>2. CASE ArgsDone
  BY <1>2, GotoFacts DEF ArgsDone, TypeInv, RunOK, LoadOK, runVars
<1>3. CASE UNCHANGED vars
  BY <1>3 DEF vars, loaderVars, runVars, TypeInv, RunOK, LoadOK
<1> QED BY <1>1, <1>2, <1>3, PushArgOK, StartOK, GuestOK, LoopOK DEF Next

LEMMA TypeAlways == Spec => []TypeInv
BY InitOK, TypeKeeps, PTL DEF Spec

\* Whatever the binary says, as long as it is well-formed, load writes only
\* words into the window, thunks for names only and values that are addresses;
\* the heap's cursor stays in the heap and the arguments in their area.
THEOREM TypeCorrect == Spec => []TypeOK
<1>1. TypeInv => TypeOK
  BY DEF TypeInv, LoadOK, RunOK, TypeOK
<1> QED BY <1>1, TypeAlways, PTL

----------------------------------------------------------------------------
(* main's arguments.                                                       *)

\* What the j-th argument takes of the area.
Taken(j) == Aligned(Len(args[j]), Ptr)

LEMMA TakenFacts ==
  ASSUME args \in ArgLists, NEW j \in 1 .. Len(args)
  PROVE  /\ args[j] \in Seq(Nat) /\ Len(args[j]) \in Nat
         /\ Taken(j) \in Nat /\ Len(args[j]) <= Taken(j)
<1>1. args[j] \in Seq(Nat)
  <2>1. args \in Seq(Seq(Nat))
    BY GuestAssumption
  <2> QED BY <2>1
<1>2. Len(args[j]) \in Nat
  BY <1>1
<1> QED BY <1>1, <1>2, LayoutFacts, AlignedFacts DEF Taken

LEMMA RoomFacts ==
  ASSUME args \in ArgLists
  PROVE  /\ TextRoom[0] = 0
         /\ \A j \in 1 .. Len(args) : TextRoom[j] = TextRoom[j - 1] + Taken(j)
         /\ \A j \in 0 .. Len(args) : TextRoom[j] \in Nat
<1> DEFINE N == Len(args)
           g == [j \in 1 .. N |-> Taken(j)]
<1>1. N \in Nat
  BY GuestAssumption
<1>2. PICK f : Sums(f, g, N)
  <2> HIDE DEF g, N
  <2> QED BY <1>1, SumsExist
<1>3. f = [j \in 0 .. N |-> IF j = 0 THEN 0 ELSE f[j - 1] + Aligned(Len(args[j]), Ptr)]
  <2> DEFINE f1 == [j \in 0 .. N |-> IF j = 0 THEN 0 ELSE f[j - 1] + g[j]]
             f2 == [j \in 0 .. N |-> IF j = 0 THEN 0 ELSE f[j - 1] + Aligned(Len(args[j]), Ptr)]
  <2>1. ASSUME NEW j \in 0 .. N PROVE f1[j] = f2[j]
    <3>1. j # 0 => g[j] = Aligned(Len(args[j]), Ptr)
      <4>1. j # 0 => j \in 1 .. N
        BY <1>1
      <4> QED BY <4>1 DEF Taken
    <3> HIDE DEF g, N
    <3> QED BY <3>1
  <2>2. f1 = f2
    BY ONLY <2>1, Zenon
  <2> QED BY <1>2, <2>2 DEF Sums
<1>4. TextRoom =
        [j \in 0 .. N |-> IF j = 0 THEN 0 ELSE TextRoom[j - 1] + Aligned(Len(args[j]), Ptr)]
  BY <1>3 DEF TextRoom
<1>5. \A j \in 1 .. N : TextRoom[j] = TextRoom[j - 1] + Taken(j) /\ Taken(j) \in Nat
  <2>1. SUFFICES ASSUME NEW j \in 1 .. N
        PROVE  TextRoom[j] = TextRoom[j - 1] + Taken(j) /\ Taken(j) \in Nat
    OBVIOUS
  <2>2. j \in 0 .. N /\ j # 0
    BY <1>1
  <2>3. TextRoom[j] = TextRoom[j - 1] + Taken(j)
    BY <1>4, <2>2 DEF Taken
  <2> QED BY <2>3, TakenFacts
<1>6. Sums(TextRoom, g, N)
  <2> DEFINE f1 == [j \in 0 .. N |-> IF j = 0 THEN 0 ELSE TextRoom[j - 1] + g[j]]
             f2 == [j \in 0 .. N |-> IF j = 0 THEN 0
                                     ELSE TextRoom[j - 1] + Aligned(Len(args[j]), Ptr)]
  <2>1. ASSUME NEW j \in 0 .. N PROVE f1[j] = f2[j]
    <3>1. j # 0 => g[j] = Aligned(Len(args[j]), Ptr)
      <4>1. j # 0 => j \in 1 .. N
        BY <1>1
      <4> QED BY <4>1 DEF Taken
    <3> HIDE DEF g, N
    <3> QED BY <3>1
  <2>2. f1 = f2
    BY ONLY <2>1, Zenon
  <2> QED BY <1>4, <2>2 DEF Sums
<1>7. \A j \in 1 .. N : g[j] \in Nat
  BY <1>5
<1> HIDE DEF g, N
<1>8. TextRoom[0] = 0 /\ \A j \in 0 .. N : TextRoom[j] \in Nat
  BY <1>1, <1>6, <1>7, SumsFacts
<1> QED BY <1>5, <1>8 DEF N

\* The string, with its end, stands at place p of memory m.
Stands(m, p, str) == \A i \in DOMAIN str : m[p + i - 1] = Plain(str[i])

\* The arguments that are laid out, one behind the other in their area.
Pushed ==
  /\ Len(argv_ptrs) <= Len(args)
  /\ cursor = Info + TextRoom[Len(argv_ptrs)]
  /\ \A j \in DOMAIN argv_ptrs :
       /\ Info <= argv_ptrs[j] /\ argv_ptrs[j] + Len(args[j]) <= cursor
       /\ Stands(mem, argv_ptrs[j], args[j])

\* The next argument does not fit.
CutHere ==
  Len(argv_ptrs) < Len(args) => StackTop <= cursor + Len(args[Len(argv_ptrs) + 1])

ArgsInv ==
  /\ phase \notin {"loaded", "argv", "running", "finished"} => argv_ptrs = <<>> /\ cursor = Info
  /\ phase \in {"loaded", "argv"} => Pushed
  /\ phase = "loaded" => s = Len(argv_ptrs) + 1
  /\ phase = "argv" => CutHere
  /\ ArgvIntact

\* load comes to its end in one way, with the counters set back.
LEMMA LoadEnds ==
  ASSUME LoadStep
  PROVE  /\ phase \notin {"loaded", "argv", "running", "finished"}
         /\ phase' \notin {"argv", "running", "finished"}
         /\ phase' = "loaded" => s' = 1
         /\ UNCHANGED <<args, argv_ptrs, cursor>>
BY DEF LoadStep, runVars, Load, Open, CopySegment, FindEntry, Import, ImportsDone,
    NextPage, FixLink, ChainsDone, BindSlot, SectionsDone, Goto

LEMMA RoomUnchanged == args' = args => TextRoom' = TextRoom
BY DEF TextRoom

LEMMA ArgsInit == Init => ArgsInv
BY DEF Init, LoadInit, ArgsInv, ArgvIntact

LEMMA LoadKeepsArgs == TypeInv /\ ArgsInv /\ LoadStep => ArgsInv'
<1> SUFFICES ASSUME TypeInv, ArgsInv, LoadStep PROVE ArgsInv'
  OBVIOUS
<1>1. /\ argv_ptrs = <<>> /\ cursor = Info
      /\ argv_ptrs' = <<>> /\ cursor' = Info
      /\ phase' = "loaded" => s' = 1
      /\ phase' \notin {"argv", "running", "finished"}
      /\ args' = args
  BY LoadEnds DEF ArgsInv
<1>2. TextRoom'[0] = 0 /\ Info \in Nat /\ Len(args) \in Nat
  BY <1>1, RoomFacts, RoomUnchanged, StackFacts, GuestAssumption DEF TypeInv, RunOK
<1>3. Pushed'
  BY <1>1, <1>2 DEF Pushed
<1> QED BY <1>1, <1>3 DEF ArgsInv, ArgvIntact

LEMMA PushKeepsArgs == TypeInv /\ ArgsInv /\ PushArg => ArgsInv'
<1> SUFFICES ASSUME TypeInv, ArgsInv, PushArg PROVE ArgsInv'
  OBVIOUS
<1> DEFINE n == Len(argv_ptrs)
           m == n + 1
           str == args[m]
<1>1. /\ phase = "loaded" /\ args' = args /\ m = s /\ s <= Len(args) /\ Pushed
      /\ phase' \in {"loaded", "argv"}
  BY DEF PushArg, ArgsInv, Goto
<1>2. /\ mem \in [Cells -> Links] /\ cursor \in Info .. StackTop /\ argv_ptrs \in Seq(Cells)
      /\ args \in ArgLists
      /\ Info \in Nat /\ StackTop \in Nat /\ Base <= Info /\ StackTop < Base + WindowSize
      /\ Base \in Nat /\ WindowSize \in Nat
  BY StackFacts, LayoutFacts DEF TypeInv, LoadOK, RunOK
<1>3. n \in Nat /\ m \in 1 .. Len(args) /\ Len(args) \in Nat /\ DOMAIN argv_ptrs = 1 .. n
      /\ \A j \in 1 .. n : argv_ptrs[j] \in Nat
  <2>1. args \in Seq(Seq(Nat)) /\ Len(args) \in Nat
    BY <1>2, GuestAssumption
  <2>2. n \in Nat /\ DOMAIN argv_ptrs = 1 .. n /\ \A j \in 1 .. n : argv_ptrs[j] \in Cells
    BY <1>2
  <2>3. Cells \subseteq Nat
    BY <1>2 DEF Cells
  <2>4. m \in 1 .. Len(args)
    <3> HIDE DEF n
    <3> QED BY <1>1, <2>1, <2>2
  <2> HIDE DEF n, m
  <2> QED BY <2>1, <2>2, <2>3, <2>4
<1> HIDE DEF m
<1>4. str \in Seq(Nat) /\ Len(str) \in Nat /\ Taken(m) \in Nat /\ Len(str) <= Taken(m)
      /\ TextRoom[m] = TextRoom[m - 1] + Taken(m)
  BY <1>2, <1>3, TakenFacts, RoomFacts
<1>5. \A j \in 1 .. n : args[j] \in Seq(Nat) /\ Len(args[j]) \in Nat /\ n <= Len(args)
  <2>1. n <= Len(args)
    BY <1>1 DEF Pushed
  <2> QED BY <1>2, <1>3, <2>1, TakenFacts
<1>6. TextRoom' = TextRoom /\ ArgvIntact'
  BY <1>1, RoomUnchanged DEF ArgvIntact
<1> HIDE DEF str, n
<1>7. CASE cursor + Len(str) < StackTop
  <2>1. /\ mem' = [a \in Cells |-> IF a \in cursor .. cursor + Len(str) - 1
                                   THEN Plain(str[a - cursor + 1]) ELSE mem[a]]
        /\ argv_ptrs' = Append(argv_ptrs, cursor)
        /\ cursor' = cursor + Taken(m)
        /\ s' = m + 1 /\ phase' = "loaded"
    <3>1. str = args[s] /\ Past(args[s]) = cursor + Taken(m)
      BY <1>1 DEF Past, Taken, str
    <3>2. ~(cursor + Len(args[s]) >= StackTop)
      BY <1>2, <1>4, <1>7, <3>1
    <3> QED BY <1>1, <3>1, <3>2 DEF PushArg
  <2>2. /\ Len(argv_ptrs') = m /\ DOMAIN argv_ptrs' = 1 .. m /\ argv_ptrs'[m] = cursor
        /\ \A j \in 1 .. n : argv_ptrs'[j] = argv_ptrs[j]
    BY <1>2, <1>3, <2>1 DEF m, n
  <2>3. cursor' = Info + TextRoom'[m]
    <3>1. cursor = Info + TextRoom[n] /\ n = m - 1
      BY <1>1, <1>3 DEF Pushed, n, m
    <3>2. TextRoom[n] \in Nat
      BY <1>2, <1>3, <3>1, RoomFacts
    <3>3. TextRoom'[m] = TextRoom[n] + Taken(m) /\ cursor' = Info + TextRoom[n] + Taken(m)
      BY <1>4, <1>6, <2>1, <3>1
    <3> QED BY <1>2, <1>4, <3>2, <3>3
  <2>4. Stands(mem', cursor, str)
    <3> SUFFICES ASSUME NEW i \in DOMAIN str PROVE mem'[cursor + i - 1] = Plain(str[i])
      BY DEF Stands
    <3>1. i \in 1 .. Len(str)
      BY <1>4
    <3>2. /\ cursor + i - 1 \in Cells /\ cursor + i - 1 \in cursor .. cursor + Len(str) - 1
          /\ (cursor + i - 1) - cursor + 1 = i
      BY <1>2, <1>4, <1>7, <3>1 DEF Cells
    <3> QED BY <2>1, <3>2
  <2>5. ASSUME NEW j \in 1 .. n
        PROVE  /\ Info <= argv_ptrs[j] /\ argv_ptrs[j] + Len(args[j]) <= cursor'
               /\ Stands(mem', argv_ptrs[j], args[j])
    <3>1. /\ Info <= argv_ptrs[j] /\ argv_ptrs[j] + Len(args[j]) <= cursor
          /\ Stands(mem, argv_ptrs[j], args[j])
      BY <1>1, <1>3 DEF Pushed
    <3>2. args[j] \in Seq(Nat) /\ Len(args[j]) \in Nat /\ argv_ptrs[j] \in Nat
      BY <1>3, <1>5
    <3>3. ASSUME NEW i \in DOMAIN args[j]
          PROVE  mem'[argv_ptrs[j] + i - 1] = Plain(args[j][i])
      <4>1. i \in 1 .. Len(args[j])
        BY <3>2
      <4>2. argv_ptrs[j] + i - 1 \in Cells /\ ~(argv_ptrs[j] + i - 1 >= cursor)
        <5>1. PICK p \in Nat, l \in Nat : p = argv_ptrs[j] /\ l = Len(args[j])
          BY <3>2
        <5>2. i \in Nat /\ 1 <= i /\ i <= l /\ Info <= p /\ p + l <= cursor
          BY <3>1, <4>1, <5>1
        <5>3. p + i - 1 \in Cells /\ ~(p + i - 1 >= cursor)
          BY <1>2, <5>2 DEF Cells
        <5> QED BY <5>1, <5>3
      <4>3. mem'[argv_ptrs[j] + i - 1] = mem[argv_ptrs[j] + i - 1]
        BY <1>2, <2>1, <4>2
      <4> QED BY <3>1, <3>3, <4>3 DEF Stands
    <3>4. Stands(mem', argv_ptrs[j], args[j])
      BY <3>3 DEF Stands
    <3> QED BY <1>2, <1>4, <2>1, <3>1, <3>2, <3>4
  <2>6. ASSUME NEW j \in 1 .. m
        PROVE  /\ Info <= argv_ptrs'[j] /\ argv_ptrs'[j] + Len(args[j]) <= cursor'
               /\ Stands(mem', argv_ptrs'[j], args[j])
    <3>1. CASE j = m
      BY <1>2, <1>4, <2>1, <2>2, <2>4, <3>1 DEF str
    <3>2. CASE j # m
      <4>1. j \in 1 .. n
        BY <1>3, <3>2 DEF m
      <4> QED BY <2>2, <2>5, <4>1
    <3> QED BY <3>1, <3>2
  <2>7. Pushed'
    BY <1>1, <1>3, <2>2, <2>3, <2>6 DEF Pushed
  <2> QED BY <1>6, <2>1, <2>2, <2>7 DEF ArgsInv
<1>8. CASE cursor + Len(str) >= StackTop
  <2>1. ~(cursor + Len(str) < StackTop)
    BY <1>2, <1>4, <1>8
  <2>2. UNCHANGED <<mem, argv_ptrs, cursor>> /\ phase' = "argv"
    BY <1>1, <2>1 DEF PushArg, Goto, str
  <2>3. Pushed'
    BY <1>1, <1>6, <2>2 DEF Pushed
  <2>4. CutHere'
    BY <1>1, <1>8, <2>2 DEF CutHere, str, m, n
  <2> QED BY <1>6, <2>2, <2>3, <2>4 DEF ArgsInv
<1> QED BY <1>2, <1>4, <1>7, <1>8

\* The table of pointers and what stands behind it lie in the window, above the
\* strings, each place apart from the others.
LEMMA TableFacts ==
  ASSUME args \in ArgLists, NEW cur \in Nat, Info <= cur, cur <= StackTop,
         NEW n \in Nat, n <= Len(args),
         NEW j \in 1 .. n + 3
  PROVE  LET argv == Aligned(cur, Grain) IN
         /\ argv \in Nat /\ cur <= argv
         /\ (j - 1) * Ptr \in Nat /\ argv + (j - 1) * Ptr \in Cells
         /\ \A i \in 1 .. n + 3 : argv + (i - 1) * Ptr = argv + (j - 1) * Ptr => i = j
<1> DEFINE argv == Aligned(cur, Grain)
<1>1. /\ Grain \in Nat /\ 1 <= Grain /\ Ptr \in Nat /\ 1 <= Ptr /\ Base \in Nat
      /\ WindowSize \in Nat /\ Len(args) \in Nat
  BY LayoutFacts, LayoutAssumption, GuestAssumption
<1>2. argv \in Nat /\ cur <= argv /\ argv <= cur + Grain - 1
  BY <1>1, AlignedFacts
<1> HIDE DEF argv
<1>3. \A i \in 1 .. n + 3 : (i - 1) * Ptr \in Nat
  BY <1>1
<1>4. (j - 1) * Ptr <= (Len(args) + 2) * Ptr /\ (Len(args) + 2) * Ptr \in Nat
  <2> DEFINE d == Len(args) + 2 - (j - 1)
  <2>1. d \in Nat /\ Len(args) + 2 = (j - 1) + d /\ j - 1 \in Nat
    BY <1>1
  <2>2. ((j - 1) + d) * Ptr = (j - 1) * Ptr + d * Ptr /\ d * Ptr \in Nat
    <3> HIDE DEF d
    <3> QED BY <1>1, <2>1
  <2> QED BY <1>1, <1>3, <2>1, <2>2
<1>5. StackTop + Grain + (Len(args) + 2) * Ptr + Ptr <= Base + WindowSize
  <2>1. (Len(args) + 3) * Ptr = (Len(args) + 2) * Ptr + Ptr
    BY <1>1
  <2>2. StackTopOff \in Nat /\ StackTopOff + Grain + (Len(args) + 3) * Ptr <= WindowSize
    BY StackAssumption
  <2> QED BY <1>1, <1>4, <2>1, <2>2 DEF StackTop
<1>6. argv + (j - 1) * Ptr \in Cells
  <2>1. PICK w \in Nat, l \in Nat : w = (j - 1) * Ptr /\ l = (Len(args) + 2) * Ptr
    BY <1>3, <1>4
  <2>2. StackTop \in Nat /\ Info \in Nat /\ Base <= Info
    BY StackFacts
  <2> QED BY <1>1, <1>2, <1>4, <1>5, <2>1, <2>2 DEF Cells
<1>7. ASSUME NEW i \in 1 .. n + 3, argv + (i - 1) * Ptr = argv + (j - 1) * Ptr
      PROVE  i = j
  <2>1. (i - 1) * Ptr = (j - 1) * Ptr
    BY <1>2, <1>3, <1>7
  <2>2. ((i - 1) * Ptr) \div Ptr = i - 1 /\ ((j - 1) * Ptr) \div Ptr = j - 1
    BY <1>1, DivExact
  <2> QED BY <2>1, <2>2
<1> QED BY <1>2, <1>3, <1>6, <1>7 DEF argv

\* A multiple leaves nothing.
LEMMA ModExact ==
  ASSUME NEW q \in Nat, NEW n \in Nat, 1 <= n
  PROVE  (q * n) % n = 0
<1> DEFINE v == q * n
<1>1. v \in Nat /\ v \div n = q
  BY DivExact
<1> HIDE DEF v
<1>2. v = (v \div n) * n + (v % n) /\ v % n \in Nat
  BY <1>1, DivFacts
<1>3. v % n = v - q * n
  <2>1. q * n \in Nat
    OBVIOUS
  <2> QED BY <1>1, <1>2, <2>1
<1> QED BY <1>3 DEF v

\* Rounding down.
LEMMA FloorFacts ==
  ASSUME NEW v \in Nat, NEW n \in Nat, 1 <= n
  PROVE  /\ (v \div n) * n \in Nat /\ (v \div n) * n <= v /\ ((v \div n) * n) % n = 0
<1> DEFINE q == v \div n
<1>1. q \in Nat /\ v % n \in Nat /\ v = q * n + (v % n)
  BY DivFacts
<1> HIDE DEF q
<1>2. q * n \in Nat /\ q * n <= v
  BY <1>1
<1>3. (q * n) % n = 0
  BY <1>1, ModExact
<1> QED BY <1>2, <1>3 DEF q

LEMMA StartKeepsArgs == TypeInv /\ ArgsInv /\ Start => ArgsInv'
<1> SUFFICES ASSUME TypeInv, ArgsInv, Start PROVE ArgsInv'
  OBVIOUS
<1> DEFINE n     == Len(argv_ptrs)
           argv  == Aligned(cursor, Grain)
           Slot(j) == argv + (j - 1) * Ptr
           envp  == argv + (n + 1) * Ptr
           apple == envp + Ptr
           low   == (Info \div Grain) * Grain
<1>1. /\ phase = "argv" /\ phase' = "running" /\ args' = args /\ cursor' = cursor
      /\ argv_ptrs' = argv_ptrs
      /\ regs' = <<n, argv, envp, apple, low>>
      /\ mem' = [a \in Cells |->
             IF \E j \in 1 .. n : a = Slot(j)
             THEN Plain(argv_ptrs[((a - argv) \div Ptr) + 1])
             ELSE IF a \in {envp - Ptr, envp, apple} THEN Plain(0) ELSE mem[a]]
      /\ Pushed /\ CutHere
  BY DEF Start, Goto, ArgsInv
<1>2. /\ mem \in [Cells -> Links] /\ cursor \in Info .. StackTop /\ argv_ptrs \in Seq(Cells)
      /\ args \in ArgLists
      /\ Info \in Nat /\ StackTop \in Nat /\ Base <= Info /\ StackTop < Base + WindowSize
      /\ Base \in Nat /\ WindowSize \in Nat /\ Grain \in Nat /\ 1 <= Grain
      /\ Ptr \in Nat /\ 1 <= Ptr
  BY StackFacts, LayoutFacts, LayoutAssumption DEF TypeInv, LoadOK, RunOK
<1>3. n \in Nat /\ n <= Len(args) /\ Len(args) \in Nat /\ DOMAIN argv_ptrs = 1 .. n
      /\ cursor \in Nat /\ \A j \in 1 .. n : argv_ptrs[j] \in Nat
  <2>1. n \in Nat /\ DOMAIN argv_ptrs = 1 .. n /\ Len(args) \in Nat
    BY <1>2, GuestAssumption
  <2>2. n <= Len(args)
    BY <1>1 DEF Pushed
  <2>3. cursor \in Nat
    BY <1>2
  <2>4. ASSUME NEW j \in 1 .. n PROVE argv_ptrs[j] \in Nat
    <3>1. argv_ptrs[j] \in Cells
      BY <1>2, <2>1
    <3> QED BY <1>2, <3>1 DEF Cells
  <2> HIDE DEF n
  <2> QED BY <2>1, <2>2, <2>3, <2>4
<1>4. \A j \in 1 .. n + 3 : /\ Slot(j) \in Cells /\ (j - 1) * Ptr \in Nat /\ cursor <= Slot(j)
                            /\ \A i \in 1 .. n + 3 : Slot(i) = Slot(j) => i = j
  <2>1. ASSUME NEW j \in 1 .. n + 3
        PROVE  /\ argv \in Nat /\ cursor <= argv
               /\ (j - 1) * Ptr \in Nat /\ argv + (j - 1) * Ptr \in Cells
               /\ \A i \in 1 .. n + 3 : argv + (i - 1) * Ptr = argv + (j - 1) * Ptr => i = j
    <3>1. /\ args \in ArgLists /\ cursor \in Nat /\ Info <= cursor /\ cursor <= StackTop
          /\ n \in Nat /\ n <= Len(args)
      BY <1>2, <1>3
    <3> HIDE DEF n
    <3> QED BY ONLY <3>1, TableFacts
  <2> QED BY <1>3, <2>1
<1>5. argv \in Nat /\ cursor <= argv /\ argv % Grain = 0
  <2>1. /\ argv \in Nat /\ cursor <= argv
        /\ \E q \in Nat : argv = q * Grain
    BY <1>2, <1>3, AlignedFacts
  <2> QED BY <1>2, <2>1, ModExact
<1>6. low \in Nat /\ low <= Info /\ low % Grain = 0
  <2>1. Info \in Nat /\ Grain \in Nat /\ 1 <= Grain
    BY <1>2
  <2> QED BY ONLY <2>1, FloorFacts
<1>7. envp - Ptr = Slot(n + 1) /\ envp = Slot(n + 2) /\ apple = Slot(n + 3)
  <2>1. (n + 1) * Ptr = n * Ptr + Ptr /\ (n + 2) * Ptr = n * Ptr + 2 * Ptr /\ n * Ptr \in Nat
    BY <1>2, <1>3
  <2> HIDE DEF n, argv
  <2> QED BY <1>2, <1>3, <1>5, <2>1
<1> HIDE DEF n, argv, envp, apple, low
<1>8. ASSUME NEW j \in 1 .. n PROVE mem'[Slot(j)] = Plain(argv_ptrs[j])
  <2>1. Slot(j) \in Cells /\ j - 1 \in Nat /\ (j - 1) * Ptr \in Nat
    BY <1>3, <1>4
  <2>2. Slot(j) - argv = (j - 1) * Ptr
    BY <1>5, <2>1
  <2>3. ((Slot(j) - argv) \div Ptr) + 1 = j
    <3>1. ((j - 1) * Ptr) \div Ptr = j - 1
      BY <1>2, <2>1, DivExact
    <3> HIDE DEF Slot
    <3> QED BY <1>3, <2>2, <3>1
  <2> HIDE DEF Slot
  <2> QED BY <1>1, <2>1, <2>3
<1>9. ASSUME NEW j \in {n + 1, n + 2, n + 3} PROVE mem'[Slot(j)] = Plain(0)
  <2>1. Slot(j) \in Cells /\ ~\E i \in 1 .. n : Slot(j) = Slot(i)
    <3>1. j \in 1 .. n + 3 /\ \A i \in 1 .. n : i \in 1 .. n + 3 /\ i # j
      BY <1>3
    <3> HIDE DEF Slot
    <3> QED BY <1>4, <3>1
  <2> HIDE DEF Slot
  <2> QED BY <1>1, <1>7, <2>1
<1>10. ASSUME NEW a \in Cells, ~(a >= cursor) PROVE mem'[a] = mem[a]
  <2>1. a \in Nat /\ \A j \in 1 .. n + 3 : a # Slot(j)
    <3>1. a \in Nat
      BY <1>2 DEF Cells
    <3> HIDE DEF Slot
    <3> QED BY <1>3, <1>4, <1>10, <3>1
  <2>2. /\ \A j \in 1 .. n : a # Slot(j)
        /\ a # Slot(n + 1) /\ a # Slot(n + 2) /\ a # Slot(n + 3)
    <3> HIDE DEF Slot
    <3> QED BY <1>3, <2>1
  <2> HIDE DEF Slot
  <2> QED BY <1>1, <1>7, <2>2
<1>11. ASSUME NEW j \in 1 .. n, NEW i \in DOMAIN args[j]
       PROVE  mem'[mem'[Slot(j)].n + i - 1] = Plain(args[j][i]) /\ mem'[Slot(j)].n >= low
  <2>1. PICK p \in Nat, l \in Nat : p = argv_ptrs[j] /\ l = Len(args[j])
    <3>1. j \in 1 .. Len(args)
      BY <1>3
    <3> QED BY <1>2, <1>3, <3>1, TakenFacts
  <2>2. Info <= p /\ p + l <= cursor /\ Stands(mem, p, args[j]) /\ i \in 1 .. l
    <3>1. args[j] \in Seq(Nat)
      <4>1. j \in 1 .. Len(args)
        BY <1>3
      <4> QED BY <1>2, <4>1, TakenFacts
    <3>2. i \in 1 .. l
      BY <2>1, <3>1
    <3> QED BY <1>1, <1>3, <2>1, <3>2 DEF Pushed
  <2>3. p + i - 1 \in Cells /\ ~(p + i - 1 >= cursor)
    BY <1>2, <2>2 DEF Cells
  <2>4. mem'[p + i - 1] = Plain(args[j][i])
    BY <1>10, <2>2, <2>3 DEF Stands
  <2>5. mem'[Slot(j)].n = p
    <3>1. mem'[Slot(j)] = Plain(p)
      BY <1>8, <2>1
    <3> QED BY <3>1 DEF Plain
  <2> HIDE DEF Slot
  <2> QED BY <1>2, <1>6, <2>2, <2>4, <2>5
<1>12. n < Len(args) => TextRoom[n + 1] >= ArgvArea
  <2> SUFFICES ASSUME n < Len(args) PROVE TextRoom[n + 1] >= ArgvArea
    OBVIOUS
  <2> DEFINE m == n + 1
  <2>1. m \in 1 .. Len(args) /\ m - 1 = n
    BY <1>3
  <2>2. StackTop <= cursor + Len(args[m]) /\ cursor = Info + TextRoom[n]
    BY <1>1 DEF CutHere, Pushed, n
  <2> HIDE DEF m
  <2>3. /\ Len(args[m]) \in Nat /\ Taken(m) \in Nat /\ Len(args[m]) <= Taken(m)
        /\ TextRoom[m] = TextRoom[m - 1] + Taken(m) /\ TextRoom[n] \in Nat
    BY <1>2, <1>3, <2>1, TakenFacts, RoomFacts
  <2>4. Info = StackTop - ArgvArea /\ ArgvArea \in Nat
    BY StackAssumption DEF Info
  <2>5. TextRoom[m] >= ArgvArea
    <3>1. PICK t \in Int, l \in Nat, k1 \in Nat :
            t = TextRoom[n] /\ l = Len(args[m]) /\ k1 = Taken(m)
      BY <2>3
    <3>2. l <= k1 /\ TextRoom[m] = t + k1
      BY ONLY <2>1, <2>3, <3>1
    <3>3. PICK top \in Int : top = StackTop
      BY <1>2
    <3>4. top <= (top - ArgvArea) + t + l /\ ArgvArea \in Nat
      BY ONLY <2>2, <2>4, <3>1, <3>3
    <3> QED BY ONLY <3>1, <3>2, <3>3, <3>4
  <2> QED BY <2>5 DEF m
<1>13. ArgvIntact'
  <2>1. /\ regs'[1] = n /\ regs'[2] = argv /\ regs'[3] = envp /\ regs'[4] = apple
        /\ regs'[5] = low /\ TextRoom' = TextRoom
    BY <1>1, RoomUnchanged
  <2>2. mem'[Slot(n + 1)] = Plain(0) /\ mem'[envp] = Plain(0) /\ mem'[apple] = Plain(0)
    <3> HIDE DEF Slot
    <3> QED BY <1>7, <1>9
  <2>3. low <= argv
    BY <1>2, <1>3, <1>5, <1>6
  <2>4. ASSUME NEW j \in 1 .. regs'[1], NEW i \in DOMAIN args'[j]
        PROVE  /\ mem'[mem'[regs'[2] + (j - 1) * Ptr].n + i - 1] = Plain(args'[j][i])
               /\ mem'[regs'[2] + (j - 1) * Ptr].n >= regs'[5]
    <3>1. args' = args
      BY <1>1
    <3>2. j \in 1 .. n /\ i \in DOMAIN args[j]
      BY <2>1, <3>1
    <3>3. regs'[2] + (j - 1) * Ptr = Slot(j)
      BY <2>1
    <3> HIDE DEF Slot
    <3> QED BY <1>11, <2>1, <3>1, <3>2, <3>3
  <2>5. mem'[regs'[2] + ((regs'[1] + 1) - 1) * Ptr] = Plain(0)
    BY <2>1, <2>2
  <2>6. /\ regs'[1] <= Len(args') /\ mem'[regs'[3]] = Plain(0) /\ mem'[regs'[4]] = Plain(0)
        /\ regs'[2] % Grain = 0 /\ regs'[5] % Grain = 0 /\ regs'[5] <= regs'[2]
        /\ regs'[1] < Len(args') => TextRoom'[regs'[1] + 1] >= ArgvArea
    BY <1>1, <1>3, <1>5, <1>6, <1>12, <2>1, <2>2, <2>3
  <2> QED BY <2>4, <2>5, <2>6 DEF ArgvIntact
<1> QED BY <1>1, <1>13 DEF ArgsInv

LEMMA RunKeepsArgs ==
  ASSUME ArgsInv, Guest \/ Loop PROVE ArgsInv'
<1>1. /\ phase = "running" /\ phase' \in {"running", "finished"}
      /\ UNCHANGED <<mem, args, regs>>
  <2>1. CASE Guest
    BY <2>1 DEF Guest, CallImport, ReturnFromMain, Svc, Stray, Wander, Undefined,
      UnchangedByGuest, loaderVars, InCode
  <2>2. CASE Loop
    BY <2>2 DEF Loop, HandleThunk, HandleSyscall, StopOnReason, NoCode, UnchangedByLoop,
      InCode, Finish, Done, Goto
  <2> QED BY <2>1, <2>2
<1>2. ArgvIntact'
  BY <1>1, RoomUnchanged DEF ArgsInv, ArgvIntact
<1> QED BY <1>1, <1>2 DEF ArgsInv

LEMMA ArgsKept == TypeInv /\ ArgsInv /\ [Next]_vars => ArgsInv'
<1> SUFFICES ASSUME TypeInv, ArgsInv, [Next]_vars PROVE ArgsInv'
  OBVIOUS
<1>1. CASE ArgsDone
  <2>1. /\ phase = "loaded" /\ phase' = "argv" /\ s > Len(args)
        /\ UNCHANGED <<mem, args, argv_ptrs, cursor>>
    BY <1>1 DEF ArgsDone, Goto, runVars
  <2>2. Pushed /\ s = Len(argv_ptrs) + 1 /\ Len(args) \in Nat /\ Len(argv_ptrs) \in Nat
    BY <2>1, GuestAssumption DEF ArgsInv, TypeInv, RunOK
  <2>3. Pushed'
    BY <2>1, <2>2, RoomUnchanged DEF Pushed
  <2>4. CutHere'
    BY <2>1, <2>2 DEF CutHere
  <2> QED BY <2>1, <2>3, <2>4 DEF ArgsInv, ArgvIntact
<1>2. CASE UNCHANGED vars
  <2>1. UNCHANGED <<phase, s, mem, args, argv_ptrs, cursor, regs>>
    BY <1>2 DEF vars, loaderVars, runVars
  <2>2. TextRoom' = TextRoom
    BY <2>1, RoomUnchanged
  <2> QED BY <2>1, <2>2 DEF ArgsInv, ArgvIntact, Pushed, CutHere
<1> QED BY <1>1, <1>2, LoadKeepsArgs, PushKeepsArgs, StartKeepsArgs, RunKeepsArgs DEF Next

\* For every binary and list of arguments that the area's layout admits: main
\* finds its arguments whole, in order and ended, above the stack and behind a
\* table of pointers with its null, and still has them when the run ends; the
\* list is cut only where the strings do not fit (the set-up in Emu::run).
THEOREM ArgumentsAreIntact == Spec => []ArgvIntact
<1>1. ArgsInv => ArgvIntact
  BY DEF ArgsInv
<1> QED BY <1>1, ArgsInit, ArgsKept, TypeAlways, PTL DEF Spec

----------------------------------------------------------------------------
(* Thunks.                                                                 *)

\* The table of thunks is only ever added to, by names it does not have.
LEMMA ThunksGrow ==
  ASSUME Next PROVE thunks' = thunks \/ \E name : thunks' = ThunksWith(name)
<1>1. CASE LoadStep
  BY <1>1 DEF LoadStep, Load, Open, CopySegment, FindEntry, Import, ImportsDone, NextPage,
    FixLink, ChainsDone, BindSlot, SectionsDone, Resolve
<1>2. CASE PushArg \/ ArgsDone \/ Start
  BY <1>2 DEF PushArg, ArgsDone, Start
<1>3. CASE Guest
  BY <1>3 DEF Guest, CallImport, ReturnFromMain, Svc, Stray, Wander, Undefined,
    UnchangedByGuest, loaderVars
<1>4. CASE Loop
  BY <1>4 DEF Loop, HandleThunk, HandleSyscall, StopOnReason, NoCode, UnchangedByLoop
<1> QED BY <1>1, <1>2, <1>3, <1>4 DEF Next

LEMMA ThunksWithFacts ==
  ASSUME NEW name, thunks \in Seq(CNames), OneThunkEach, thunks' = ThunksWith(name)
  PROVE  OneThunkEach'
<1>1. CASE HasThunk(name)
  BY <1>1 DEF ThunksWith, OneThunkEach
<1>2. CASE ~HasThunk(name)
  <2> DEFINE n == Len(thunks)
  <2>1. thunks \in Seq(CNames \cup {name}) /\ n \in Nat /\ DOMAIN thunks = 1 .. n
    OBVIOUS
  <2>2. thunks' = Append(thunks, name)
    BY <1>2 DEF ThunksWith
  <2>3. DOMAIN thunks' = 1 .. n + 1 /\ thunks'[n + 1] = name
        /\ \A j \in 1 .. n : thunks'[j] = thunks[j]
    BY <2>1, <2>2
  <2>4. n # 0 /\ thunks[1] = ExitName
    BY DEF OneThunkEach
  <2>5. \A j \in 1 .. n : thunks[j] # name
    BY <1>2, <2>1 DEF HasThunk
  <2>6. \A i, j \in 1 .. n : thunks[i] = thunks[j] => i = j
    BY <2>1 DEF OneThunkEach
  <2>7. thunks' # <<>> /\ thunks'[1] = ExitName
    <3>1. 1 \in 1 .. n
      BY <2>1, <2>4
    <3>2. 1 \in DOMAIN thunks'
      BY <2>1, <2>3
    <3> QED BY <2>3, <2>4, <3>1, <3>2
  <2>8. ASSUME NEW i \in 1 .. n + 1, NEW j \in 1 .. n + 1, thunks'[i] = thunks'[j]
        PROVE  i = j
    <3> HIDE DEF n
    <3> QED BY <2>1, <2>3, <2>5, <2>6, <2>8
  <2> QED BY <2>3, <2>7, <2>8 DEF OneThunkEach
<1> QED BY <1>1, <1>2

\* For every binary: no function has two thunks, however often and by whichever
\* mechanism it is imported, and the first is main's return address (thunk_for).
THEOREM ThunksAreUnique == Spec => []OneThunkEach
<1>1. Init => OneThunkEach
  <2> SUFFICES ASSUME Init PROVE OneThunkEach
    OBVIOUS
  <2>1. thunks = <<ExitName>>
    BY DEF Init, LoadInit
  <2> QED BY <2>1 DEF OneThunkEach
<1>2. OneThunkEach /\ TypeInv /\ [Next]_vars => OneThunkEach'
  <2> SUFFICES ASSUME OneThunkEach, TypeInv, [Next]_vars PROVE OneThunkEach'
    OBVIOUS
  <2>1. CASE thunks' = thunks
    BY <2>1 DEF OneThunkEach
  <2>2. CASE Next
    BY <2>1, <2>2, ThunksGrow, ThunksWithFacts DEF TypeInv, LoadOK
  <2> QED BY <2>1, <2>2 DEF vars, loaderVars
<1> QED BY <1>1, <1>2, TypeAlways, PTL DEF Spec

----------------------------------------------------------------------------
(* Pointers.                                                               *)

\* LeadsTo, with the cell where the heap has one.
Leads(v, name) ==
  IF IsData(name) THEN v \in HeapStart .. heap_cur - 1 /\ mem[v] = Plain(HostData[name])
  ELSE v - ThunkBase + 1 \in DOMAIN thunks /\ thunks[v - ThunkBase + 1] = name

\* Pointer a is bound, or still the file's link.
Right(a) ==
  LET p == image.pointers[a] IN
  IF p.import THEN Leads(mem[a].n, p.name) ELSE mem[a] = Plain(Base + p.target)
Raw(a) == \A j \in DOMAIN image.segs : a \in Places(image, j) => mem[a] = Word(image, j, a)

\* All but the pointers is as the file has it.
AsFiled ==
  \A j \in DOMAIN image.segs : \A a \in Places(image, j) :
    a \in DOMAIN image.pointers \/ mem[a] = Word(image, j, a)

ImportsLead ==
  \A j \in DOMAIN import_values : Leads(import_values[j], Stripped(image.imports[j]))

\* The heap holds at most n cells.
HeapHolds(n) == heap_cur <= HeapStart + n * CellSize

DataImports == DataIn(image.imports)[Len(image.imports)]

\* Segments.
CopyInv ==
  /\ image.opens /\ heap_cur = HeapStart /\ import_values = <<>>
  /\ \E j \in DOMAIN image.segs : image.segs[j].data # <<>>
  /\ \A j \in DOMAIN image.segs : j < s =>
       /\ image.segs[j].data # <<>> => InRange(image.segs[j].vmaddr, image.segs[j].vmsize)
       /\ Loads(image) => \A a \in Places(image, j) : mem[a] = Word(image, j, a)

\* Imports.
ImportInv ==
  /\ \A a \in DOMAIN image.pointers : Raw(a)
  /\ Len(import_values) = s - 1 /\ s <= Len(image.imports) + 1
  /\ s > 1 => image.known
  /\ ImportsLead
  /\ HeapHolds(DataIn(image.imports)[s - 1])

\* Chains: the pages before the counters are done, and of the one that is being
\* walked the pointers before the link.
Passed(pg) == pg[1] < s \/ (pg[1] = s /\ pg[2] < k)
Pending(pg, a) == link # None /\ pg = <<s, k - 1>> /\ link <= a

ChainInv ==
  /\ Walked(image)
  /\ Len(import_values) = Len(image.imports) /\ ImportsLead
  /\ HeapHolds(DataImports)
  /\ link # None => <<s, k - 1>> \in Pages(image) /\ link \in OnPage(image, <<s, k - 1>>)
  /\ \A pg \in Pages(image) : \A a \in OnPage(image, pg) :
       IF Passed(pg) /\ ~Pending(pg, a) THEN Right(a) ELSE Raw(a)

\* Sections: the chains are done, and the entries before the counters.
ChainsRight ==
  Walked(image) => \A pg \in Pages(image) : \A a \in OnPage(image, pg) : Right(a)
SectionInv ==
  /\ ChainsRight
  /\ \A e \in Entries(image) : Passed(e) => Right(SlotOf(image, e))
  /\ s <= Len(image.sections) + 1
  /\ s <= Len(image.sections) => k <= Len(image.sections[s].syms) + 1
  /\ HeapHolds(DataImports + DataBefore(image)[s - 1]
               + IF s <= Len(image.sections) THEN DataIn(image.sections[s].syms)[k - 1] ELSE 0)

Loaded == {"loaded", "argv", "running", "finished"}

LinkInv ==
  /\ phase \in {"open", "segments", "imports", "chains", "sections", "failed"} \cup Loaded
  /\ phase = "open" => heap_cur = HeapStart /\ import_values = <<>> /\ s = 1
  /\ phase \in {"open", "segments", "imports"} => link = None
  /\ phase = "segments" => CopyInv
  /\ phase \notin {"open", "segments", "failed"} => Loads(image) /\ AsFiled
  /\ phase = "imports" => ImportInv
  /\ phase = "chains" => ChainInv
  /\ phase = "sections" => SectionInv
  /\ phase \in Loaded => \A a \in Fixable : Right(a)

\* What is known of a binary that loads.
LEMMA ImageFacts ==
  ASSUME image \in Images, Loads(image)
  PROVE  /\ WellLinked(image)
         /\ \A j \in DOMAIN image.segs : \A a \in Places(image, j) : a \in Cells /\ a < HeapStart
         /\ \A a \in DOMAIN image.pointers :
              a \in Cells /\ a < HeapStart /\ InRange(a, Ptr)
<1>1. WellLinked(image)
  BY LinkedAssumption
<1>2. /\ Base \in Nat /\ WindowSize \in Nat /\ HeapStart \in Nat /\ Ptr \in Nat /\ 1 <= Ptr
      /\ HeapStart <= Base + WindowSize
  BY LayoutFacts, LayoutAssumption DEF HeapStart
<1>3. ASSUME NEW j \in DOMAIN image.segs, NEW a \in Places(image, j)
      PROVE  a \in Cells /\ a < HeapStart
  <2>1. a < HeapStart
    BY <1>1 DEF WellLinked, Placed
  <2>2. image.segs[j] \in [vmaddr : Nat, vmsize : Nat, data : Seq(Links)]
    BY ImagesAssumption, ElementIn
  <2>3. image.segs[j].data # <<>>
    <3>1. 1 .. 0 = {}
      OBVIOUS
    <3>2. ASSUME image.segs[j].data = <<>> PROVE FALSE
      <4>1. Len(image.segs[j].data) = 0
        BY <3>2
      <4>2. a \in image.segs[j].vmaddr .. image.segs[j].vmaddr + 0 - 1 /\ image.segs[j].vmaddr \in Nat
        BY <2>2, <4>1 DEF Places
      <4> QED BY <4>2
    <3> QED BY <3>2
  <2>4. Base <= image.segs[j].vmaddr
    BY <2>3, ImagesAssumption
  <2>5. a \in Int /\ image.segs[j].vmaddr <= a
    BY <2>2 DEF Places
  <2> QED BY <1>2, <2>1, <2>2, <2>4, <2>5 DEF Cells
<1>4. ASSUME NEW a \in DOMAIN image.pointers
      PROVE  a \in Cells /\ a < HeapStart /\ InRange(a, Ptr)
  <2>1. a \in Cells
    BY ImagesAssumption
  <2>2. a + Ptr <= HeapStart
    BY <1>1 DEF WellLinked, Placed
  <2> QED BY <1>2, <2>1, <2>2 DEF Cells, InRange
<1> QED BY <1>1, <1>3, <1>4

\* The number of data symbols among the first ones of a list.
LEMMA DataInFacts ==
  ASSUME NEW q \in Seq(CNames)
  PROVE  /\ DataIn(q)[0] = 0
         /\ \A i \in 1 .. Len(q) :
              DataIn(q)[i] = DataIn(q)[i - 1] + IF IsData(Stripped(q[i])) THEN 1 ELSE 0
         /\ \A i \in 0 .. Len(q) : DataIn(q)[i] \in Nat /\ DataIn(q)[i] <= DataIn(q)[Len(q)]
<1> DEFINE N == Len(q)
           g == [i \in 1 .. N |-> IF IsData(Stripped(q[i])) THEN 1 ELSE 0]
           sum(f) == [i \in 0 .. N |-> IF i = 0 THEN 0
                                       ELSE f[i - 1] + IF IsData(Stripped(q[i])) THEN 1 ELSE 0]
<1>1. N \in Nat
  OBVIOUS
<1>2. ASSUME NEW f PROVE Sums(f, g, N) <=> f = sum(f)
  <2> DEFINE f1 == [j \in 0 .. N |-> IF j = 0 THEN 0 ELSE f[j - 1] + g[j]]
             f2 == sum(f)
  <2>1. ASSUME NEW j \in 0 .. N PROVE f1[j] = f2[j]
    <3>1. j # 0 => j \in 1 .. N
      BY <1>1
    <3>2. j # 0 => g[j] = IF IsData(Stripped(q[j])) THEN 1 ELSE 0
      BY <3>1
    <3> HIDE DEF g, N
    <3> QED BY <3>2
  <2>2. f1 = f2
    BY ONLY <2>1, Zenon
  <2> QED BY <2>2 DEF Sums
<1>3. PICK f : f = sum(f)
  <2> HIDE DEF g, N, sum
  <2> QED BY <1>1, <1>2, SumsExist
<1>4. DataIn(q) = sum(DataIn(q))
  BY <1>3 DEF DataIn
<1>5. Sums(DataIn(q), g, N)
  <2> HIDE DEF g, N, sum
  <2> QED BY <1>2, <1>4
<1>6. \A i \in 1 .. N : g[i] = (IF IsData(Stripped(q[i])) THEN 1 ELSE 0) /\ g[i] \in Nat
  OBVIOUS
<1> HIDE DEF g, N, sum
<1>7. /\ DataIn(q)[0] = 0
      /\ \A j \in 1 .. N : DataIn(q)[j] = DataIn(q)[j - 1] + g[j]
      /\ \A j \in 0 .. N : DataIn(q)[j] \in Nat /\ DataIn(q)[j] <= DataIn(q)[N]
  BY <1>1, <1>5, <1>6, SumsFacts
<1> QED BY <1>6, <1>7 DEF N

LEMMA DataBeforeFacts ==
  ASSUME image \in Images
  PROVE  /\ DataBefore(image)[0] = 0
         /\ \A j \in 1 .. Len(image.sections) :
              /\ image.sections[j].syms \in Seq(CNames)
              /\ DataBefore(image)[j] = DataBefore(image)[j - 1]
                   + DataIn(image.sections[j].syms)[Len(image.sections[j].syms)]
         /\ \A j \in 0 .. Len(image.sections) :
              /\ DataBefore(image)[j] \in Nat
              /\ DataBefore(image)[j] <= DataBefore(image)[Len(image.sections)]
<1> DEFINE N == Len(image.sections)
           all(j) == DataIn(image.sections[j].syms)[Len(image.sections[j].syms)]
           g == [j \in 1 .. N |-> all(j)]
           sum(f) == [j \in 0 .. N |-> IF j = 0 THEN 0 ELSE f[j - 1] + all(j)]
<1>0. image.sections \in Seq([addr : Nat, syms : Seq(CNames)])
  BY ImagesAssumption
<1>1. N \in Nat
  BY <1>0
<1>2. ASSUME NEW f PROVE Sums(f, g, N) <=> f = sum(f)
  <2> DEFINE f1 == [j \in 0 .. N |-> IF j = 0 THEN 0 ELSE f[j - 1] + g[j]]
             f2 == sum(f)
  <2> HIDE DEF all
  <2>1. ASSUME NEW j \in 0 .. N PROVE f1[j] = f2[j]
    <3>1. j # 0 => j \in 1 .. N
      BY <1>1
    <3>2. j # 0 => g[j] = all(j)
      BY <3>1
    <3> HIDE DEF g, N
    <3> QED BY <3>2
  <2>2. f1 = f2
    BY ONLY <2>1, Zenon
  <2> QED BY <2>2 DEF Sums
<1>3. PICK f : f = sum(f)
  <2> HIDE DEF g, N, sum
  <2> QED BY <1>1, <1>2, SumsExist
<1>4. DataBefore(image) = sum(DataBefore(image))
  BY <1>3 DEF DataBefore
<1>5. Sums(DataBefore(image), g, N)
  <2> HIDE DEF g, N, sum
  <2> QED BY <1>2, <1>4
<1>6. \A j \in 1 .. N : /\ image.sections[j].syms \in Seq(CNames)
                        /\ g[j] = all(j) /\ g[j] \in Nat
  <2>1. SUFFICES ASSUME NEW j \in 1 .. N
        PROVE  /\ image.sections[j].syms \in Seq(CNames)
               /\ g[j] = all(j) /\ g[j] \in Nat
    OBVIOUS
  <2>2. image.sections[j].syms \in Seq(CNames)
    <3>0. j \in DOMAIN image.sections
      BY <1>0
    <3>1. image.sections[j] \in [addr : Nat, syms : Seq(CNames)]
      BY <1>0, <3>0, ElementIn
    <3> QED BY <3>1
  <2>3. all(j) \in Nat
    <3>1. PICK q \in Seq(CNames) : q = image.sections[j].syms
      BY <2>2
    <3>2. Len(q) \in 0 .. Len(q)
      BY <3>1
    <3>3. DataIn(q)[Len(q)] \in Nat
      BY <3>2, DataInFacts
    <3> QED BY <3>1, <3>3
  <2> HIDE DEF all
  <2> QED BY <2>2, <2>3
<1> HIDE DEF g, N, sum, all
<1>7. /\ DataBefore(image)[0] = 0
      /\ \A j \in 1 .. N : DataBefore(image)[j] = DataBefore(image)[j - 1] + g[j]
      /\ \A j \in 0 .. N : /\ DataBefore(image)[j] \in Nat
                           /\ DataBefore(image)[j] <= DataBefore(image)[N]
  BY <1>1, <1>5, <1>6, SumsFacts
<1> QED BY <1>6, <1>7 DEF N, all

\* As long as there is room for n + 1 cells, the heap has one more.
LEMMA CellFacts ==
  ASSUME heap_cur \in HeapStart .. HeapEnd, NEW n \in Nat, HeapHolds(n),
         NEW t \in Nat, n + 1 <= t, t * CellSize <= HeapSize
  PROVE  ~NoCell /\ NewCell + Need(Ptr) <= HeapStart + (n + 1) * CellSize
<1>1. /\ CellSize \in Nat /\ Grain \in Nat /\ Need(Ptr) \in Nat /\ CellSize = Grain + Need(Ptr)
      /\ HeapStart \in Nat /\ HeapSize \in Nat /\ HeapEnd = HeapStart + HeapSize
  BY LayoutFacts, LayoutAssumption DEF CellSize, HeapStart, HeapEnd
<1>2. (n + 1) * CellSize = n * CellSize + CellSize /\ n * CellSize \in Nat
  BY <1>1
<1>3. (n + 1) * CellSize <= t * CellSize /\ t * CellSize \in Nat
  <2>1. t - (n + 1) \in Nat
    OBVIOUS
  <2>2. (t - (n + 1)) * CellSize \in Nat
        /\ t * CellSize = (n + 1) * CellSize + (t - (n + 1)) * CellSize
    BY <1>1, <2>1
  <2> QED BY <1>1, <1>2, <2>2
<1>4. PICK c \in Nat, d \in Nat : c = n * CellSize /\ d = t * CellSize
  BY <1>2, <1>3
<1>5. heap_cur <= HeapStart + c /\ heap_cur \in Nat
  BY <1>1, <1>4 DEF HeapHolds
<1> QED BY <1>1, <1>2, <1>3, <1>4, <1>5 DEF NoCell, NewCell

\* What load does to the cells and thunks that there are: nothing.
Grown ==
  /\ heap_cur <= heap_cur'
  /\ \A a \in HeapStart .. heap_cur - 1 : mem'[a] = mem[a]
  /\ \A j \in DOMAIN thunks : j \in DOMAIN thunks' /\ thunks'[j] = thunks[j]

LEMMA LeadsStay ==
  ASSUME LoadOK, LoadOK', Grown, NEW v, NEW name, Leads(v, name)
  PROVE  Leads(v, name)'
<1>1. CASE IsData(name)
  <2>1. v \in HeapStart .. heap_cur - 1 /\ mem[v] = Plain(HostData[name])
    BY <1>1 DEF Leads
  <2>2. heap_cur \in Nat /\ heap_cur' \in Nat /\ heap_cur <= heap_cur' /\ HeapStart \in Nat
    BY LayoutFacts DEF LoadOK, Grown
  <2>3. v \in HeapStart .. heap_cur' - 1
    <3>1. PICK c, c1 \in Nat : c = heap_cur /\ c1 = heap_cur'
      BY <2>2
    <3>2. v \in HeapStart .. c - 1 /\ c <= c1
      BY <2>1, <2>2, <3>1
    <3>3. v \in HeapStart .. c1 - 1
      <4>1. HeapStart \in Nat
        BY <2>2
      <4> QED BY ONLY <3>2, <4>1, c \in Nat, c1 \in Nat
    <3> QED BY <3>1, <3>3
  <2>4. mem'[v] = Plain(HostData[name])
    BY <2>1 DEF Grown
  <2> QED BY <1>1, <2>3, <2>4 DEF Leads, IsData
<1>2. CASE ~IsData(name)
  BY <1>2 DEF Leads, Grown, IsData
<1> QED BY <1>1, <1>2

LEMMA RightStays ==
  ASSUME LoadOK, LoadOK', Grown, image' = image, NEW a, mem'[a] = mem[a], Right(a)
  PROVE  Right(a)'
<1>1. PICK v : v = mem[a].n
  OBVIOUS
<1>2. CASE image.pointers[a].import
  <2>1. Leads(v, image.pointers[a].name)
    BY <1>1, <1>2 DEF Right
  <2>2. PICK name : name = image.pointers[a].name
    OBVIOUS
  <2>3. Leads(v, name)'
    BY <2>1, <2>2, LeadsStay
  <2> QED BY <1>1, <1>2, <2>2, <2>3 DEF Right
<1>3. CASE ~image.pointers[a].import
  BY <1>3 DEF Right
<1> QED BY <1>2, <1>3

LEMMA RawStays ==
  ASSUME image' = image, NEW a, mem'[a] = mem[a], Raw(a)
  PROVE  Raw(a)'
BY DEF Raw

LEMMA FiledStays ==
  ASSUME AsFiled, image' = image,
         \A j \in DOMAIN image.segs : \A a \in Places(image, j) :
           a \in DOMAIN image.pointers \/ mem'[a] = mem[a]
  PROVE  AsFiled'
BY DEF AsFiled

LEMMA ImportsStay ==
  ASSUME LoadOK, LoadOK', Grown, UNCHANGED <<image, import_values>>, ImportsLead
  PROVE  ImportsLead'
<1> SUFFICES ASSUME NEW j \in DOMAIN import_values
    PROVE  Leads(import_values[j], Stripped(image.imports[j]))'
  BY DEF ImportsLead
<1>1. PICK v, name : v = import_values[j] /\ name = Stripped(image.imports[j])
  OBVIOUS
<1>2. Leads(v, name)
  BY <1>1 DEF ImportsLead
<1>3. Leads(v, name)'
  BY <1>2, LeadsStay
<1> QED BY <1>1, <1>3

\* The value resolve_import gives leads to the name, in a cell of its own or at
\* a thunk, and what is below the heap stays as it is.
LEMMA ResolvedLeads ==
  ASSUME LoadOK, LoadOK', NEW name \in CNames, Resolve(name),
         IsData(name) => ~NoCell,
         \A a \in Cells : a >= HeapStart => mem'[a] = MemWith(name)[a],
         NEW v, v = Resolved(name)
  PROVE  /\ Grown /\ Leads(v, name)'
         /\ \A a \in Cells : a < HeapStart => MemWith(name)[a] = mem[a]
         /\ heap_cur' = heap_cur + IF IsData(name) THEN CellSize ELSE 0
<1>1. /\ HeapStart \in Nat /\ HeapEnd \in Nat /\ heap_cur \in HeapStart .. HeapEnd
      /\ Grain \in Nat /\ 1 <= Grain /\ Need(Ptr) \in Nat /\ Ptr <= Need(Ptr) /\ Ptr \in Nat
      /\ 1 <= Ptr /\ Base \in Nat /\ WindowSize \in Nat /\ Base <= HeapStart
      /\ HeapEnd <= Base + WindowSize /\ mem \in [Cells -> Links]
  <2>1. Ptr <= Need(Ptr)
    <3>1. Ptr + Grain <= WordSize /\ Ptr \in Nat
      BY LayoutAssumption, PtrAssumption
    <3> QED BY <3>1, NeedFacts
  <2> QED BY <2>1, LayoutFacts, LayoutAssumption DEF LoadOK, HeapStart, HeapEnd
<1>2. CASE IsData(name)
  <2>1. heap_cur + Need(Ptr) + Grain <= HeapEnd
    BY <1>1, <1>2 DEF NoCell
  <2>2. /\ v = NewCell /\ heap_cur' = NewCell + Need(Ptr) /\ thunks' = thunks
        /\ MemWith(name) = WritePtr(WritePtr(mem, heap_cur, Need(Ptr)), NewCell, HostData[name])
    BY <1>2 DEF Resolved, Resolve, MemWith
  <2>3. NewCell = heap_cur + Grain /\ NewCell \in Cells /\ InRange(NewCell, Ptr)
        /\ heap_cur \in Cells /\ heap_cur # NewCell
    BY <1>1, <2>1 DEF NewCell, InRange, Cells
  <2> DEFINE m1 == WritePtr(mem, heap_cur, Need(Ptr))
  <2>4. m1 \in [Cells -> Links] /\ \A a \in Cells : a # heap_cur => m1[a] = mem[a]
    <3>1. m1 \in [Cells -> Links]
      BY <1>1, WriteFacts
    <3> QED BY <1>1, <3>1 DEF WritePtr
  <2>5. MemWith(name) = [m1 EXCEPT ![NewCell] = Plain(HostData[name])]
    BY <2>2, <2>3 DEF WritePtr
  <2> HIDE DEF m1
  <2>6. MemWith(name)[NewCell] = Plain(HostData[name])
        /\ \A a \in Cells : a # heap_cur /\ a # NewCell => MemWith(name)[a] = mem[a]
    BY <2>3, <2>4, <2>5
  <2>7. \A a \in Cells : a < heap_cur => MemWith(name)[a] = mem[a]
    BY <1>1, <2>3, <2>6 DEF Cells
  <2>8. Grown
    <3>1. heap_cur <= heap_cur'
      BY <1>1, <2>2, <2>3
    <3>2. ASSUME NEW a \in HeapStart .. heap_cur - 1 PROVE mem'[a] = mem[a]
      <4>1. a \in Cells /\ a < heap_cur /\ a >= HeapStart
        BY <1>1 DEF Cells
      <4> QED BY <2>7, <4>1
    <3> QED BY <2>2, <3>1, <3>2 DEF Grown
  <2>9. Leads(v, name)'
    <3>1. NewCell \in HeapStart .. heap_cur' - 1 /\ NewCell >= HeapStart
      BY <1>1, <2>2, <2>3
    <3>2. mem'[NewCell] = Plain(HostData[name])
      BY <2>3, <2>6, <3>1
    <3> QED BY <1>2, <2>2, <3>1, <3>2 DEF Leads, IsData
  <2>10. \A a \in Cells : a < HeapStart => MemWith(name)[a] = mem[a]
    BY <1>1, <2>7 DEF Cells
  <2>11. heap_cur' = heap_cur + CellSize
    BY <1>1, <2>2, <2>3 DEF CellSize
  <2> QED BY <1>2, <2>8, <2>9, <2>10, <2>11
<1>3. CASE ~IsData(name)
  <2>1. /\ v = thunk_for(name) /\ heap_cur' = heap_cur /\ thunks' = ThunksWith(name)
        /\ MemWith(name) = mem
    BY <1>3 DEF Resolved, Resolve, MemWith
  <2>2. thunks \in Seq(CNames) /\ thunks' \in Seq(CNames) /\ ThunkBase \in Nat
    BY ThunkAssumption DEF LoadOK
  <2>3. \A j \in DOMAIN thunks : j \in DOMAIN thunks' /\ thunks'[j] = thunks[j]
    <3>1. CASE HasThunk(name)
      BY <2>1, <3>1 DEF ThunksWith
    <3>2. CASE ~HasThunk(name)
      <4>1. thunks' = Append(thunks, name)
        BY <2>1, <3>2 DEF ThunksWith
      <4> QED BY <2>2, <4>1
    <3> QED BY <3>1, <3>2
  <2>4. v - ThunkBase + 1 \in DOMAIN thunks' /\ thunks'[v - ThunkBase + 1] = name
    <3>1. CASE HasThunk(name)
      <4> DEFINE j == CHOOSE i \in DOMAIN thunks : thunks[i] = name
      <4>1. j \in DOMAIN thunks /\ thunks[j] = name
        BY <3>1 DEF HasThunk
      <4>2. v = ThunkBase + (j - 1) /\ thunks' = thunks
        BY <2>1, <3>1 DEF thunk_for, ThunksWith
      <4>3. j \in Nat
        BY <2>2, <4>1
      <4> HIDE DEF j
      <4>4. v - ThunkBase + 1 = j
        BY <2>2, <4>2, <4>3
      <4> QED BY <4>1, <4>2, <4>4
    <3>2. CASE ~HasThunk(name)
      <4>1. v = ThunkBase + Len(thunks) /\ thunks' = Append(thunks, name) /\ Len(thunks) \in Nat
        BY <2>1, <2>2, <3>2 DEF thunk_for, ThunksWith
      <4>2. v - ThunkBase + 1 = Len(thunks) + 1
        BY <2>2, <4>1
      <4> QED BY <2>2, <4>1, <4>2
    <3> QED BY <3>1, <3>2
  <2>5. Leads(v, name)'
    BY <1>3, <2>4 DEF Leads, IsData
  <2>6. Grown
    <3>1. ASSUME NEW a \in HeapStart .. heap_cur - 1 PROVE mem'[a] = mem[a]
      <4>1. a \in Cells /\ a >= HeapStart
        BY <1>1 DEF Cells
      <4> QED BY <2>1, <4>1
    <3>2. heap_cur <= heap_cur'
      BY <1>1, <2>1
    <3> QED BY <2>3, <3>1, <3>2 DEF Grown
  <2> QED BY <1>1, <1>3, <2>1, <2>5, <2>6
<1> QED BY <1>2, <1>3

LEMMA PlacesFacts ==
  ASSUME image \in Images, NEW j \in DOMAIN image.segs
  PROVE  /\ j \in Nat \ {0} /\ j <= Len(image.segs) /\ Len(image.segs) \in Nat
         /\ image.segs[j].vmaddr \in Nat /\ image.segs[j].data \in Seq(Links)
         /\ image.segs[j].data = <<>> => Places(image, j) = {}
<1>1. image.segs \in Seq([vmaddr : Nat, vmsize : Nat, data : Seq(Links)])
  BY ImagesAssumption
<1>2. /\ image.segs[j] \in [vmaddr : Nat, vmsize : Nat, data : Seq(Links)]
      /\ j \in Nat \ {0} /\ j <= Len(image.segs)
  BY <1>1, ElementIn
<1>0. Len(image.segs) \in Nat
  BY <1>1
<1>3. ASSUME image.segs[j].data = <<>> PROVE Places(image, j) = {}
  <2>1. Len(image.segs[j].data) = 0 /\ image.segs[j].vmaddr \in Nat
    BY <1>2, <1>3
  <2>2. PICK b \in Nat : b = image.segs[j].vmaddr
    BY <2>1
  <2>3. b .. b + 0 - 1 = {}
    OBVIOUS
  <2> QED BY <2>1, <2>2, <2>3 DEF Places
<1> QED BY <1>0, <1>2, <1>3

LEMMA HoldsMore ==
  ASSUME NEW n \in Nat, NEW m \in Nat, n <= m, NEW h \in Nat, h <= HeapStart + n * CellSize
  PROVE  h <= HeapStart + m * CellSize
<1>1. CellSize \in Nat /\ HeapStart \in Nat
  BY LayoutFacts DEF CellSize
<1>2. PICK d \in Nat : m = n + d
  <2>1. m - n \in Nat /\ m = n + (m - n)
    OBVIOUS
  <2> QED BY <2>1
<1>3. m * CellSize = n * CellSize + d * CellSize /\ d * CellSize \in Nat /\ n * CellSize \in Nat
  BY <1>1, <1>2
<1> QED BY <1>1, <1>3

LEMMA OpenLinks == TypeInv /\ LinkInv /\ Open => LinkInv'
<1> SUFFICES ASSUME TypeInv, LinkInv, Open PROVE LinkInv'
  OBVIOUS
<1>1. /\ phase = "open" /\ heap_cur = HeapStart /\ import_values = <<>> /\ link = None
      /\ UNCHANGED <<image, link, mem, heap_cur, import_values>>
      /\ image \in Images
  BY DEF Open, LinkInv, TypeInv, LoadOK
<1>2. CASE /\ image.opens /\ \E j \in DOMAIN image.segs : image.segs[j].data # <<>>
           /\ Goto("segments")
  <2>1. phase' = "segments" /\ s' = 1
    BY <1>2 DEF Goto
  <2>2. \A j \in DOMAIN image.segs : ~(j < 1)
    BY <1>1, PlacesFacts
  <2>3. CopyInv'
    BY <1>1, <1>2, <2>1, <2>2 DEF CopyInv
  <2> QED BY <1>1, <2>1, <2>3 DEF LinkInv, Loaded
<1>3. CASE Goto("failed")
  BY <1>3 DEF Goto, LinkInv, Loaded
<1> QED BY <1>2, <1>3 DEF Open

LEMMA CopyLinks == TypeInv /\ LinkInv /\ CopySegment => LinkInv'
<1> SUFFICES ASSUME TypeInv, LinkInv, CopySegment PROVE LinkInv'
  OBVIOUS
<1> DEFINE seg == image.segs[s]
<1>1. /\ phase = "segments" /\ s \in DOMAIN image.segs /\ CopyInv /\ link = None
      /\ UNCHANGED <<image, link, heap_cur, import_values>>
      /\ image \in Images /\ mem \in [Cells -> Links] /\ s \in Nat
  <2>1. image.segs \in Seq([vmaddr : Nat, vmsize : Nat, data : Seq(Links)]) /\ s \in Nat \ {0}
        /\ s <= Len(image.segs)
    BY ImagesAssumption DEF TypeInv, LoadOK, CopySegment
  <2> QED BY <2>1 DEF CopySegment, LinkInv, TypeInv, LoadOK
<1>2. CASE phase' = "failed"
  BY <1>2 DEF LinkInv, Loaded
<1>3. CASE /\ phase' = phase /\ s' = s + 1
           /\ seg.data # <<>> => InRange(seg.vmaddr, seg.vmsize)
           /\ mem' = IF seg.data = <<>> THEN mem
                     ELSE [a \in Cells |-> IF a \in Places(image, s) THEN Word(image, s, a)
                                           ELSE mem[a]]
  <2>1. ASSUME NEW j \in DOMAIN image.segs, j < s + 1, Loads(image), NEW a \in Places(image, j)
        PROVE  mem'[a] = Word(image, j, a)
    <3>1. a \in Cells
      BY <1>1, <2>1, ImageFacts
    <3>2. CASE j = s
      <4>1. seg.data # <<>>
        BY <1>1, <2>1, <3>2, PlacesFacts
      <4> QED BY <1>3, <3>1, <3>2, <4>1
    <3>3. CASE j # s
      <4>1. j < s
        BY <1>1, <2>1, <3>3, PlacesFacts
      <4>2. mem[a] = Word(image, j, a)
        BY <1>1, <2>1, <4>1 DEF CopyInv
      <4>3. a \notin Places(image, s)
        BY <1>1, <2>1, <3>3, ImageFacts DEF WellLinked, Placed
      <4> QED BY <1>3, <3>1, <4>2, <4>3
    <3> QED BY <3>2, <3>3
  <2>2. ASSUME NEW j \in DOMAIN image.segs, j < s + 1, image.segs[j].data # <<>>
        PROVE  InRange(image.segs[j].vmaddr, image.segs[j].vmsize)
    <3>1. j = s \/ j < s
      BY <1>1, <2>2, PlacesFacts
    <3> QED BY <1>1, <1>3, <2>2, <3>1 DEF CopyInv
  <2>3. CopyInv'
    <3>1. /\ image.opens /\ heap_cur' = HeapStart /\ import_values' = <<>>
          /\ \E j \in DOMAIN image.segs : image.segs[j].data # <<>>
      BY <1>1 DEF CopyInv
    <3>2. \A j \in DOMAIN image.segs : j < s' =>
            /\ image.segs[j].data # <<>> => InRange(image.segs[j].vmaddr, image.segs[j].vmsize)
            /\ Loads(image) => \A a \in Places(image, j) : mem'[a] = Word(image, j, a)
      BY <1>3, <2>1, <2>2
    <3> QED BY <1>1, <3>1, <3>2 DEF CopyInv
  <2> QED BY <1>1, <1>3, <2>3 DEF LinkInv, Loaded
<1>4. CASE seg.data = <<>> /\ s' = s + 1 /\ UNCHANGED <<phase, k, mem>>
  BY <1>3, <1>4
<1>5. CASE /\ seg.data # <<>> /\ InRange(seg.vmaddr, seg.vmsize)
           /\ mem' = [a \in Cells |->
                IF a \in seg.vmaddr .. seg.vmaddr + Len(seg.data) - 1
                THEN seg.data[a - seg.vmaddr + 1] ELSE mem[a]]
           /\ s' = s + 1 /\ UNCHANGED <<phase, k>>
  BY <1>3, <1>5 DEF Places, Word
<1> QED BY <1>2, <1>4, <1>5 DEF CopySegment, Goto

LEMMA EntryLinks == TypeInv /\ LinkInv /\ FindEntry => LinkInv'
<1> SUFFICES ASSUME TypeInv, LinkInv, FindEntry PROVE LinkInv'
  OBVIOUS
<1>1. /\ phase = "segments" /\ s > Len(image.segs) /\ CopyInv /\ link = None
      /\ UNCHANGED <<image, link, mem, heap_cur, import_values>>
      /\ image \in Images /\ s \in Nat
  BY DEF FindEntry, LinkInv, TypeInv, LoadOK
<1>2. \A j \in DOMAIN image.segs : j < s
  BY <1>1, PlacesFacts
<1>3. CASE image.main
  <2>1. phase' = "imports" /\ s' = 1
    BY <1>3 DEF FindEntry, Goto
  <2>2. Loads(image)
    BY <1>1, <1>2, <1>3 DEF Loads, CopyInv
  <2>3. \A j \in DOMAIN image.segs : \A a \in Places(image, j) : mem[a] = Word(image, j, a)
    BY <1>1, <1>2, <2>2 DEF CopyInv
  <2>4. AsFiled' /\ \A a \in DOMAIN image.pointers : Raw(a)'
    BY <1>1, <2>3 DEF AsFiled, Raw
  <2>5. import_values = <<>> /\ Len(import_values) = 0 /\ heap_cur = HeapStart
        /\ DOMAIN import_values = {}
    BY <1>1 DEF CopyInv
  <2>6. image.imports \in Seq(CNames)
    BY <1>1, ImagesAssumption
  <2>7. ImportsLead'
    BY <1>1, <2>5 DEF ImportsLead
  <2>8. (heap_cur <= HeapStart + DataIn(image.imports)[0] * CellSize)
    <3>1. DataIn(image.imports)[0] = 0 /\ CellSize \in Nat /\ HeapStart \in Nat
      BY <2>6, DataInFacts, LayoutFacts DEF CellSize
    <3>2. 0 * CellSize = 0
      BY <3>1
    <3> QED BY <2>5, <3>1, <3>2
  <2>9. HeapHolds(DataIn(image.imports)[s - 1])'
    BY <1>1, <2>1, <2>8 DEF HeapHolds
  <2>10. ImportInv'
    <3>1. Len(image.imports) \in Nat
      BY <2>6
    <3> QED BY <1>1, <2>1, <2>4, <2>5, <2>7, <2>9, <3>1 DEF ImportInv
  <2> QED BY <1>1, <2>1, <2>2, <2>4, <2>10 DEF LinkInv, Loaded
<1>4. CASE ~image.main
  BY <1>4 DEF FindEntry, Goto, LinkInv, Loaded
<1> QED BY <1>3, <1>4

\* There is room in the heap for a cell for each data symbol.
LEMMA TotalFacts ==
  ASSUME image \in Images, Loads(image)
  PROVE  /\ image.imports \in Seq(CNames)
         /\ image.sections \in Seq([addr : Nat, syms : Seq(CNames)])
         /\ Len(image.imports) \in Nat /\ Len(image.sections) \in Nat
         /\ DataImports \in Nat /\ DataBefore(image)[Len(image.sections)] \in Nat
         /\ (DataImports + DataBefore(image)[Len(image.sections)]) * CellSize <= HeapSize
<1>1. /\ image.imports \in Seq(CNames)
      /\ image.sections \in Seq([addr : Nat, syms : Seq(CNames)])
  BY ImagesAssumption
<1>2. Len(image.imports) \in 0 .. Len(image.imports)
      /\ Len(image.sections) \in 0 .. Len(image.sections)
      /\ Len(image.imports) \in Nat /\ Len(image.sections) \in Nat
  BY <1>1
<1>3. DataImports \in Nat
  BY <1>1, <1>2, DataInFacts DEF DataImports
<1>4. DataBefore(image)[Len(image.sections)] \in Nat
  BY <1>2, DataBeforeFacts
<1>5. (DataImports + DataBefore(image)[Len(image.sections)]) * CellSize <= HeapSize
  BY ImageFacts DEF WellLinked, DataImports
<1> QED BY <1>1, <1>2, <1>3, <1>4, <1>5

\* What resolving a name does, where the heap has room for one more cell.
LEMMA ResolveKeeps ==
  ASSUME LoadOK, LoadOK', Loads(image), NEW name \in CNames, Resolve(name),
         NEW n \in Nat, HeapHolds(n),
         IsData(name) => n + 1 <= DataImports + DataBefore(image)[Len(image.sections)],
         \A a \in Cells : a >= HeapStart => mem'[a] = MemWith(name)[a],
         NEW v, v = Resolved(name)
  PROVE  /\ Grown /\ Leads(v, name)'
         /\ \A a \in Cells : a < HeapStart => MemWith(name)[a] = mem[a]
         /\ heap_cur' <= HeapStart + (n + IF IsData(name) THEN 1 ELSE 0) * CellSize
<1>1. /\ heap_cur \in HeapStart .. HeapEnd /\ CellSize \in Nat /\ HeapStart \in Nat
      /\ heap_cur \in Nat /\ n * CellSize \in Nat
  <2>1. heap_cur \in HeapStart .. HeapEnd /\ CellSize \in Nat /\ HeapStart \in Nat
    BY LayoutFacts DEF LoadOK, CellSize
  <2>2. n * CellSize \in Nat
    BY <2>1
  <2> QED BY <2>1, <2>2
<1>2. IsData(name) => ~NoCell
  <2> DEFINE t == DataImports + DataBefore(image)[Len(image.sections)]
  <2>1. t \in Nat /\ t * CellSize <= HeapSize
    <3>1. /\ DataImports \in Nat /\ DataBefore(image)[Len(image.sections)] \in Nat
          /\ t * CellSize <= HeapSize
      BY TotalFacts DEF LoadOK
    <3> QED BY <3>1
  <2> HIDE DEF t
  <2>2. n + 1 <= t => ~NoCell
    BY <1>1, <2>1, CellFacts
  <2> QED BY <2>2 DEF t
<1>3. /\ Grown /\ Leads(v, name)'
      /\ \A a \in Cells : a < HeapStart => MemWith(name)[a] = mem[a]
      /\ heap_cur' = heap_cur + IF IsData(name) THEN CellSize ELSE 0
  BY <1>2, ResolvedLeads
<1>4. heap_cur' <= HeapStart + (n + IF IsData(name) THEN 1 ELSE 0) * CellSize
  <2>1. heap_cur <= HeapStart + n * CellSize
    BY DEF HeapHolds
  <2>2. CASE IsData(name)
    <3>1. (n + 1) * CellSize = n * CellSize + CellSize
      BY <1>1
    <3>2. heap_cur' = heap_cur + CellSize
      BY <1>3, <2>2
    <3>3. heap_cur' <= HeapStart + (n + 1) * CellSize
      BY <1>1, <2>1, <3>1, <3>2
    <3> QED BY <2>2, <3>3
  <2>3. CASE ~IsData(name)
    <3>1. heap_cur' = heap_cur
      BY <1>1, <1>3, <2>3
    <3>2. n + 0 = n
      OBVIOUS
    <3> QED BY <2>1, <2>3, <3>1, <3>2
  <2> QED BY <2>2, <2>3
<1> QED BY <1>3, <1>4

\* The first entry of the first section.
LEMMA SectionsBegin ==
  ASSUME LoadOK, Loads(image), NEW n \in Nat, n <= DataImports, HeapHolds(n),
         ChainsRight', UNCHANGED <<image, heap_cur>>, s' = 1, k' = 1
  PROVE  SectionInv'
<1>1. /\ image \in Images /\ heap_cur \in Nat /\ DataImports \in Nat
      /\ image.sections \in Seq([addr : Nat, syms : Seq(CNames)])
      /\ Len(image.sections) \in Nat
  BY TotalFacts, LayoutFacts DEF LoadOK
<1>2. \A e \in Entries(image) : ~Passed(e)'
  <2>1. SUFFICES ASSUME NEW e \in Entries(image) PROVE ~Passed(e)'
    OBVIOUS
  <2>2. e[1] \in DOMAIN image.sections /\ e[2] \in DOMAIN image.sections[e[1]].syms
    BY DEF Entries
  <2>3. e[1] \in Nat \ {0} /\ image.sections[e[1]].syms \in Seq(CNames)
    <3>1. e[1] \in 1 .. Len(image.sections)
      BY <1>1, <2>2
    <3> QED BY <1>1, <3>1, DataBeforeFacts
  <2>4. e[2] \in Nat \ {0}
    BY <2>2, <2>3, ElementIn
  <2> QED BY <2>3, <2>4 DEF Passed
<1>3. DataBefore(image)[1 - 1] = 0
  BY <1>1, DataBeforeFacts
<1>4. 1 <= Len(image.sections) =>
        /\ image.sections[1].syms \in Seq(CNames)
        /\ DataIn(image.sections[1].syms)[1 - 1] = 0
        /\ 1 <= Len(image.sections[1].syms) + 1
  <2>1. SUFFICES ASSUME 1 <= Len(image.sections)
        PROVE  /\ image.sections[1].syms \in Seq(CNames)
               /\ DataIn(image.sections[1].syms)[1 - 1] = 0
               /\ 1 <= Len(image.sections[1].syms) + 1
    OBVIOUS
  <2>2. PICK q \in Seq(CNames) : q = image.sections[1].syms
    <3>1. 1 \in 1 .. Len(image.sections)
      BY <1>1, <2>1
    <3> QED BY <1>1, <3>1, DataBeforeFacts
  <2>3. DataIn(q)[0] = 0 /\ Len(q) \in Nat /\ 1 - 1 = 0
    BY DataInFacts
  <2> QED BY <2>2, <2>3
<1>5. heap_cur <= HeapStart + (DataImports + 0 + 0) * CellSize
  <2>1. heap_cur <= HeapStart + DataImports * CellSize
    BY <1>1, HoldsMore DEF HeapHolds
  <2>2. DataImports + 0 + 0 = DataImports
    BY <1>1
  <2> QED BY <2>1, <2>2
<1>6. HeapHolds(DataImports + DataBefore(image)[s - 1]
               + IF s <= Len(image.sections) THEN DataIn(image.sections[s].syms)[k - 1] ELSE 0)'
  BY <1>3, <1>4, <1>5 DEF HeapHolds, DataImports
<1>7. 1 <= Len(image.sections) + 1
  BY <1>1
<1> QED BY <1>2, <1>4, <1>6, <1>7 DEF SectionInv

LEMMA ImportLinks == TypeInv /\ TypeInv' /\ LinkInv /\ Import => LinkInv'
<1> SUFFICES ASSUME TypeInv, TypeInv', LinkInv, Import PROVE LinkInv'
  OBVIOUS
<1>1. /\ phase = "imports" /\ s <= Len(image.imports) /\ ImportInv /\ AsFiled /\ Loads(image)
      /\ link = None /\ UNCHANGED <<image, link>> /\ image \in Images
      /\ s \in Nat \ {0} /\ LoadOK /\ LoadOK'
  BY DEF Import, LinkInv, TypeInv, LoadOK
<1>2. /\ image.imports \in Seq(CNames) /\ Len(image.imports) \in Nat
      /\ image.sections \in Seq([addr : Nat, syms : Seq(CNames)])
      /\ DataImports \in Nat
      /\ DataBefore(image)[Len(image.sections)] \in Nat
  BY <1>1, TotalFacts
<1>3. s \in 1 .. Len(image.imports) /\ s - 1 \in 0 .. Len(image.imports)
  BY <1>1, <1>2
<1>4. /\ DataIn(image.imports)[s - 1] \in Nat
      /\ DataIn(image.imports)[s - 1] <= DataImports /\ DataIn(image.imports)[s] <= DataImports
      /\ DataIn(image.imports)[s] = DataIn(image.imports)[s - 1]
           + IF IsData(Stripped(image.imports[s])) THEN 1 ELSE 0
  <2>1. s \in 0 .. Len(image.imports)
    BY <1>2, <1>3
  <2> QED BY <1>2, <1>3, <2>1, DataInFacts DEF DataImports
<1>5. HeapHolds(DataIn(image.imports)[s - 1])
  BY <1>1 DEF ImportInv
<1>6. CASE image.known
  <2>1. PICK name, v : name \in CNames /\ name = Stripped(image.imports[s]) /\ v = Resolved(name)
    <3>1. image.imports[s] \in CNames
      BY <1>2, <1>3
    <3> QED BY <3>1, StrippedFacts
  <2>2. /\ Resolve(name) /\ mem' = MemWith(name)
        /\ import_values' = Append(import_values, v) /\ s' = s + 1 /\ phase' = phase
    BY <1>1, <1>6, <2>1 DEF Import
  <2>3. PICK n \in Nat : n = DataIn(image.imports)[s - 1]
    BY <1>4
  <2>4. HeapHolds(n)
    BY <1>5, <2>3
  <2>5. IsData(name) => n + 1 <= DataImports + DataBefore(image)[Len(image.sections)]
    BY <1>2, <1>4, <2>1, <2>3
  <2>6. /\ Grown /\ Leads(v, name)'
        /\ \A a \in Cells : a < HeapStart => MemWith(name)[a] = mem[a]
        /\ heap_cur' <= HeapStart + (n + IF IsData(name) THEN 1 ELSE 0) * CellSize
    BY <1>1, <2>1, <2>2, <2>4, <2>5, ResolveKeeps
  <2>7. heap_cur' <= HeapStart + DataIn(image.imports)[s] * CellSize
    BY <1>4, <2>1, <2>3, <2>6
  <2>8. \A a \in Cells : a < HeapStart => mem'[a] = mem[a]
    BY <2>2, <2>6
  <2>9. AsFiled'
    BY <1>1, <2>8, ImageFacts, FiledStays
  <2>10. ASSUME NEW a \in DOMAIN image.pointers PROVE Raw(a)'
    BY <1>1, <2>8, <2>10, ImageFacts, RawStays DEF ImportInv
  <2>11. Len(import_values) = s - 1 /\ import_values \in Seq(Nat) /\ ImportsLead
    BY <1>1 DEF ImportInv, LoadOK
  <2>12. Len(import_values') = s /\ DOMAIN import_values' = 1 .. s
         /\ import_values'[s] = v /\ DOMAIN import_values = 1 .. s - 1
         /\ \A j \in 1 .. s - 1 : import_values'[j] = import_values[j]
    <3>1. v \in Nat /\ Len(import_values) + 1 = s
      BY <1>1, <2>1, <2>11, ResolveFacts
    <3>2. import_values' = Append(import_values, v)
      BY <2>2
    <3> QED BY <1>1, <2>11, <3>1, <3>2
  <2>13. ASSUME NEW j \in 1 .. s, NEW w, NEW nm, w = import_values'[j],
                nm = Stripped(image.imports[j])
         PROVE  Leads(w, nm)'
    <3>1. CASE j = s
      <4>1. w = v /\ nm = name
        BY <2>1, <2>12, <2>13, <3>1
      <4> QED BY <2>6, <4>1
    <3>2. CASE j # s
      <4>1. j \in 1 .. s - 1
        BY <1>1, <3>2
      <4>2. Leads(w, nm)
        BY <2>11, <2>12, <2>13, <4>1 DEF ImportsLead
      <4> QED BY <1>1, <2>6, <4>2, LeadsStay
    <3> QED BY <3>1, <3>2
  <2>14. ImportsLead'
    <3> SUFFICES ASSUME NEW j \in DOMAIN import_values'
        PROVE  Leads(import_values[j], Stripped(image.imports[j]))'
      BY DEF ImportsLead
    <3>1. PICK w, nm : w = import_values'[j] /\ nm = Stripped(image.imports[j])
      OBVIOUS
    <3>2. Leads(w, nm)'
      BY <2>12, <2>13, <3>1
    <3> QED BY <1>1, <3>1, <3>2
  <2>15. ImportInv'
    <3>1. s' - 1 = s /\ s' <= Len(image.imports) + 1
      BY <1>1, <1>2, <2>2
    <3>2. HeapHolds(DataIn(image.imports)[s - 1])'
      BY <1>1, <2>7, <3>1 DEF HeapHolds
    <3> QED BY <1>1, <1>6, <2>10, <2>12, <2>14, <3>1, <3>2 DEF ImportInv
  <2> QED BY <1>1, <2>2, <2>9, <2>15 DEF LinkInv, Loaded
<1>7. CASE ~image.known
  <2>1. phase' = "sections" /\ s' = 1 /\ k' = 1 /\ UNCHANGED <<mem, heap_cur, thunks>>
    BY <1>7 DEF Import, Goto
  <2>2. s = 1 /\ ~Walked(image)
    <3>1. s = 1
      BY <1>1, <1>7 DEF ImportInv
    <3>2. image.imports # <<>>
      <4>1. Len(image.imports) >= 1
        BY <1>1, <3>1
      <4>2. Len(<<>>) = 0
        OBVIOUS
      <4> QED BY <4>1, <4>2
    <3> QED BY <1>7, <3>1, <3>2 DEF Walked
  <2>3. AsFiled'
    BY <1>1, <2>1 DEF AsFiled
  <2>4. ChainsRight'
    BY <1>1, <2>2 DEF ChainsRight
  <2>5. SectionInv'
    BY <1>1, <1>4, <1>5, <2>1, <2>4, SectionsBegin
  <2> QED BY <1>1, <2>1, <2>3, <2>5 DEF LinkInv, Loaded
<1> QED BY <1>6, <1>7

\* A page of the chains, by its segment and its place there.
LEMMA PageFacts ==
  ASSUME image \in Images, NEW pg \in Pages(image)
  PROVE  /\ pg = <<pg[1], pg[2]>>
         /\ pg[1] \in Nat \ {0} /\ pg[1] <= Len(image.starts)
         /\ pg[2] \in Nat \ {0} /\ pg[2] <= Len(image.starts[pg[1]].page_start)
         /\ image.starts[pg[1]].known
         /\ OnPage(image, pg) \subseteq DOMAIN image.pointers
<1>1. image.starts \in Seq([known : BOOLEAN, offset_form : BOOLEAN, segment_offset : Nat,
                            page_start : Seq(Nat \cup {None})])
  BY ImagesAssumption
<1>2. /\ pg = <<pg[1], pg[2]>> /\ pg[1] \in DOMAIN image.starts
      /\ image.starts[pg[1]].known /\ pg[2] \in DOMAIN image.starts[pg[1]].page_start
  BY DEF Pages
<1>3. /\ image.starts[pg[1]] \in [known : BOOLEAN, offset_form : BOOLEAN, segment_offset : Nat,
                                 page_start : Seq(Nat \cup {None})]
      /\ pg[1] \in Nat \ {0} /\ pg[1] <= Len(image.starts)
  <2>1. PICK i : i = pg[1]
    OBVIOUS
  <2>2. i \in DOMAIN image.starts
    BY <1>2, <2>1
  <2>3. /\ image.starts[i] \in [known : BOOLEAN, offset_form : BOOLEAN, segment_offset : Nat,
                                 page_start : Seq(Nat \cup {None})]
        /\ i \in Nat \ {0} /\ i <= Len(image.starts)
    BY <1>1, <2>2, ElementIn
  <2> QED BY <2>1, <2>3
<1>4. image.starts[pg[1]].page_start \in Seq(Nat \cup {None})
  BY <1>3
<1>5. pg[2] \in Nat \ {0} /\ pg[2] <= Len(image.starts[pg[1]].page_start)
  BY <1>2, <1>4, ElementIn
<1> QED BY <1>2, <1>3, <1>5 DEF OnPage

\* What the counters stand for is a page, if its chains are walked.
LEMMA PageHere ==
  ASSUME image \in Images, NEW i \in Nat \ {0}, i <= Len(image.starts),
         NEW n \in Nat \ {0}, image.starts[i].known, n <= Len(image.starts[i].page_start)
  PROVE  /\ <<i, n>> \in Pages(image)
         /\ image.starts[i].page_start[n] \in Nat \cup {None}
<1>1. image.starts \in Seq([known : BOOLEAN, offset_form : BOOLEAN, segment_offset : Nat,
                            page_start : Seq(Nat \cup {None})])
  BY ImagesAssumption
<1>2. i \in DOMAIN image.starts
  BY <1>1
<1>3. image.starts[i] \in [known : BOOLEAN, offset_form : BOOLEAN, segment_offset : Nat,
                           page_start : Seq(Nat \cup {None})]
  BY <1>1, <1>2, ElementIn
<1>4. image.starts[i].page_start \in Seq(Nat \cup {None})
  BY <1>3
<1>5. PICK ps \in Seq(Nat \cup {None}) : ps = image.starts[i].page_start
  BY <1>4
<1>6. n \in DOMAIN ps
  BY <1>5
<1>7. ps[n] \in Nat \cup {None}
  BY <1>6, ElementIn
<1> QED BY <1>2, <1>5, <1>6, <1>7 DEF Pages

\* Before the first page.
LEMMA ImportsDoneLinks == TypeInv /\ TypeInv' /\ LinkInv /\ ImportsDone => LinkInv'
<1> SUFFICES ASSUME TypeInv, TypeInv', LinkInv, ImportsDone PROVE LinkInv'
  OBVIOUS
<1>1. /\ phase = "imports" /\ s > Len(image.imports) /\ ImportInv /\ AsFiled /\ Loads(image)
      /\ link = None /\ phase' = "chains" /\ s' = 1 /\ k' = 1
      /\ UNCHANGED <<image, link, mem, heap_cur, thunks, import_values>>
      /\ image \in Images /\ s \in Nat \ {0} /\ LoadOK /\ LoadOK'
  BY DEF ImportsDone, LinkInv, TypeInv, LoadOK, Goto
<1>2. /\ image.imports \in Seq(CNames) /\ Len(image.imports) \in Nat
      /\ Len(import_values) = s - 1 /\ s <= Len(image.imports) + 1
      /\ s > 1 => image.known
      /\ ImportsLead /\ HeapHolds(DataIn(image.imports)[s - 1])
      /\ \A a \in DOMAIN image.pointers : Raw(a)
  BY <1>1, ImagesAssumption DEF ImportInv
<1>3. s - 1 = Len(image.imports)
  BY <1>1, <1>2
<1>4. Walked(image)
  <2>1. CASE s > 1
    BY <1>2, <2>1 DEF Walked
  <2>2. CASE ~(s > 1)
    <3>1. Len(image.imports) = 0
      BY <1>1, <1>2, <1>3, <2>2
    <3>2. image.imports = <<>>
      BY <1>2, <3>1
    <3> QED BY <3>2 DEF Walked
  <2> QED BY <2>1, <2>2
<1>5. Grown
  <2>1. heap_cur \in Nat
    BY <1>1, LayoutFacts DEF LoadOK
  <2> QED BY <1>1, <2>1 DEF Grown
<1>6. ImportsLead'
  BY <1>1, <1>2, <1>5, ImportsStay
<1>7. ASSUME NEW pg \in Pages(image), NEW a \in OnPage(image, pg)
      PROVE  ~Passed(pg)' /\ Raw(a)'
  <2>1. ~Passed(pg)'
    BY <1>1, <1>7, PageFacts DEF Passed
  <2>2. a \in DOMAIN image.pointers
    BY <1>1, <1>7, PageFacts
  <2> QED BY <1>1, <1>2, <2>1, <2>2, RawStays
<1>8. HeapHolds(DataImports)'
  BY <1>1, <1>2, <1>3 DEF HeapHolds, DataImports
<1>9. ChainInv'
  BY <1>1, <1>2, <1>3, <1>4, <1>6, <1>7, <1>8 DEF ChainInv
<1>10. AsFiled'
  BY <1>1 DEF AsFiled
<1> QED BY <1>1, <1>9, <1>10 DEF LinkInv, Loaded

\* What the steps of the chains leave alone.
LEMMA ChainsStay ==
  ASSUME TypeInv, TypeInv', LinkInv, phase = "chains",
         UNCHANGED <<image, mem, heap_cur, thunks, import_values>>
  PROVE  /\ LoadOK /\ LoadOK' /\ image \in Images /\ Loads(image) /\ WellLinked(image)
         /\ ChainInv /\ AsFiled' /\ Loads(image)' /\ HeapHolds(DataImports)' /\ ImportsLead'
         /\ \A a \in DOMAIN image.pointers : (Right(a) => Right(a)') /\ (Raw(a) => Raw(a)')
<1>1. /\ LoadOK /\ LoadOK' /\ image \in Images /\ Loads(image) /\ ChainInv /\ AsFiled
  BY DEF TypeInv, LoadOK, LinkInv
<1>2. Grown
  <2>1. heap_cur \in Nat
    BY <1>1, LayoutFacts DEF LoadOK
  <2> QED BY <2>1 DEF Grown
<1>3. ImportsLead'
  BY <1>1, <1>2, ImportsStay DEF ChainInv
<1>4. HeapHolds(DataImports)'
  BY <1>1 DEF ChainInv, HeapHolds, DataImports
<1>5. ASSUME NEW a \in DOMAIN image.pointers
      PROVE  (Right(a) => Right(a)') /\ (Raw(a) => Raw(a)')
  BY <1>1, <1>2, RightStays, RawStays
<1>6. AsFiled' /\ Loads(image)'
  BY <1>1 DEF AsFiled
<1>7. WellLinked(image)
  BY <1>1, ImageFacts
<1> QED BY <1>1, <1>3, <1>4, <1>5, <1>6, <1>7

\* From a page to the next: the pointers of the one reached are all still to do.
LEMMA NextPageLinks == TypeInv /\ TypeInv' /\ LinkInv /\ NextPage => LinkInv'
<1> SUFFICES ASSUME TypeInv, TypeInv', LinkInv, NextPage PROVE LinkInv'
  OBVIOUS
<1>1. /\ phase = "chains" /\ link = None /\ s <= Len(image.starts)
      /\ s \in Nat \ {0} /\ k \in Nat \ {0}
      /\ UNCHANGED <<image, phase, mem, heap_cur, thunks, import_values>>
  BY DEF NextPage, TypeInv, LoadOK
<1>2. /\ LoadOK /\ LoadOK' /\ image \in Images /\ Loads(image) /\ WellLinked(image)
      /\ ChainInv /\ AsFiled' /\ Loads(image)' /\ HeapHolds(DataImports)' /\ ImportsLead'
      /\ \A a \in DOMAIN image.pointers : (Right(a) => Right(a)') /\ (Raw(a) => Raw(a)')
  BY <1>1, ChainsStay
<1>3. /\ Walked(image) /\ Len(import_values) = Len(image.imports)
      /\ \A pg \in Pages(image) : \A a \in OnPage(image, pg) :
           IF Passed(pg) THEN Right(a) ELSE Raw(a)
  BY <1>1, <1>2 DEF ChainInv, Pending
<1>4. CASE /\ image.starts[s].known /\ k <= Len(image.starts[s].page_start)
           /\ link' = (IF image.starts[s].page_start[k] = None THEN None
                       ELSE Base + image.starts[s].segment_offset + (k - 1) * PageSize
                              + image.starts[s].page_start[k])
           /\ k' = k + 1 /\ s' = s
  <2>1. PICK pg0 : pg0 = <<s, k>>
    OBVIOUS
  <2>2. pg0 \in Pages(image) /\ image.starts[s].page_start[k] \in Nat \cup {None}
    BY <1>1, <1>2, <1>4, <2>1, PageHere
  <2>3. GoodPage(image, pg0)
    BY <1>2, <1>3, <2>2 DEF WellLinked
  <2>4. /\ link' = None => OnPage(image, pg0) = {}
        /\ link' # None => /\ link' \in OnPage(image, pg0)
                           /\ \A b \in OnPage(image, pg0) : link' <= b
    <3>1. pg0[1] = s /\ pg0[2] = k
      BY <2>1
    <3>2. CASE image.starts[s].page_start[k] = None
      BY <1>4, <2>3, <3>1, <3>2 DEF GoodPage
    <3>3. CASE image.starts[s].page_start[k] # None
      <4>1. link' = PageAt(image, pg0) + image.starts[s].page_start[k]
        BY <1>4, <3>1, <3>3 DEF PageAt
      <4>2. /\ link' \in OnPage(image, pg0)
            /\ \A b \in OnPage(image, pg0) : link' <= b
        BY <2>3, <3>1, <3>3, <4>1 DEF GoodPage
      <4>3. link' # None
        <5>1. link' \in Cells
          BY <1>2, <2>2, <4>2, PageFacts, ImageFacts
        <5> QED BY <5>1, LayoutFacts DEF Cells, None
      <4> QED BY <4>2, <4>3
    <3> QED BY <3>2, <3>3
  <2>5. s' = s /\ k' - 1 = k /\ <<s', k' - 1>> = pg0
    BY <1>1, <1>4, <2>1
  <2>6. ASSUME NEW pg \in Pages(image), NEW a \in OnPage(image, pg)
        PROVE  IF Passed(pg)' /\ ~Pending(pg, a)' THEN Right(a)' ELSE Raw(a)'
    <3>1. /\ pg = <<pg[1], pg[2]>> /\ pg[1] \in Nat /\ pg[2] \in Nat
          /\ a \in DOMAIN image.pointers
      BY <1>2, <2>6, PageFacts
    <3>2. CASE pg = pg0
      <4>1. ~Passed(pg)
        BY <1>1, <2>1, <3>2 DEF Passed
      <4>2. Pending(pg, a)'
        BY <2>4, <2>5, <2>6, <3>2 DEF Pending
      <4> QED BY <1>2, <1>3, <2>6, <3>1, <4>1, <4>2
    <3>3. CASE pg # pg0
      <4>1. ~Pending(pg, a)'
        BY <2>5, <3>3 DEF Pending
      <4>2. Passed(pg)' <=> Passed(pg)
        <5>1. pg[1] # s \/ pg[2] # k
          BY <2>1, <3>1, <3>3
        <5> QED BY <1>1, <1>4, <3>1, <5>1 DEF Passed
      <4> QED BY <1>2, <1>3, <2>6, <3>1, <4>1, <4>2
    <3> QED BY <3>2, <3>3
  <2>7. ChainInv'
    <3>1. link' # None => <<s', k' - 1>> \in Pages(image) /\ link' \in OnPage(image, <<s', k' - 1>>)
      BY <2>2, <2>4, <2>5
    <3> QED BY <1>1, <1>2, <1>3, <2>6, <3>1 DEF ChainInv
  <2> QED BY <1>1, <1>2, <2>7 DEF LinkInv, Loaded
<1>5. CASE /\ ~image.starts[s].known \/ k > Len(image.starts[s].page_start)
           /\ s' = s + 1 /\ k' = 1 /\ link' = link
  <2>1. ASSUME NEW pg \in Pages(image), NEW a \in OnPage(image, pg)
        PROVE  IF Passed(pg)' /\ ~Pending(pg, a)' THEN Right(a)' ELSE Raw(a)'
    <3>1. /\ pg[1] \in Nat /\ pg[2] \in Nat \ {0} /\ a \in DOMAIN image.pointers
          /\ image.starts[pg[1]].known /\ pg[2] <= Len(image.starts[pg[1]].page_start)
      BY <1>2, <2>1, PageFacts
    <3>2. ~Pending(pg, a)'
      BY <1>1, <1>5 DEF Pending
    <3>3. pg[1] = s => pg[2] < k
      <4>1. SUFFICES ASSUME pg[1] = s PROVE pg[2] < k
        OBVIOUS
      <4>2. Len(image.starts[s].page_start) \in Nat
        <5>1. image.starts \in Seq([known : BOOLEAN, offset_form : BOOLEAN,
                segment_offset : Nat, page_start : Seq(Nat \cup {None})])
          BY <1>2, ImagesAssumption
        <5>2. image.starts[s] \in [known : BOOLEAN, offset_form : BOOLEAN,
                segment_offset : Nat, page_start : Seq(Nat \cup {None})]
          BY <1>1, <5>1, ElementOf
        <5> QED BY <5>2
      <4>3. k > Len(image.starts[s].page_start)
        BY <1>5, <3>1, <4>1
      <4> QED BY <1>1, <3>1, <4>1, <4>2, <4>3
    <3>4. Passed(pg)' <=> Passed(pg)
      BY <1>1, <1>5, <3>1, <3>3 DEF Passed
    <3> QED BY <1>2, <1>3, <2>1, <3>1, <3>2, <3>4
  <2>2. ChainInv'
    BY <1>1, <1>2, <1>3, <1>5, <2>1 DEF ChainInv
  <2> QED BY <1>1, <1>2, <2>2 DEF LinkInv, Loaded
<1> QED BY <1>4, <1>5 DEF NextPage

\* A link is read whole, then overwritten by what its pointer means; the chain
\* goes on at the next pointer of the page.
LEMMA LinkHere ==
  ASSUME TypeInv, LinkInv, FixLink
  PROVE  LET pg == <<s, k - 1>> IN
         /\ pg \in Pages(image) /\ link \in OnPage(image, pg)
         /\ link \in DOMAIN image.pointers /\ link \in Cells /\ link < HeapStart
         /\ InRange(link, Ptr)
         /\ mem[link] \in Links
         /\ GoodLink(image, OnPage(image, pg), link, image.starts[s].offset_form, mem[link])
<1>1. /\ phase = "chains" /\ link # None /\ ChainInv /\ Loads(image) /\ image \in Images
      /\ k \in Nat \ {0} /\ mem \in [Cells -> Links]
  BY DEF FixLink, LinkInv, TypeInv, LoadOK
<1>2. PICK pg : pg = <<s, k - 1>>
  OBVIOUS
<1>3. /\ pg \in Pages(image) /\ link \in OnPage(image, pg) /\ pg[1] = s /\ pg[2] = k - 1
      /\ Walked(image)
  BY <1>1, <1>2 DEF ChainInv
<1>4. /\ link \in DOMAIN image.pointers /\ link \in Cells /\ link < HeapStart
      /\ InRange(link, Ptr)
  BY <1>1, <1>3, PageFacts, ImageFacts
<1>5. Raw(link)
  <2>1. Pending(pg, link)
    <3>1. link \in Nat
      BY <1>4, LayoutFacts DEF Cells
    <3> QED BY <1>1, <1>2, <3>1 DEF Pending
  <2> QED BY <1>1, <1>3, <2>1 DEF ChainInv
<1>6. GoodPage(image, pg)
  BY <1>1, <1>3, ImageFacts DEF WellLinked
<1>7. PICK j \in DOMAIN image.segs :
        /\ link \in Places(image, j)
        /\ GoodLink(image, OnPage(image, pg), link, image.starts[pg[1]].offset_form,
                    Word(image, j, link))
  BY <1>3, <1>6 DEF GoodPage
<1>8. mem[link] = Word(image, j, link)
  BY <1>5, <1>7 DEF Raw
<1> QED BY <1>1, <1>2, <1>3, <1>4, <1>7, <1>8

LEMMA LinkWritten ==
  ASSUME TypeInv, TypeInv', LinkInv, FixLink, NEW l, l = link
  PROVE  /\ \A a \in Cells : a # l => mem'[a] = mem[a]
         /\ Grown /\ Right(l)' /\ ImportsLead'
         /\ link' = IF mem[l].next = 0 THEN None ELSE l + mem[l].next
<1> DEFINE w == mem[l]
           p == image.pointers[l]
<1>1. /\ phase = "chains" /\ ChainInv /\ Loads(image) /\ LoadOK /\ LoadOK'
      /\ UNCHANGED <<image, phase, s, k, heap_cur, thunks, import_values>>
      /\ mem \in [Cells -> Links] /\ import_values \in Seq(Nat)
      /\ Len(import_values) = Len(image.imports) /\ ImportsLead
  BY DEF FixLink, LinkInv, TypeInv, LoadOK, ChainInv
<1>2. /\ l \in DOMAIN image.pointers /\ l \in Cells /\ l < HeapStart
      /\ InRange(l, Ptr) /\ w \in Links
      /\ w.bind = p.import
      /\ IF p.import THEN w.n < Len(image.imports) /\ Stripped(image.imports[w.n + 1]) = p.name
         ELSE w.n = IF image.starts[s].offset_form THEN p.target ELSE Base + p.target
  BY LinkHere DEF GoodLink
<1>3. /\ mem' = IF w.bind THEN Bound(w)
                ELSE WritePtr(mem, l, IF image.starts[s].offset_form THEN Base + w.n ELSE w.n)
      /\ link' = Following(w)
  BY <1>2 DEF FixLink, ReadPtr
<1> HIDE DEF w, p
<1>4. PICK v : /\ mem' = [mem EXCEPT ![l] = Plain(v)]
               /\ p.import => w.n + 1 \in DOMAIN import_values /\ v = import_values[w.n + 1]
               /\ ~p.import => v = Base + p.target
  <2>1. CASE p.import
    <3>1. w.n \in Nat /\ w.n < Len(import_values)
      BY <1>1, <1>2, <2>1 DEF Links
    <3>2. mem' = WritePtr(mem, l, import_values[w.n + 1])
      BY <1>2, <1>3, <2>1, <3>1 DEF Bound
    <3>3. w.n + 1 \in DOMAIN import_values
      BY <1>1, <3>1
    <3> QED BY <1>2, <2>1, <3>2, <3>3 DEF WritePtr
  <2>2. CASE ~p.import
    <3>1. ~w.bind
      BY <1>2, <2>2
    <3>2. mem' = WritePtr(mem, l, Base + p.target)
      BY <1>2, <1>3, <2>2, <3>1
    <3> QED BY <1>2, <2>2, <3>2 DEF WritePtr
  <2> QED BY <2>1, <2>2
<1>5. mem'[l] = Plain(v) /\ \A a \in Cells : a # l => mem'[a] = mem[a]
  BY <1>1, <1>2, <1>4
<1>6. Grown
  <2>1. heap_cur \in HeapStart .. HeapEnd /\ heap_cur \in Nat /\ HeapStart \in Nat
    BY <1>1, LayoutFacts DEF LoadOK
  <2>2. ASSUME NEW a \in HeapStart .. heap_cur - 1 PROVE mem'[a] = mem[a]
    <3>1. a \in Cells
      BY <2>1, <2>2, LayoutFacts, LayoutAssumption DEF Cells, HeapStart, HeapEnd
    <3>2. a # l
      <4>1. l \in Nat
        BY <1>2, LayoutFacts DEF Cells
      <4> QED BY <1>2, <2>1, <2>2, <4>1
    <3> QED BY <1>5, <3>1, <3>2
  <2> QED BY <1>1, <2>1, <2>2 DEF Grown
<1>7. ImportsLead'
  BY <1>1, <1>6, ImportsStay
<1>8. Right(l)'
  <2>2. CASE p.import
    <3>1. PICK name : name = p.name
      OBVIOUS
    <3>2. Leads(v, name)
      BY <1>1, <1>2, <1>4, <2>2, <3>1 DEF ImportsLead
    <3>3. Leads(v, name)'
      BY <1>1, <1>6, <3>2, LeadsStay
    <3>4. mem'[l].n = v
      BY <1>5 DEF Plain
    <3>5. image'.pointers[l].import /\ image'.pointers[l].name = name
      BY <1>1, <2>2, <3>1 DEF p
    <3>6. Leads(mem[l].n, image.pointers[l].name)'
      BY <3>3, <3>4, <3>5
    <3>7. Right(l)'
      BY <3>5, <3>6 DEF Right
    <3> QED BY <3>7
  <2>3. CASE ~p.import
    <3>1. mem'[l] = Plain(Base + image'.pointers[l].target) /\ ~image'.pointers[l].import
      BY <1>1, <1>4, <1>5, <2>3 DEF p
    <3>2. Right(l)'
      BY <3>1 DEF Right
    <3> QED BY <3>2
  <2> QED BY <2>2, <2>3
<1> QED BY <1>3, <1>5, <1>6, <1>7, <1>8 DEF Following, w

LEMMA FixLinks == TypeInv /\ TypeInv' /\ LinkInv /\ FixLink => LinkInv'
<1> SUFFICES ASSUME TypeInv, TypeInv', LinkInv, FixLink PROVE LinkInv'
  OBVIOUS
<1>1. /\ phase = "chains" /\ link # None /\ ChainInv /\ AsFiled /\ Loads(image)
      /\ image \in Images /\ LoadOK /\ LoadOK' /\ WellLinked(image)
      /\ UNCHANGED <<image, phase, s, k, heap_cur, thunks, import_values>>
      /\ s \in Nat \ {0} /\ k \in Nat \ {0}
  BY ImageFacts DEF FixLink, LinkInv, TypeInv, LoadOK
<1>p. PICK pg0 : pg0 = <<s, k - 1>>
  OBVIOUS
<1>l. PICK l \in Nat, w \in Links : l = link /\ w = mem[link]
  <2>1. link \in Cells /\ mem[link] \in Links
    BY LinkHere
  <2>2. link \in Nat
    BY <2>1, LayoutFacts DEF Cells
  <2> QED BY <2>1, <2>2
<1>2. pg0 = <<s, k - 1>> /\ l = link /\ w = mem[link] /\ w = mem[l]
  BY <1>p, <1>l
<1>3. /\ pg0 \in Pages(image) /\ l \in OnPage(image, pg0) /\ l \in DOMAIN image.pointers
      /\ IF w.next = 0 THEN \A b \in OnPage(image, pg0) : b <= l
         ELSE /\ l + w.next \in OnPage(image, pg0)
              /\ \A b \in OnPage(image, pg0) : b <= l \/ l + w.next <= b
  BY <1>2, LinkHere DEF GoodLink
<1>4. /\ \A a \in Cells : a # l => mem'[a] = mem[a]
      /\ Grown /\ Right(l)' /\ ImportsLead'
      /\ link' = IF w.next = 0 THEN None ELSE l + w.next
  BY <1>2, LinkWritten
<1>5. /\ Walked(image) /\ Len(import_values) = Len(image.imports)
      /\ HeapHolds(DataImports)
      /\ \A pg \in Pages(image) : \A a \in OnPage(image, pg) :
           IF Passed(pg) /\ ~Pending(pg, a) THEN Right(a) ELSE Raw(a)
  BY <1>1 DEF ChainInv
<1>6. w.next \in Nat
  BY <1>2 DEF Links
<1>7. AsFiled'
  <2>1. ASSUME NEW j \in DOMAIN image.segs, NEW a \in Places(image, j)
        PROVE  a \in DOMAIN image.pointers \/ mem'[a] = mem[a]
    <3>1. a \in Cells
      BY <1>1, <2>1, ImageFacts
    <3> QED BY <1>3, <1>4, <3>1
  <2> QED BY <1>1, <2>1, FiledStays
<1>8. ASSUME NEW pg \in Pages(image), NEW a \in OnPage(image, pg)
      PROVE  IF Passed(pg)' /\ ~Pending(pg, a)' THEN Right(a)' ELSE Raw(a)'
  <2>1. a \in DOMAIN image.pointers /\ a \in Nat /\ a \in Cells
    <3>1. a \in DOMAIN image.pointers
      BY <1>1, <1>8, PageFacts
    <3> QED BY <1>1, <3>1, ImageFacts, LayoutFacts DEF Cells
  <2>2. Passed(pg)' <=> Passed(pg)
    BY <1>1 DEF Passed
  <2>3. a # l => (Right(a) => Right(a)') /\ (Raw(a) => Raw(a)')
    BY <1>1, <1>4, <2>1, RightStays, RawStays
  <2>4. Pending(pg, a) <=> pg = pg0 /\ l <= a
    BY <1>1, <1>2 DEF Pending
  <2>5. Pending(pg, a)' <=> pg = pg0 /\ w.next # 0 /\ l + w.next <= a
    <3>1. w.next # 0 => l + w.next # None
      BY <1>2, <1>6 DEF None
    <3> QED BY <1>1, <1>2, <1>4, <3>1 DEF Pending
  <2>6. CASE pg = pg0
    <3>1. Passed(pg)
      BY <1>1, <1>2, <2>6 DEF Passed
    <3>2. CASE a < l
      <4>1. ~Pending(pg, a) /\ ~Pending(pg, a)' /\ a # l
        BY <1>2, <1>6, <2>1, <2>4, <2>5, <3>2
      <4> QED BY <1>5, <1>8, <2>2, <2>3, <3>1, <4>1
    <3>3. CASE a = l
      <4>1. ~Pending(pg, a)'
        BY <1>2, <1>6, <2>1, <2>5, <3>3
      <4>2. Right(a)'
        BY <1>4, <3>3
      <4> QED BY <2>2, <3>1, <4>1, <4>2
    <3>4. CASE a > l
      <4>1. Pending(pg, a) /\ a # l
        BY <1>2, <2>1, <2>4, <2>6, <3>4
      <4>2. Pending(pg, a)'
        BY <1>2, <1>3, <1>6, <1>8, <2>1, <2>5, <2>6, <3>4
      <4> QED BY <1>5, <1>8, <2>3, <4>1, <4>2
    <3> QED BY <1>2, <2>1, <3>2, <3>3, <3>4
  <2>7. CASE pg # pg0
    <3>1. a # l
      BY <1>1, <1>3, <1>5, <1>8, <2>7 DEF WellLinked
    <3> QED BY <1>5, <1>8, <2>2, <2>3, <2>4, <2>5, <2>7, <3>1
  <2> QED BY <2>6, <2>7
<1>9. ChainInv'
  <2>1. HeapHolds(DataImports)'
    BY <1>1, <1>5 DEF HeapHolds, DataImports
  <2>2. link' # None => <<s', k' - 1>> \in Pages(image) /\ link' \in OnPage(image, <<s', k' - 1>>)
    BY <1>1, <1>2, <1>3, <1>4
  <2> QED BY <1>1, <1>4, <1>5, <1>8, <2>1, <2>2 DEF ChainInv
<1> QED BY <1>1, <1>7, <1>9 DEF LinkInv, Loaded

LEMMA ChainsDoneLinks == TypeInv /\ TypeInv' /\ LinkInv /\ ChainsDone => LinkInv'
<1> SUFFICES ASSUME TypeInv, TypeInv', LinkInv, ChainsDone PROVE LinkInv'
  OBVIOUS
<1>1. /\ phase = "chains" /\ link = None /\ s > Len(image.starts) /\ s \in Nat
      /\ UNCHANGED <<image, link, mem, heap_cur, thunks, import_values>>
      /\ phase' = "sections" /\ s' = 1 /\ k' = 1
  BY DEF ChainsDone, Goto, TypeInv, LoadOK
<1>2. /\ LoadOK /\ image \in Images /\ Loads(image)
      /\ ChainInv /\ AsFiled' /\ Loads(image)'
      /\ \A a \in DOMAIN image.pointers : Right(a) => Right(a)'
  BY <1>1, ChainsStay
<1>3. ASSUME NEW pg \in Pages(image), NEW a \in OnPage(image, pg)
      PROVE  Right(a)'
  <2>1. pg[1] \in Nat /\ pg[1] <= Len(image.starts) /\ a \in DOMAIN image.pointers
    BY <1>2, <1>3, PageFacts
  <2>2. Passed(pg)
    <3>1. Len(image.starts) \in Nat
      BY <1>2, ImagesAssumption
    <3> QED BY <1>1, <2>1, <3>1 DEF Passed
  <2>3. ~Pending(pg, a)
    BY <1>1 DEF Pending
  <2> QED BY <1>2, <1>3, <2>1, <2>2, <2>3 DEF ChainInv
<1>4. ChainsRight'
  BY <1>1, <1>3 DEF ChainsRight
<1>5. SectionInv'
  <2>1. DataImports \in Nat /\ HeapHolds(DataImports)
    BY <1>2, TotalFacts DEF ChainInv
  <2>2. DataImports <= DataImports
    BY <2>1
  <2>3. PICK n \in Nat : n = DataImports
    BY <2>1
  <2> QED BY <1>1, <1>2, <1>4, <2>1, <2>2, <2>3, SectionsBegin
<1> QED BY <1>1, <1>2, <1>5 DEF LinkInv, Loaded

\* An entry of the tables of symbol pointers, by its section and its place there.
LEMMA EntryFacts ==
  ASSUME image \in Images, NEW e \in Entries(image)
  PROVE  /\ e = <<e[1], e[2]>>
         /\ e[1] \in Nat \ {0} /\ e[1] <= Len(image.sections)
         /\ e[2] \in Nat \ {0} /\ e[2] <= Len(image.sections[e[1]].syms)
<1>1. image.sections \in Seq([addr : Nat, syms : Seq(CNames)])
  BY ImagesAssumption
<1>2. /\ e = <<e[1], e[2]>> /\ e[1] \in DOMAIN image.sections
      /\ e[2] \in DOMAIN image.sections[e[1]].syms
  BY DEF Entries
<1>3. PICK i : i = e[1]
  OBVIOUS
<1>4. i \in DOMAIN image.sections
  BY <1>2, <1>3
<1>5. i \in Nat \ {0} /\ i <= Len(image.sections)
      /\ image.sections[i] \in [addr : Nat, syms : Seq(CNames)]
  BY <1>1, <1>4, ElementIn
<1>6. PICK q \in Seq(CNames) : q = image.sections[i].syms
  BY <1>5
<1>7. e[2] \in DOMAIN q
  BY <1>2, <1>3, <1>6
<1>8. e[2] \in Nat \ {0} /\ e[2] <= Len(q)
  BY <1>7, ElementIn
<1> QED BY <1>2, <1>3, <1>5, <1>6, <1>8

\* Where the counters stand among the data symbols of the tables.
LEMMA CountFacts ==
  ASSUME image \in Images, Loads(image), NEW i \in Nat \ {0}, i <= Len(image.sections),
         NEW q, q = image.sections[i].syms, NEW before, before = DataBefore(image)[i - 1]
  PROVE  /\ q \in Seq(CNames) /\ Len(q) \in Nat /\ before \in Nat
         /\ DataBefore(image)[i] = before + DataIn(q)[Len(q)]
         /\ \A n \in 0 .. Len(q) : DataIn(q)[n] \in Nat
         /\ \A n \in 1 .. Len(q) :
              /\ DataIn(q)[n] = DataIn(q)[n - 1] + IF IsData(Stripped(q[n])) THEN 1 ELSE 0
              /\ before + DataIn(q)[n] <= DataBefore(image)[Len(image.sections)]
<1>1. Len(image.sections) \in Nat
  BY TotalFacts
<1>2. i \in 1 .. Len(image.sections) /\ i \in 0 .. Len(image.sections)
      /\ i - 1 \in 0 .. Len(image.sections)
  BY <1>1
<1>3. q \in Seq(CNames) /\ DataBefore(image)[i] = before + DataIn(q)[Len(q)]
  BY <1>2, DataBeforeFacts
<1>4. before \in Nat /\ DataBefore(image)[i] \in Nat
      /\ DataBefore(image)[i] <= DataBefore(image)[Len(image.sections)]
      /\ DataBefore(image)[Len(image.sections)] \in Nat
  BY <1>2, DataBeforeFacts, TotalFacts
<1>5. Len(q) \in Nat
  BY <1>3
<1>6. \A n \in 0 .. Len(q) : DataIn(q)[n] \in Nat /\ DataIn(q)[n] <= DataIn(q)[Len(q)]
  BY <1>3, DataInFacts
<1>7. ASSUME NEW n \in 1 .. Len(q)
      PROVE  /\ DataIn(q)[n] = DataIn(q)[n - 1] + IF IsData(Stripped(q[n])) THEN 1 ELSE 0
             /\ before + DataIn(q)[n] <= DataBefore(image)[Len(image.sections)]
  <2>1. n \in 0 .. Len(q) /\ Len(q) \in 0 .. Len(q)
    BY <1>5
  <2>2. DataIn(q)[n] \in Nat /\ DataIn(q)[n] <= DataIn(q)[Len(q)] /\ DataIn(q)[Len(q)] \in Nat
    BY <1>6, <2>1
  <2>3. before + DataIn(q)[n] <= DataBefore(image)[Len(image.sections)]
    <3>1. PICK x \in Nat, y \in Nat, z \in Nat :
            x = DataIn(q)[n] /\ y = DataIn(q)[Len(q)] /\ z = DataBefore(image)[Len(image.sections)]
      BY <1>4, <2>2
    <3>2. x <= y /\ before + y <= z
      BY <1>3, <1>4, <2>2, <3>1
    <3>3. before + x <= z
      BY <1>4, <3>2
    <3> QED BY <3>1, <3>3
  <2>4. DataIn(q)[n] = DataIn(q)[n - 1] + IF IsData(Stripped(q[n])) THEN 1 ELSE 0
    BY <1>3, DataInFacts
  <2> QED BY <2>3, <2>4
<1> QED BY <1>3, <1>4, <1>5, <1>6, <1>7

\* The entries that are done, one more of them or none.
LEMMA SectionsGoOn ==
  ASSUME ChainsRight', \A e \in Entries(image) : Passed(e)' => Right(SlotOf(image, e))',
         image' = image, image \in Images, Loads(image),
         NEW i \in Nat \ {0}, NEW j \in Nat \ {0}, s' = i, k' = j,
         i <= Len(image.sections) + 1,
         i <= Len(image.sections) => j <= Len(image.sections[i].syms) + 1,
         NEW n \in Nat, HeapHolds(n)',
         n = DataImports + DataBefore(image)[i - 1]
               + IF i <= Len(image.sections) THEN DataIn(image.sections[i].syms)[j - 1] ELSE 0
  PROVE  SectionInv'
<1>1. \A e \in Entries(image') : Passed(e)' => Right(SlotOf(image, e))'
  OBVIOUS
<1>2. HeapHolds(DataImports + DataBefore(image)[s - 1]
               + IF s <= Len(image.sections) THEN DataIn(image.sections[s].syms)[k - 1] ELSE 0)'
  BY DEF HeapHolds, DataImports
<1> QED BY <1>1, <1>2 DEF SectionInv

\* One entry bound: its slot is right, and the others stay so.
LEMMA SlotBound ==
  ASSUME LoadOK, LoadOK', Loads(image), AsFiled, image' = image, NEW e \in Entries(image),
         NEW name \in CNames, name = NameOf(image, e), NEW v, v = Resolved(name),
         NEW slot, slot = SlotOf(image, e),
         Resolve(name), mem' = WritePtr(MemWith(name), slot, v),
         NEW n \in Nat, HeapHolds(n),
         IsData(name) => n + 1 <= DataImports + DataBefore(image)[Len(image.sections)]
  PROVE  /\ heap_cur' <= HeapStart + (n + IF IsData(name) THEN 1 ELSE 0) * CellSize
         /\ Right(slot)' /\ AsFiled'
         /\ \A a \in DOMAIN image.pointers : Right(a) => Right(a)'
<1>1. /\ slot \in DOMAIN image.pointers /\ image.pointers[slot].import
      /\ image.pointers[slot].name = name
      /\ slot \in Cells /\ slot < HeapStart /\ InRange(slot, Ptr)
      /\ image \in Images
  BY ImageFacts DEF LoadOK, WellLinked
<1>2. MemWith(name) \in [Cells -> Links] /\ slot \in Nat /\ HeapStart \in Nat /\ v \in Nat
  BY <1>1, ResolveFacts, LayoutFacts DEF Cells
<1>3. mem'[slot] = Plain(v) /\ \A a \in Cells : a # slot => mem'[a] = MemWith(name)[a]
  BY <1>1, <1>2 DEF WritePtr
<1>4. \A a \in Cells : a >= HeapStart => mem'[a] = MemWith(name)[a]
  BY <1>1, <1>2, <1>3
<1>5. /\ Grown /\ Leads(v, name)'
      /\ \A a \in Cells : a < HeapStart => MemWith(name)[a] = mem[a]
      /\ heap_cur' <= HeapStart + (n + IF IsData(name) THEN 1 ELSE 0) * CellSize
  BY <1>4, ResolveKeeps
<1>6. \A a \in Cells : a < HeapStart /\ a # slot => mem'[a] = mem[a]
  BY <1>3, <1>5
<1>7. Right(slot)'
  <2>1. mem'[slot].n = v
    BY <1>3 DEF Plain
  <2>2. image'.pointers[slot].import /\ image'.pointers[slot].name = name
    BY <1>1
  <2>3. Leads(mem[slot].n, image.pointers[slot].name)'
    BY <1>5, <2>1, <2>2
  <2> QED BY <2>2, <2>3 DEF Right
<1>8. ASSUME NEW a \in DOMAIN image.pointers, Right(a) PROVE Right(a)'
  <2>1. CASE a = slot
    BY <1>7, <2>1
  <2>2. CASE a # slot
    <3>1. mem'[a] = mem[a]
      BY <1>1, <1>6, <1>8, <2>2, ImageFacts
    <3> QED BY <1>5, <1>8, <3>1, RightStays
  <2> QED BY <2>1, <2>2
<1>9. AsFiled'
  <2>1. ASSUME NEW j \in DOMAIN image.segs, NEW a \in Places(image, j)
        PROVE  a \in DOMAIN image.pointers \/ mem'[a] = mem[a]
    <3>1. a \in Cells /\ a < HeapStart
      BY <1>1, <2>1, ImageFacts
    <3> QED BY <1>1, <1>6, <3>1
  <2> QED BY <2>1, FiledStays
<1> QED BY <1>5, <1>7, <1>8, <1>9

LEMMA BindLinks == TypeInv /\ TypeInv' /\ LinkInv /\ BindSlot => LinkInv'
<1> SUFFICES ASSUME TypeInv, TypeInv', LinkInv, BindSlot PROVE LinkInv'
  OBVIOUS
<1>1. /\ phase = "sections" /\ SectionInv /\ AsFiled /\ Loads(image) /\ image \in Images
      /\ LoadOK /\ LoadOK' /\ s \in Nat \ {0} /\ k \in Nat \ {0} /\ s <= Len(image.sections)
      /\ UNCHANGED <<image, phase, link, import_values>> /\ HeapStart \in Nat /\ heap_cur' \in Nat
  BY LayoutFacts DEF BindSlot, LinkInv, TypeInv, LoadOK
<1>2. /\ Len(image.sections) \in Nat /\ DataImports \in Nat
      /\ DataBefore(image)[Len(image.sections)] \in Nat
  BY <1>1, TotalFacts
<1>3. PICK q, before : q = image.sections[s].syms /\ before = DataBefore(image)[s - 1]
  OBVIOUS
<1>4. /\ q \in Seq(CNames) /\ Len(q) \in Nat /\ before \in Nat
      /\ DataBefore(image)[s] = before + DataIn(q)[Len(q)]
      /\ \A n \in 0 .. Len(q) : DataIn(q)[n] \in Nat
      /\ \A n \in 1 .. Len(q) :
           /\ DataIn(q)[n] = DataIn(q)[n - 1] + IF IsData(Stripped(q[n])) THEN 1 ELSE 0
           /\ before + DataIn(q)[n] <= DataBefore(image)[Len(image.sections)]
  <2>1. /\ image \in Images /\ Loads(image) /\ s \in Nat \ {0} /\ s <= Len(image.sections)
        /\ q = image.sections[s].syms /\ before = DataBefore(image)[s - 1]
    BY <1>1, <1>3
  <2> QED BY ONLY <2>1, CountFacts, SMTT(30)
<1>5. /\ ChainsRight /\ \A e \in Entries(image) : Passed(e) => Right(SlotOf(image, e))
      /\ k <= Len(q) + 1 /\ HeapHolds(DataImports + before + DataIn(q)[k - 1])
  BY <1>1, <1>3 DEF SectionInv
<1>6. DataIn(q)[k - 1] \in Nat
  <2>1. k - 1 \in 0 .. Len(q)
    BY <1>1, <1>4, <1>5
  <2> QED BY <1>4, <2>1
<1>7. PICK n \in Nat : n = DataImports + before + DataIn(q)[k - 1]
  BY <1>2, <1>4, <1>6
<1>8. HeapHolds(n)
  BY <1>5, <1>7
\* The next place of the section: its entry, if it is one, is bound.
<1>9. ASSUME k <= Len(q), k' = k + 1, s' = s, AsFiled',
             \A a \in DOMAIN image.pointers : Right(a) => Right(a)',
             \A e \in Entries(image) : e = <<s, k>> => Right(SlotOf(image, e))',
             heap_cur' <= HeapStart + (n + IF IsData(Stripped(q[k])) THEN 1 ELSE 0) * CellSize
      PROVE  LinkInv'
  <2>1. ChainsRight'
    <3>1. ASSUME Walked(image), NEW pg \in Pages(image), NEW a \in OnPage(image, pg)
          PROVE  Right(a)'
      BY <1>1, <1>5, <1>9, <3>1, PageFacts DEF ChainsRight
    <3> QED BY <1>1, <3>1 DEF ChainsRight
  <2>2. ASSUME NEW e \in Entries(image), Passed(e)' PROVE Right(SlotOf(image, e))'
    <3>1. e = <<e[1], e[2]>> /\ e[1] \in Nat /\ e[2] \in Nat
      BY <1>1, <2>2, EntryFacts
    <3>2. CASE e = <<s, k>>
      BY <1>9, <2>2, <3>2
    <3>3. CASE e # <<s, k>>
      <4>1. e[1] # s \/ e[2] # k
        BY <3>1, <3>3
      <4>2. Passed(e)
        BY <1>1, <1>9, <2>2, <3>1, <4>1 DEF Passed
      <4>3. PICK a \in DOMAIN image.pointers : a = SlotOf(image, e)
        BY <1>1, <2>2, ImageFacts DEF WellLinked
      <4>4. Right(a)'
        BY <1>5, <1>9, <2>2, <4>2, <4>3
      <4>5. a = SlotOf(image', e)
        BY <1>1, <4>3
      <4> QED BY <4>4, <4>5
    <3> QED BY <3>2, <3>3
  <2>3. PICK m \in Nat : m = DataImports + before + DataIn(q)[k]
    <3>1. k \in 0 .. Len(q)
      BY <1>1, <1>4, <1>9
    <3>2. DataIn(q)[k] \in Nat
      BY <1>4, <3>1
    <3> QED BY <1>2, <1>4, <3>2
  <2>4. heap_cur' <= HeapStart + m * CellSize
    <3>1. k \in 1 .. Len(q)
      BY <1>1, <1>4, <1>9
    <3>2. DataIn(q)[k] = DataIn(q)[k - 1] + IF IsData(Stripped(q[k])) THEN 1 ELSE 0
      BY <1>4, <3>1
    <3>3. m = n + IF IsData(Stripped(q[k])) THEN 1 ELSE 0
      BY <1>2, <1>4, <1>6, <1>7, <2>3, <3>2
    <3> QED BY <1>9, <3>3
  <2>5. HeapHolds(m)'
    BY <2>4 DEF HeapHolds
  <2>6. PICK j \in Nat \ {0} : j = k + 1
    BY <1>1
  <2>7. /\ j - 1 = k /\ j <= Len(q) + 1 /\ s <= Len(image.sections) + 1
    BY <1>1, <1>2, <1>4, <1>9, <2>6
  <2>8. m = DataImports + DataBefore(image)[s - 1]
              + IF s <= Len(image.sections) THEN DataIn(image.sections[s].syms)[j - 1] ELSE 0
    BY <1>1, <1>3, <2>3, <2>7
  <2>9. SectionInv'
    <3>1. s' = s /\ k' = j /\ j <= Len(image.sections[s].syms) + 1
      BY <1>3, <1>9, <2>6, <2>7
    <3> QED BY <1>1, <2>1, <2>2, <2>5, <2>7, <2>8, <3>1, SectionsGoOn
  <2> QED BY <1>1, <1>9, <2>9 DEF LinkInv, Loaded
\* What stays when nothing is bound.
<1>10. ASSUME UNCHANGED <<mem, heap_cur, thunks>>
       PROVE  AsFiled' /\ \A a \in DOMAIN image.pointers : Right(a) => Right(a)'
  <2>1. Grown
    <3>1. heap_cur \in Nat
      BY <1>1, LayoutFacts DEF LoadOK
    <3> QED BY <1>10, <3>1 DEF Grown
  <2>2. ASSUME NEW a \in DOMAIN image.pointers, Right(a) PROVE Right(a)'
    BY <1>1, <1>10, <2>1, <2>2, RightStays
  <2>3. AsFiled'
    BY <1>1, <1>10 DEF AsFiled
  <2> QED BY <2>2, <2>3
<1>11. CASE k <= Len(q) /\ q[k] # Skipped /\ k' = k + 1 /\ s' = s
            /\ Resolve(Stripped(q[k]))
            /\ mem' = WritePtr(MemWith(Stripped(q[k])), image.sections[s].addr + (k - 1) * Ptr,
                               Resolved(Stripped(q[k])))
  <2>1. k \in DOMAIN q /\ s \in DOMAIN image.sections
    <3>1. image.sections \in Seq([addr : Nat, syms : Seq(CNames)])
      BY <1>1, ImagesAssumption
    <3> QED BY <1>1, <1>2, <1>4, <1>11, <3>1
  <2>2. PICK e : e = <<s, k>>
    OBVIOUS
  <2>3. e[1] = s /\ e[2] = k /\ e \in Entries(image)
    BY <1>3, <1>11, <2>1, <2>2 DEF Entries
  <2>4. PICK name, v, slot :
          /\ name \in CNames /\ name = Stripped(q[k])
          /\ v = Resolved(name) /\ slot = SlotOf(image, e)
    <3>1. q[k] \in CNames
      BY <1>4, <2>1
    <3> QED BY <3>1, StrippedFacts
  <2>5. name = NameOf(image, e) /\ slot = image.sections[s].addr + (k - 1) * Ptr
    BY <1>3, <2>3, <2>4 DEF NameOf, SlotOf
  <2>6. Resolve(name) /\ mem' = WritePtr(MemWith(name), slot, v)
    BY <1>11, <2>4, <2>5
  <2>7. IsData(name) => n + 1 <= DataImports + DataBefore(image)[Len(image.sections)]
    <3>1. k \in 1 .. Len(q) /\ k \in 0 .. Len(q)
      BY <1>1, <1>4, <1>11
    <3>2. /\ DataIn(q)[k] = DataIn(q)[k - 1] + IF IsData(name) THEN 1 ELSE 0
          /\ before + DataIn(q)[k] <= DataBefore(image)[Len(image.sections)]
      BY <1>4, <2>4, <3>1
    <3> QED BY <1>2, <1>4, <1>6, <1>7, <3>2
  <2>8. /\ heap_cur' <= HeapStart + (n + IF IsData(name) THEN 1 ELSE 0) * CellSize
        /\ Right(slot)' /\ AsFiled'
        /\ \A a \in DOMAIN image.pointers : Right(a) => Right(a)'
    BY <1>1, <1>8, <2>3, <2>4, <2>5, <2>6, <2>7, SlotBound
  <2>9. \A e1 \in Entries(image) : e1 = <<s, k>> => Right(SlotOf(image, e1))'
    <3>1. SUFFICES ASSUME NEW e1 \in Entries(image), e1 = <<s, k>>
          PROVE  Right(SlotOf(image, e1))'
      OBVIOUS
    <3>2. slot = SlotOf(image', e1)
      BY <1>1, <2>2, <2>4, <3>1
    <3> QED BY <2>8, <3>2
  <2> QED BY <1>9, <1>11, <2>4, <2>8, <2>9
<1>12. CASE /\ k <= Len(q) /\ q[k] = Skipped /\ k' = k + 1
            /\ UNCHANGED <<s, mem, heap_cur, thunks>>
  <2>1. <<s, k>> \notin Entries(image)
    BY <1>3, <1>12 DEF Entries
  <2>2. heap_cur' <= HeapStart + (n + IF IsData(Stripped(q[k])) THEN 1 ELSE 0) * CellSize
    <3>1. heap_cur' <= HeapStart + n * CellSize
      BY <1>8, <1>12 DEF HeapHolds
    <3>2. n <= n + 1 /\ n + 1 \in Nat /\ n + 0 = n
      OBVIOUS
    <3>3. heap_cur' <= HeapStart + (n + 1) * CellSize
      BY <1>1, <3>1, <3>2, HoldsMore
    <3> QED BY <3>1, <3>2, <3>3
  <2> QED BY <1>9, <1>10, <1>12, <2>1, <2>2
<1>13. CASE /\ k > Len(q) /\ s' = s + 1 /\ k' = 1 /\ UNCHANGED <<mem, heap_cur, thunks>>
  <2>1. AsFiled' /\ \A a \in DOMAIN image.pointers : Right(a) => Right(a)'
    BY <1>10, <1>13
  <2>2. ChainsRight'
    <3>1. ASSUME Walked(image), NEW pg \in Pages(image), NEW a \in OnPage(image, pg)
          PROVE  Right(a)'
      BY <1>1, <1>5, <2>1, <3>1, PageFacts DEF ChainsRight
    <3> QED BY <1>1, <3>1 DEF ChainsRight
  <2>3. ASSUME NEW e \in Entries(image), Passed(e)' PROVE Right(SlotOf(image, e))'
    <3>1. /\ e[1] \in Nat /\ e[2] \in Nat \ {0}
          /\ e[2] <= Len(image.sections[e[1]].syms)
      BY <1>1, <2>3, EntryFacts
    <3>2. Passed(e)
      <4>1. e[1] = s => e[2] < k
        BY <1>1, <1>3, <1>4, <1>13, <3>1
      <4> QED BY <1>1, <1>13, <2>3, <3>1, <4>1 DEF Passed
    <3>3. PICK a \in DOMAIN image.pointers : a = SlotOf(image, e)
      BY <1>1, <2>3, ImageFacts DEF WellLinked
    <3>4. Right(a)'
      BY <1>5, <2>1, <2>3, <3>2, <3>3
    <3>5. a = SlotOf(image', e)
      BY <1>1, <3>3
    <3> QED BY <3>4, <3>5
  <2>4. k - 1 = Len(q)
    <3>1. PICK c \in Nat : c = Len(q)
      BY <1>4
    <3>2. k \in Nat /\ k <= c + 1 /\ k > c
      BY <1>1, <1>5, <1>13, <3>1
    <3> QED BY <3>1, <3>2
  <2>5. PICK i \in Nat \ {0} : i = s + 1
    BY <1>1
  <2>6. i - 1 = s /\ i <= Len(image.sections) + 1
    BY <1>1, <1>2, <2>5
  <2>7. i <= Len(image.sections) =>
          /\ 1 <= Len(image.sections[i].syms) + 1
          /\ DataIn(image.sections[i].syms)[1 - 1] = 0
    <3>1. SUFFICES ASSUME i <= Len(image.sections)
          PROVE  /\ 1 <= Len(image.sections[i].syms) + 1
                 /\ DataIn(image.sections[i].syms)[1 - 1] = 0
      OBVIOUS
    <3>2. PICK r \in Seq(CNames) : r = image.sections[i].syms
      <4>1. i \in 1 .. Len(image.sections)
        BY <1>2, <3>1
      <4> QED BY <1>1, <4>1, DataBeforeFacts
    <3>3. DataIn(r)[0] = 0 /\ Len(r) \in Nat /\ 1 - 1 = 0
      BY DataInFacts
    <3> QED BY <3>2, <3>3
  <2>8. n = DataImports + DataBefore(image)[i - 1]
              + IF i <= Len(image.sections) THEN DataIn(image.sections[i].syms)[1 - 1] ELSE 0
    <3>1. PICK d \in Nat : d = DataIn(q)[k - 1]
      BY <1>6
    <3>2. DataBefore(image)[i - 1] = before + d
      BY <1>4, <2>4, <2>6, <3>1
    <3>3. n = DataImports + before + d
      BY <1>7, <3>1
    <3>4. n = DataImports + (before + d) + 0
      BY <1>2, <1>4, <3>3
    <3> QED BY <2>7, <3>2, <3>4
  <2>9. HeapHolds(n)'
    BY <1>8, <1>13 DEF HeapHolds
  <2>10. SectionInv'
    <3>1. s' = i /\ k' = 1 /\ 1 \in Nat \ {0}
      BY <1>13, <2>5
    <3> QED BY <1>1, <2>2, <2>3, <2>6, <2>7, <2>8, <2>9, <3>1, SectionsGoOn
  <2> QED BY <1>1, <2>1, <2>10 DEF LinkInv, Loaded
<1> QED BY <1>3, <1>11, <1>12, <1>13 DEF BindSlot

\* Every pointer of a known format is on a page or in a table.
LEMMA SectionsDoneLinks == TypeInv /\ TypeInv' /\ LinkInv /\ SectionsDone => LinkInv'
<1> SUFFICES ASSUME TypeInv, TypeInv', LinkInv, SectionsDone PROVE LinkInv'
  OBVIOUS
<1>1. /\ phase = "sections" /\ SectionInv /\ AsFiled /\ Loads(image) /\ image \in Images
      /\ LoadOK /\ LoadOK' /\ s \in Nat \ {0} /\ s > Len(image.sections)
      /\ UNCHANGED <<image, link, mem, heap_cur, thunks, import_values>> /\ phase' = "loaded"
      /\ heap_cur \in Nat
  BY LayoutFacts DEF SectionsDone, LinkInv, TypeInv, LoadOK, Goto
<1>2. Grown /\ AsFiled'
  BY <1>1 DEF Grown, AsFiled
<1>3. ASSUME NEW a \in Fixable PROVE Right(a)
  <2>1. a \in DOMAIN image.pointers /\ image.pointers[a].known /\ WellLinked(image)
    BY <1>1, <1>3, ImageFacts DEF Fixable
  <2>2. CASE Walked(image) /\ \E pg \in Pages(image) : a \in OnPage(image, pg)
    BY <1>1, <2>2 DEF SectionInv, ChainsRight
  <2>3. CASE \E e \in Entries(image) : a = SlotOf(image, e)
    <3>1. PICK e \in Entries(image) : a = SlotOf(image, e)
      BY <2>3
    <3>2. e[1] \in Nat /\ e[1] <= Len(image.sections) /\ Len(image.sections) \in Nat
      BY <1>1, EntryFacts, TotalFacts
    <3>3. Passed(e)
      BY <1>1, <3>2 DEF Passed
    <3> QED BY <1>1, <3>1, <3>3 DEF SectionInv
  <2> QED BY <2>1, <2>2, <2>3 DEF WellLinked
<1>4. ASSUME NEW a \in Fixable' PROVE Right(a)'
  <2>1. a \in Fixable
    BY <1>1, <1>4 DEF Fixable
  <2> QED BY <1>1, <1>2, <1>3, <2>1, RightStays
<1> QED BY <1>1, <1>2, <1>4 DEF LinkInv, Loaded

LEMMA LoadLinks == TypeInv /\ TypeInv' /\ LinkInv /\ LoadStep => LinkInv'
BY OpenLinks, CopyLinks, EntryLinks, ImportLinks, ImportsDoneLinks, NextPageLinks, FixLinks,
   ChainsDoneLinks, BindLinks, SectionsDoneLinks DEF LoadStep, Load

\* The set-up and the run write above the heap only.
LEMMA RunStays ==
  ASSUME TypeInv, TypeInv', LinkInv, phase \in Loaded, phase' \in Loaded,
         UNCHANGED <<image, heap_cur, thunks>>,
         \A a \in Cells : a < HeapEnd => mem'[a] = mem[a]
  PROVE  LinkInv'
<1>1. /\ LoadOK /\ LoadOK' /\ image \in Images /\ Loads(image) /\ AsFiled
      /\ \A a \in Fixable : Right(a)
      /\ heap_cur \in HeapStart .. HeapEnd /\ heap_cur \in Nat /\ HeapStart \in Nat
      /\ HeapEnd \in Nat /\ HeapStart <= HeapEnd
  BY LayoutFacts DEF LinkInv, Loaded, TypeInv, LoadOK
<1>2. \A a \in Cells : a < HeapStart => mem'[a] = mem[a]
  BY <1>1, LayoutFacts DEF Cells
<1>3. Grown
  <2>1. ASSUME NEW a \in HeapStart .. heap_cur - 1 PROVE mem'[a] = mem[a]
    <3>1. a \in Cells /\ a < HeapEnd
      BY <1>1, <2>1, LayoutFacts, LayoutAssumption DEF Cells, HeapStart, HeapEnd
    <3> QED BY <3>1
  <2> QED BY <1>1, <2>1 DEF Grown
<1>4. ASSUME NEW a \in Fixable' PROVE Right(a)'
  <2>1. a \in Fixable /\ a \in DOMAIN image.pointers
    BY <1>4 DEF Fixable
  <2>2. mem'[a] = mem[a]
    BY <1>1, <1>2, <2>1, ImageFacts
  <2> QED BY <1>1, <1>3, <2>1, <2>2, RightStays
<1>5. AsFiled'
  <2>1. ASSUME NEW j \in DOMAIN image.segs, NEW a \in Places(image, j)
        PROVE  a \in DOMAIN image.pointers \/ mem'[a] = mem[a]
    BY <1>1, <1>2, <2>1, ImageFacts
  <2> QED BY <1>1, <2>1, FiledStays
<1> QED BY <1>1, <1>4, <1>5 DEF LinkInv, Loaded

\* The arguments' area is above the heap.
LEMMA AboveHeap ==
  ASSUME TypeInv
  PROVE  HeapEnd \in Nat /\ cursor \in Nat /\ HeapEnd <= cursor
<1>1. args \in ArgLists /\ cursor \in Info .. StackTop
  BY DEF TypeInv, RunOK
<1>2. /\ StackTopOff \in Nat /\ ArgvArea \in Nat /\ HeapOff \in Nat /\ HeapSize \in Nat
      /\ HeapOff + HeapSize + ArgvArea <= StackTopOff
  BY StackAssumption, LayoutAssumption
<1>3. HeapEnd <= Info
  BY <1>2, LayoutFacts DEF HeapEnd, HeapStart, Info, StackTop
<1> QED BY <1>1, <1>3, StackFacts, LayoutFacts

LEMMA SetUpLinks ==
  TypeInv /\ TypeInv' /\ LinkInv /\ (PushArg \/ ArgsDone \/ Start) => LinkInv'
<1> SUFFICES ASSUME TypeInv, TypeInv', LinkInv, PushArg \/ ArgsDone \/ Start PROVE LinkInv'
  OBVIOUS
<1>0. HeapEnd \in Nat /\ cursor \in Nat /\ HeapEnd <= cursor
  BY AboveHeap
<1>1. CASE PushArg
  <2>1. /\ phase \in Loaded /\ phase' \in Loaded
        /\ UNCHANGED <<image, heap_cur, thunks>>
    BY <1>1 DEF PushArg, Goto, Loaded
  <2>2. \/ mem' = mem
        \/ mem' = [a \in Cells |-> IF a \in cursor .. cursor + Len(args[s]) - 1
                                   THEN Plain(args[s][a - cursor + 1]) ELSE mem[a]]
    BY <1>1 DEF PushArg
  <2>3. ASSUME NEW a \in Cells, a < HeapEnd PROVE mem'[a] = mem[a]
    <3>1. a \in Nat
      BY LayoutFacts DEF Cells
    <3>2. a \notin cursor .. cursor + Len(args[s]) - 1
      BY <1>0, <2>3, <3>1
    <3> QED BY <2>2, <3>2
  <2> QED BY <2>1, <2>3, RunStays
<1>2. CASE ArgsDone
  <2>1. /\ phase \in Loaded /\ phase' \in Loaded
        /\ UNCHANGED <<image, heap_cur, thunks, mem>>
    BY <1>2 DEF ArgsDone, Goto, Loaded
  <2> QED BY <2>1, RunStays
<1>3. CASE Start
  <2> DEFINE n     == Len(argv_ptrs)
             argv  == Aligned(cursor, Grain)
             envp  == argv + (n + 1) * Ptr
             apple == envp + Ptr
             At(a) == ((a - argv) \div Ptr) + 1
  <2>1. /\ phase \in Loaded /\ phase' \in Loaded
        /\ UNCHANGED <<image, heap_cur, thunks>>
    BY <1>3 DEF Start, Goto, Loaded
  <2>2. mem' = [a \in Cells |->
             IF \E j \in 1 .. n : a = argv + (j - 1) * Ptr
             THEN Plain(argv_ptrs[At(a)])
             ELSE IF a \in {envp - Ptr, envp, apple} THEN Plain(0) ELSE mem[a]]
    BY <1>3 DEF Start
  <2>3. argv \in Nat /\ cursor <= argv /\ n \in Nat /\ Ptr \in Nat /\ n * Ptr \in Nat
        /\ (n + 1) * Ptr = n * Ptr + Ptr
    <3>1. argv \in Nat /\ cursor <= argv
      BY <1>0, LayoutAssumption, AlignedFacts
    <3>2. n \in Nat /\ Ptr \in Nat
      BY LayoutFacts DEF TypeInv, RunOK
    <3>3. n * Ptr \in Nat /\ (n + 1) * Ptr = n * Ptr + Ptr
      <4> HIDE DEF n
      <4> QED BY <3>2
    <3> QED BY <3>1, <3>2, <3>3
  <2>4. ASSUME NEW a \in Cells, a < HeapEnd PROVE mem'[a] = mem[a]
    <3>1. a \in Nat
      BY LayoutFacts DEF Cells
    <3>2. ~\E j \in 1 .. n : a = argv + (j - 1) * Ptr
      <4>1. SUFFICES ASSUME NEW j \in 1 .. n PROVE a # argv + (j - 1) * Ptr
        OBVIOUS
      <4>2. (j - 1) * Ptr \in Nat
        <5>1. j - 1 \in Nat
          BY <2>3
        <5> QED BY <2>3, <5>1
      <4> HIDE DEF argv, n
      <4> QED BY <1>0, <2>3, <2>4, <3>1, <4>2
    <3>3. a \notin {envp - Ptr, envp, apple}
      <4> HIDE DEF argv, n
      <4> QED BY <1>0, <2>3, <2>4, <3>1
    <3> HIDE DEF argv, n, envp, apple, At
    <3> QED BY <2>2, <3>2, <3>3
  <2> QED BY <2>1, <2>4, RunStays
<1> QED BY <1>1, <1>2, <1>3

LEMMA RunLinks == TypeInv /\ TypeInv' /\ LinkInv /\ (Guest \/ Loop) => LinkInv'
<1> SUFFICES ASSUME TypeInv, TypeInv', LinkInv, Guest \/ Loop PROVE LinkInv'
  OBVIOUS
<1>1. /\ phase = "running" /\ phase' \in {"running", "finished"}
      /\ UNCHANGED <<image, mem, heap_cur, thunks>>
  <2>1. CASE Guest
    BY <2>1 DEF Guest, CallImport, ReturnFromMain, Svc, Stray, Wander, Undefined,
      UnchangedByGuest, loaderVars, InCode
  <2>2. CASE Loop
    BY <2>2 DEF Loop, HandleThunk, HandleSyscall, StopOnReason, NoCode, UnchangedByLoop,
      InCode, Finish, Done, Goto
  <2> QED BY <2>1, <2>2
<1> QED BY <1>1, RunStays DEF Loaded

LEMMA LinksInit == Init => LinkInv
BY DEF Init, LoadInit, LinkInv, Loaded

LEMMA LinksKept == TypeInv /\ TypeInv' /\ LinkInv /\ [Next]_vars => LinkInv'
<1> SUFFICES ASSUME TypeInv, TypeInv', LinkInv, [Next]_vars PROVE LinkInv'
  OBVIOUS
<1>1. CASE UNCHANGED vars
  <2>1. UNCHANGED <<image, phase, s, k, link, mem, heap_cur, thunks, import_values>>
    BY <1>1 DEF vars, loaderVars
  <2> QED BY <2>1 DEF LinkInv, Loaded, CopyInv, ImportInv, ChainInv, SectionInv, ChainsRight,
        AsFiled, Raw, Right, Leads, ImportsLead, HeapHolds, Passed, Pending, Fixable, IsData,
        DataImports
<1> QED BY <1>1, LoadLinks, SetUpLinks, RunLinks DEF Next

LEMMA LinksAlways == Spec => []LinkInv
BY LinksInit, LinksKept, TypeAlways, PTL DEF Spec

\* For every binary whose chains and tables say what its pointers mean, at every
\* point behind load: each import leads to the thunk of its own name or to a cell
\* with its datum, each rebased pointer to its target, and the rest of the image
\* is the file's (Emu::load, bind_chained_fixups, resolve_import).
THEOREM PointersAreBound == Spec => []PointersBound
<1>1. TypeInv /\ LinkInv => PointersBound
  <2> SUFFICES ASSUME TypeInv, LinkInv, phase \notin {"failed"}, ~Loading
      PROVE  /\ \A a \in Fixable :
                  LET p == image.pointers[a] IN
                  IF p.import THEN LeadsTo(mem[a].n, p.name)
                  ELSE mem[a] = Plain(Base + p.target)
             /\ \A j \in DOMAIN image.segs : \A i \in DOMAIN image.segs[j].data :
                  LET a == image.segs[j].vmaddr + i - 1 IN
                  a \in DOMAIN image.pointers \/ mem[a] = image.segs[j].data[i]
    BY DEF PointersBound
  <2>1. phase \in Loaded /\ AsFiled /\ \A a \in Fixable : Right(a)
    BY DEF LinkInv, Loading
  <2>2. image \in Images /\ heap_cur \in HeapStart .. HeapEnd
    BY DEF TypeInv, LoadOK
  <2>3. ASSUME NEW v, NEW name, Leads(v, name) PROVE LeadsTo(v, name)
    <3>1. ASSUME v \in HeapStart .. heap_cur - 1 PROVE v \in Cells
      BY <2>2, <3>1, LayoutFacts, LayoutAssumption DEF Cells, HeapStart, HeapEnd
    <3> QED BY <2>3, <3>1 DEF Leads, LeadsTo
  <2>4. ASSUME NEW a \in Fixable
        PROVE  IF image.pointers[a].import THEN LeadsTo(mem[a].n, image.pointers[a].name)
               ELSE mem[a] = Plain(Base + image.pointers[a].target)
    BY <2>1, <2>3 DEF Right
  <2>5. ASSUME NEW j \in DOMAIN image.segs, NEW i \in DOMAIN image.segs[j].data, NEW a,
               a = image.segs[j].vmaddr + i - 1
        PROVE  a \in DOMAIN image.pointers \/ mem[a] = image.segs[j].data[i]
    <3>1. PICK b \in Nat, d \in Seq(Links) : b = image.segs[j].vmaddr /\ d = image.segs[j].data
      BY <2>2, PlacesFacts
    <3>2. i \in 1 .. Len(d) /\ Len(d) \in Nat
      BY <3>1
    <3>3. a \in b .. b + Len(d) - 1 /\ a - b + 1 = i
      <4>1. PICK m \in Nat : m = Len(d)
        BY <3>2
      <4>2. i \in 1 .. m /\ a = b + i - 1
        BY <2>5, <3>1, <3>2, <4>1
      <4>3. a \in b .. b + m - 1 /\ a - b + 1 = i
        BY ONLY <4>2, b \in Nat, m \in Nat
      <4> QED BY <4>1, <4>3
    <3>4. a \in Places(image, j) /\ Word(image, j, a) = image.segs[j].data[i]
      BY <3>1, <3>3 DEF Places, Word
    <3> QED BY <2>1, <3>4 DEF AsFiled
  <2> QED BY <2>4, <2>5
<1> QED BY <1>1, TypeAlways, LinksAlways, PTL

----------------------------------------------------------------------------
(* Accesses outside the window.                                            *)

\* The guest accesses nothing further from the window than its guards reach.
Near == \A g \in Touched : Base - Guard <= g /\ g < Base + WindowSize + Guard

StrayInv ==
  /\ phase \notin {"running", "finished"} => touched = None /\ exit_reason = "none"
  /\ touched # None => pc = Code /\ exit_reason = "memfault" /\ fault_addr = touched
  /\ phase = "finished" /\ touched # None => exit_code = 139

\* load and the set-up of the run touch nothing of the run's own.
LEMMA SetUpFacts ==
  ASSUME LoadStep \/ PushArg \/ ArgsDone \/ Start
  PROVE  /\ phase \in {"open", "segments", "imports", "chains", "sections", "loaded", "argv"}
         /\ phase' \in {"open", "segments", "imports", "chains", "sections", "loaded", "argv",
                       "running", "failed"}
         /\ phase' = "running" => phase = "argv"
         /\ UNCHANGED <<pc, exit_reason, fault_addr, exit_code, touched, calling, said>>
<1>1. CASE LoadStep
  BY <1>1 DEF LoadStep, runVars, Load, Open, CopySegment, FindEntry, Import, ImportsDone,
    NextPage, FixLink, ChainsDone, BindSlot, SectionsDone, Goto
<1>2. CASE PushArg
  BY <1>2 DEF PushArg, Goto
<1>3. CASE ArgsDone
  BY <1>3 DEF ArgsDone, runVars, Goto
<1>4. CASE Start
  BY <1>4 DEF Start, Goto
<1> QED BY <1>1, <1>2, <1>3, <1>4

\* A stray access is caught, and the fault names the guest's address.
LEMMA StrayFacts ==
  ASSUME Near, NEW g \in Touched, Stray(g)
  PROVE  exit_reason' = "memfault" /\ fault_addr' = g
<1>1. g \in Words /\ Base - Guard <= g /\ g < Base + WindowSize + Guard
  BY GuestAssumption DEF Near
<1>2. Caught(HostAddr(g)) /\ FaultAddr(HostAddr(g)) = g
  BY <1>1, GuardsCatch
<1> QED BY <1>2 DEF Stray

LEMMA StrayKeeps ==
  ASSUME Near PROVE StrayInv /\ [Next]_vars => StrayInv'
<1> SUFFICES ASSUME StrayInv, [Next]_vars PROVE StrayInv'
  OBVIOUS
<1>1. CASE LoadStep \/ PushArg \/ ArgsDone \/ Start
  BY <1>1, SetUpFacts DEF StrayInv
<1>2. CASE \E g \in Touched : Stray(g)
  <2>1. PICK g \in Touched : Stray(g)
    BY <1>2
  <2>2. exit_reason' = "memfault" /\ fault_addr' = g /\ touched' = g
    BY <2>1, StrayFacts DEF Stray
  <2>3. InCode /\ pc' = pc /\ phase' = phase
    BY <2>1 DEF Stray, UnchangedByGuest, loaderVars
  <2> QED BY <2>2, <2>3 DEF StrayInv, InCode
<1>3. CASE Guest /\ ~\E g \in Touched : Stray(g)
  <2>1. InCode /\ UNCHANGED <<phase, touched>>
    BY <1>3 DEF Guest, CallImport, ReturnFromMain, Svc, Wander, Undefined, UnchangedByGuest,
      loaderVars
  <2> QED BY <2>1 DEF StrayInv, InCode
<1>4. CASE Loop
  <2>1. phase = "running" /\ UNCHANGED <<touched, fault_addr>>
    BY <1>4 DEF Loop, HandleThunk, HandleSyscall, StopOnReason, NoCode, UnchangedByLoop, InCode
  <2>2. phase' \in {"running", "finished"}
    BY <1>4, <2>1 DEF Loop, HandleThunk, HandleSyscall, StopOnReason, NoCode, InCode, Finish,
      Done, Goto
  <2>3. CASE touched = None
    BY <2>1, <2>2, <2>3 DEF StrayInv
  <2>4. CASE touched # None
    <3>1. pc = Code /\ exit_reason = "memfault" /\ fault_addr = touched
      BY <2>4 DEF StrayInv
    <3>2. Finish(139)
      BY <1>4, <3>1 DEF Loop, HandleThunk, HandleSyscall, StopOnReason, NoCode, InCode
    <3> QED BY <2>1, <3>1, <3>2 DEF StrayInv, Finish, Goto
  <2> QED BY <2>3, <2>4
<1>5. CASE UNCHANGED vars
  BY <1>5 DEF vars, loaderVars, runVars, StrayInv
<1> QED BY <1>1, <1>2, <1>3, <1>4, <1>5 DEF Next

\* For every layout in which host addresses do not wrap, and every guest whose
\* accesses stay within the guards' reach: one outside the window ends the run
\* with status 139 and is reported at the guest's own address.  (Beyond that
\* reach this fails: a null pointer of an image at 2^32.)
THEOREM StraysAreReported ==
  ASSUME Near PROVE Spec => []StraysReported
<1>1. Init => StrayInv
  BY DEF Init, LoadInit, StrayInv
<1>2. StrayInv /\ [Next]_vars => StrayInv'
  BY StrayKeeps
<1>3. StrayInv => StraysReported
  BY DEF StrayInv, StraysReported
<1> QED BY <1>1, <1>2, <1>3, PTL DEF Spec

----------------------------------------------------------------------------
(* A run is the program's own.                                             *)

\* The guest jumps nowhere that looks like a thunk.
Tame == Wild \cap {p \in Nat : p >= ThunkBase} = {}

\* What the dispatcher will find is what the guest asked for.
Agrees ==
  \/ pc = Code /\ exit_reason = "none" /\ calling = Own
  \/ /\ pc = Code /\ exit_reason = "syscall" /\ x16 \in {SysExit, SysWrite, SysOther}
     /\ calling = [name |-> x16, arg |-> x0]
  \/ pc = Code /\ exit_reason = "memfault" /\ calling = [name |-> Nowhere, arg |-> 0]
  \/ pc = Code /\ exit_reason = "undefinsn" /\ calling = [name |-> NoInsn, arg |-> 0]
  \/ /\ pc # Code /\ exit_reason = "none" /\ pc \in Nat
     /\ pc - ThunkBase + 1 \in DOMAIN thunks
     /\ thunks[pc - ThunkBase + 1].stem \notin Requests
     /\ calling = [name |-> thunks[pc - ThunkBase + 1], arg |-> x0]

CallInv ==
  /\ phase \notin {"running", "finished"} =>
       calling = Own /\ said = <<>> /\ pc = Code /\ exit_reason = "none"
  /\ phase = "running" => Agrees

\* A call goes to the thunk of the name that the program imports there.
LEMMA CallFacts ==
  ASSUME TypeInv, PointersBound, NEW a \in Fixable, NEW v \in Values, CallImport(a, v)
  PROVE  Agrees' /\ InCode /\ \E name \in Requestable : calling' = [name |-> name, arg |-> v]
<1> DEFINE p == image.pointers[a]
           q == mem[a].n
<1>1. /\ InCode /\ p.import /\ ~IsData(p.name)
      /\ pc' = q /\ x0' = v /\ calling' = [name |-> p.name, arg |-> v]
      /\ exit_reason' = exit_reason /\ thunks' = thunks
  BY DEF CallImport, UnchangedByGuest, loaderVars
<1>2. image \in Images /\ a \in DOMAIN image.pointers
  BY DEF TypeInv, LoadOK, Fixable
<1>3. a \in Cells /\ p.name.stem \notin Requests
  BY <1>2, ImagesAssumption, OwnAssumption
<1>4. q \in Nat
  BY <1>3 DEF TypeInv, LoadOK, Links
<1>5. LeadsTo(q, p.name)
  BY <1>1 DEF PointersBound, InCode, Loading
<1>6. q - ThunkBase + 1 \in DOMAIN thunks /\ thunks[q - ThunkBase + 1] = p.name
  BY <1>1, <1>5 DEF LeadsTo
<1>7. q # Code
  <2>1. DOMAIN thunks \subseteq Nat \ {0} /\ args \in ArgLists
    BY DEF TypeInv, LoadOK, RunOK
  <2>2. q - ThunkBase + 1 >= 1
    <3> HIDE DEF q
    <3> QED BY <1>6, <2>1
  <2> HIDE DEF q
  <2> QED BY <1>4, <2>1, <2>2, StackFacts, LayoutFacts DEF Code
<1>8. Agrees'
  BY <1>1, <1>3, <1>4, <1>6, <1>7 DEF Agrees, InCode, Code
<1>9. p.name \in UNION {{im.pointers[b].name : b \in DOMAIN im.pointers} : im \in Images}
  BY <1>2
<1> QED BY <1>1, <1>8, <1>9 DEF Requestable, Imported

LEMMA GuestAgrees ==
  ASSUME TypeInv, PointersBound, OneThunkEach, Near, Tame, Guest
  PROVE  /\ Agrees' /\ InCode
         /\ \E name \in Requestable, v \in Values : calling' = [name |-> name, arg |-> v]
         /\ UNCHANGED <<phase, exit_code, said>>
<1>r. {ExitName, SysExit, SysWrite, SysOther, Nowhere, NoInsn} \subseteq Requestable
  BY DEF Requestable
<1>0. 0 \in Values
  BY GuestAssumption
<1>1. UNCHANGED <<phase, exit_code, said, thunks>>
  <2>1. UnchangedByGuest
    BY DEF Guest, CallImport, ReturnFromMain, Svc, Stray, Wander, Undefined
  <2> QED BY <2>1 DEF UnchangedByGuest, loaderVars
<1>2. CASE \E a \in Fixable, v \in Values : CallImport(a, v)
  BY <1>1, <1>2, CallFacts
<1>3. CASE \E v \in Values : ReturnFromMain(v)
  <2>1. PICK v \in Values : ReturnFromMain(v)
    BY <1>3
  <2>2. ThunkBase - ThunkBase + 1 = 1 /\ ThunkBase # Code /\ ThunkBase \in Nat
    <3>1. args \in ArgLists
      BY DEF TypeInv, RunOK
    <3> QED BY <3>1, StackFacts, LayoutFacts DEF Code
  <2>3. 1 \in DOMAIN thunks /\ thunks[1] = ExitName
    <3>1. thunks \in Seq(CNames)
      BY DEF TypeInv, LoadOK
    <3> QED BY <3>1 DEF OneThunkEach
  <2>4. Agrees'
    BY <1>1, <2>1, <2>2, <2>3, OwnAssumption DEF ReturnFromMain, Agrees, InCode
  <2>5. InCode /\ calling' = [name |-> ExitName, arg |-> v]
    BY <2>1 DEF ReturnFromMain
  <2> QED BY <1>1, <1>r, <2>4, <2>5
<1>4. CASE \E v \in Values : \E nr \in {SysExit, SysWrite, SysOther} : Svc(nr, v)
  <2>1. PICK v \in Values, nr \in {SysExit, SysWrite, SysOther} : Svc(nr, v)
    BY <1>4
  <2>2. Agrees'
    BY <2>1 DEF Svc, Agrees, InCode
  <2>3. InCode /\ calling' = [name |-> nr, arg |-> v]
    BY <2>1 DEF Svc
  <2>4. nr \in Requestable
    BY <1>r
  <2> QED BY <1>1, <2>2, <2>3, <2>4
<1>5. CASE \E g \in Touched : Stray(g)
  <2>1. PICK g \in Touched : Stray(g)
    BY <1>5
  <2>2. exit_reason' = "memfault" /\ pc' = pc /\ InCode
        /\ calling' = [name |-> Nowhere, arg |-> 0]
    BY <2>1, StrayFacts DEF Stray
  <2>3. Agrees'
    BY <2>2 DEF Agrees, InCode, Code
  <2> QED BY <1>1, <1>0, <1>r, <2>2, <2>3
<1>6. CASE \E p \in Wild : Wander(p)
  <2>1. PICK p \in Wild : Wander(p)
    BY <1>6
  <2>2. ~(p >= ThunkBase)
    BY GuestAssumption DEF Tame
  <2>3. exit_reason' = "memfault" /\ pc' = pc /\ InCode
        /\ calling' = [name |-> Nowhere, arg |-> 0]
    BY <2>1, <2>2 DEF Wander
  <2>4. Agrees'
    BY <2>3 DEF Agrees, InCode, Code
  <2> QED BY <1>1, <1>0, <1>r, <2>3, <2>4
<1>7. CASE Undefined
  <2>1. exit_reason' = "undefinsn" /\ pc' = pc /\ InCode
        /\ calling' = [name |-> NoInsn, arg |-> 0]
    BY <1>7 DEF Undefined
  <2>2. Agrees'
    BY <2>1 DEF Agrees, InCode, Code
  <2> QED BY <1>1, <1>0, <1>r, <2>1, <2>2
<1> QED BY <1>2, <1>3, <1>4, <1>5, <1>6, <1>7 DEF Guest

\* The requests that are no functions are told from each other and from names.
LEMMA NamesApart ==
  /\ SysExit.stem = "svc exit" /\ SysWrite.stem = "svc write" /\ SysOther.stem = "svc other"
  /\ Nowhere.stem = "nowhere" /\ NoInsn.stem = "no instruction" /\ Own.name.stem = "own code"
  /\ \A name \in HostFns : name.stem \notin Requests
  /\ Exits \subseteq HostFns /\ Aborts \subseteq HostFns
  /\ ExitName \notin HostFns /\ ExitName.stem \notin Requests
BY OwnAssumption, GuestAssumption
   DEF SysExit, SysWrite, SysOther, Nowhere, NoInsn, Own, Special

ServedHere == (HostFns \ (Exits \cup Aborts)) \cup {SysWrite}

\* A step of the loop, seen as the program's: it ends, is served or given up.
EndsRight ==
  /\ calling # Own /\ calling.name \notin ServedHere
  /\ Finish(Machine!EndStatus(calling))
ServesRight ==
  /\ calling # Own /\ calling.name \in ServedHere
  /\ Done(calling)
GivesUp == calling = Own /\ Finish(70)

LEMMA ThunkMaps ==
  ASSUME TypeInv, Agrees, HandleThunk PROVE EndsRight \/ ServesRight
<1> DEFINE idx  == pc - ThunkBase
           name == thunks[idx + 1]
<1>1. /\ pc \in Nat /\ idx + 1 \in DOMAIN thunks /\ name.stem \notin Requests
      /\ calling = [name |-> name, arg |-> x0]
  BY DEF Agrees, HandleThunk
<1>2. ~(idx >= Len(thunks))
  <2>1. thunks \in Seq(CNames) /\ ThunkBase \in Nat
    BY ThunkAssumption DEF TypeInv, LoadOK
  <2> QED BY <1>1, <2>1
<1>3. IF name = ExitName THEN Finish(x0 % IntSize)
      ELSE IF name \notin HostFns THEN Finish(127)
      ELSE IF name \in Ends THEN Finish(IF name \in Exits THEN x0 % IntSize ELSE 134)
      ELSE Done([name |-> name, arg |-> x0])
  BY <1>2 DEF HandleThunk
<1> HIDE DEF name, idx
<1>4. calling # Own /\ calling.name = name /\ calling.arg = x0
  BY <1>1, NamesApart DEF Requests, Own
<1>5. name \notin {SysExit, SysWrite, SysOther, Nowhere, NoInsn}
  BY <1>1, NamesApart DEF Requests
<1>6. CASE name = ExitName
  <2>1. Machine!EndStatus(calling) = x0 % IntSize
    BY <1>4, <1>6 DEF Machine!EndStatus
  <2>2. name \notin ServedHere
    BY <1>5, <1>6, NamesApart DEF ServedHere
  <2> QED BY <1>3, <1>4, <1>6, <2>1, <2>2 DEF EndsRight
<1>7. CASE name # ExitName /\ name \notin HostFns
  <2>1. Machine!EndStatus(calling) = 127
    BY <1>4, <1>5, <1>7, NamesApart DEF Machine!EndStatus
  <2>2. name \notin ServedHere
    BY <1>5, <1>7 DEF ServedHere
  <2> QED BY <1>3, <1>4, <1>7, <2>1, <2>2 DEF EndsRight
<1>8. CASE name # ExitName /\ name \in HostFns /\ name \in Ends
  <2>1. Machine!EndStatus(calling) = IF name \in Exits THEN x0 % IntSize ELSE 134
    BY <1>4, <1>5, <1>8 DEF Machine!EndStatus, Ends
  <2>2. name \notin ServedHere
    BY <1>5, <1>8 DEF ServedHere, Ends
  <2> QED BY <1>3, <1>4, <1>8, <2>1, <2>2 DEF EndsRight
<1>9. CASE name # ExitName /\ name \in HostFns /\ name \notin Ends
  BY <1>1, <1>3, <1>4, <1>9 DEF ServesRight, ServedHere, Ends
<1> QED BY <1>6, <1>7, <1>8, <1>9

LEMMA LoopMaps ==
  ASSUME TypeInv, Agrees, Loop PROVE EndsRight \/ ServesRight \/ GivesUp
<1>0. \A name \in {SysExit, SysOther, Nowhere, NoInsn} : name \notin ServedHere
  BY NamesApart DEF ServedHere, Requests
<1>1. CASE HandleThunk
  BY <1>1, ThunkMaps
<1>2. CASE HandleSyscall
  <2>1. calling = [name |-> x16, arg |-> x0] /\ calling.name = x16 /\ calling.arg = x0
    BY <1>2 DEF HandleSyscall, Agrees
  <2>2. CASE x16 = SysExit /\ Finish(x0 % IntSize)
    <3>1. calling # Own
      BY <2>1, <2>2, NamesApart
    <3>2. Machine!EndStatus(calling) = x0 % IntSize
      BY <2>1, <2>2 DEF Machine!EndStatus
    <3> QED BY <1>0, <2>1, <2>2, <3>1, <3>2 DEF EndsRight
  <2>3. CASE x16 = SysWrite /\ Done([name |-> SysWrite, arg |-> x0])
    <3>1. calling # Own
      BY <2>1, <2>3, NamesApart
    <3> QED BY <2>1, <2>3, <3>1 DEF ServesRight, ServedHere
  <2>4. CASE x16 = SysOther /\ Finish(127)
    <3>1. calling # Own
      BY <2>1, <2>4, NamesApart
    <3>2. Machine!EndStatus(calling) = 127
      BY <2>1, <2>4, NamesApart DEF Machine!EndStatus, Requests
    <3> QED BY <1>0, <2>1, <2>4, <3>1, <3>2 DEF EndsRight
  <2> QED BY <1>2, <2>2, <2>3, <2>4 DEF HandleSyscall
<1>3. CASE StopOnReason
  <2>1. CASE exit_reason = "memfault" /\ Finish(139)
    <3>1. calling = [name |-> Nowhere, arg |-> 0] /\ calling.name = Nowhere
      BY <2>1 DEF Agrees
    <3>2. calling # Own
      BY <3>1, NamesApart
    <3>3. Machine!EndStatus(calling) = 139
      BY <3>1, NamesApart DEF Machine!EndStatus, Requests
    <3> QED BY <1>0, <2>1, <3>1, <3>2, <3>3 DEF EndsRight
  <2>2. CASE exit_reason = "undefinsn" /\ Finish(4)
    <3>1. calling = [name |-> NoInsn, arg |-> 0] /\ calling.name = NoInsn
      BY <2>2 DEF Agrees
    <3>2. calling # Own
      BY <3>1, NamesApart
    <3>3. Machine!EndStatus(calling) = 4
      BY <3>1, NamesApart DEF Machine!EndStatus, Requests
    <3> QED BY <1>0, <2>2, <3>1, <3>2, <3>3 DEF EndsRight
  <2> QED BY <1>3, <2>1, <2>2 DEF StopOnReason
<1>4. CASE NoCode
  BY <1>4 DEF NoCode, InCode, Agrees, GivesUp
<1> QED BY <1>1, <1>2, <1>3, <1>4 DEF Loop

LEMMA CallInit == Init => CallInv /\ Machine!Starts
<1> SUFFICES ASSUME Init PROVE CallInv /\ Machine!Starts
  OBVIOUS
<1>1. phase = "open" /\ calling = Own /\ said = <<>> /\ pc = Code /\ exit_reason = "none"
  BY DEF Init, LoadInit
<1> QED BY <1>1 DEF CallInv, Machine!Starts, Machine!Alive, status

\* Every step keeps the dispatcher's registers and the guest's request in
\* agreement, and is a step of the program's or none.
LEMMA StepMaps ==
  ASSUME Near, Tame, TypeInv, OneThunkEach, PointersBound, CallInv, [Next]_vars
  PROVE  CallInv' /\ [Machine!ProcessNext]_<<calling, said, status>>
<1>1. CASE LoadStep \/ PushArg \/ ArgsDone \/ Start
  <2>1. calling = Own /\ said = <<>> /\ pc = Code /\ exit_reason = "none" /\ status = -1
    BY <1>1, SetUpFacts DEF CallInv, status
  <2>2. CallInv'
    BY <1>1, <2>1, SetUpFacts DEF CallInv, Agrees, Code, Own, Special
  <2>3. CASE phase' = "failed"
    <3>1. status' = 1
      BY <2>3 DEF status
    <3>2. Machine!Refuse
      BY <1>1, <2>1, <3>1, SetUpFacts DEF Machine!Refuse, Machine!Starts, Machine!Alive
    <3> QED BY <2>2, <3>2 DEF Machine!ProcessNext
  <2>4. CASE phase' # "failed"
    BY <1>1, <2>1, <2>2, <2>4, SetUpFacts DEF status
  <2> QED BY <2>3, <2>4
<1>2. CASE Guest
  <2>1. Agrees' /\ InCode /\ UNCHANGED <<phase, exit_code, said>>
    BY <1>2, GuestAgrees
  <2>2. CallInv'
    BY <2>1 DEF CallInv, InCode
  <2>3. calling = Own /\ status = -1 /\ status' = status
    BY <2>1 DEF CallInv, InCode, Agrees, status
  <2>4. \E name \in Requestable, v \in Values : calling' = [name |-> name, arg |-> v]
    BY <1>2, GuestAgrees
  <2>5. Machine!Ask
    BY <2>1, <2>3, <2>4 DEF Machine!Ask, Machine!Alive
  <2> QED BY <2>2, <2>5 DEF Machine!ProcessNext
<1>3. CASE Loop
  <2>1. phase = "running" /\ Agrees /\ status = -1
    BY <1>3 DEF Loop, HandleThunk, HandleSyscall, StopOnReason, NoCode, InCode, CallInv, status
  <2>2. CASE EndsRight
    <3>1. status' = Machine!EndStatus(calling) /\ UNCHANGED <<calling, said>>
          /\ phase' = "finished"
      BY <2>2 DEF EndsRight, Finish, Goto, status
    <3>2. Machine!End
      BY <2>1, <2>2, <3>1 DEF Machine!End, Machine!Alive, EndsRight, ServedHere
    <3> QED BY <3>1, <3>2 DEF Machine!ProcessNext, CallInv
  <2>3. CASE ServesRight
    <3>1. /\ said' = Append(said, calling) /\ calling' = Own /\ phase' = phase
          /\ pc' = Code /\ exit_reason' = "none"
      BY <2>3 DEF ServesRight, Done
    <3>2. status' = status
      BY <2>1, <3>1 DEF status
    <3>3. Machine!Serve
      BY <2>1, <2>3, <3>1, <3>2 DEF Machine!Serve, Machine!Alive, ServesRight, ServedHere
    <3>4. Agrees'
      BY <3>1 DEF Agrees, Code, Own, Special
    <3> QED BY <2>1, <3>1, <3>3, <3>4 DEF Machine!ProcessNext, CallInv
  <2>4. CASE GivesUp
    <3>1. status' = 70 /\ UNCHANGED <<calling, said>> /\ phase' = "finished" /\ calling = Own
      BY <2>4 DEF GivesUp, Finish, Goto, status
    <3>2. Machine!GiveUp
      BY <2>1, <3>1 DEF Machine!GiveUp, Machine!Alive
    <3> QED BY <3>1, <3>2 DEF Machine!ProcessNext, CallInv
  <2> QED BY <1>3, <2>1, <2>2, <2>3, <2>4, LoopMaps
<1>4. CASE UNCHANGED vars
  <2>1. UNCHANGED <<phase, calling, said, exit_code, pc, exit_reason, x16, x0, thunks>>
    BY <1>4 DEF vars, loaderVars, runVars
  <2> QED BY <2>1 DEF CallInv, Agrees, status
<1> QED BY <1>1, <1>2, <1>3, <1>4 DEF Next

\* For every set of well-linked binaries, arguments and host functions: the run
\* makes the calls of the program, in its order, each served by the function of
\* the name it asked for, and ends with the program's status or the one announced
\* for its fault (what load has bound and the loop of Emu::run together).  The guest's
\* stray accesses lie within the guards' reach, its stray jumps below the thunks.
THEOREM Refinement ==
  ASSUME Near, Tame
  PROVE  Spec => ImplementsProcess
<1>1. Init => CallInv /\ Machine!Starts
  BY CallInit
<1>2. TypeInv /\ OneThunkEach /\ PointersBound /\ CallInv /\ [Next]_vars
        => CallInv' /\ [Machine!ProcessNext]_<<calling, said, status>>
  BY StepMaps
<1>3. Spec => []OneThunkEach
  BY ThunksAreUnique
<1>4. Spec => []PointersBound
  BY PointersAreBound
<1> QED BY <1>1, <1>2, <1>3, <1>4, TypeAlways, PTL DEF Spec, ImplementsProcess, Machine!ProcessSpec

=============================================================================
