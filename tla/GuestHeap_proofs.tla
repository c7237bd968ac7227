-------------------------- MODULE GuestHeap_proofs --------------------------
(***************************************************************************)
(* The guest's heap is sound for any layout of memory, any alignment, any  *)
(* sizes that are asked for and any contents, if no size comes near the    *)
(* size of a word and strncat is not made to cut.                          *)
(***************************************************************************)
EXTENDS GuestHeap, TLAPS, SequenceTheorems, WellFoundedInduction

\* What BlocksDisjoint needs to be inductive: the cursor is aligned too, and
\* the only object outside the heap is the image's own.
CursorAligned == \E k \in 0 .. HeapSize : heap_cur = HeapStart + k * Grain

ObjectsKnown == \A p \in Objects : p \in Blocks \/ (p = DataAt /\ live[p] = DataSize)

IInv == TypeOK /\ BlocksDisjoint /\ HeadersHonest /\ CursorAligned /\ ObjectsKnown

----------------------------------------------------------------------------
(* Arithmetic.                                                             *)

\* A set of numbers has a least element.
Below == {ss \in Nat \X Nat : ss[1] < ss[2]}

LEMMA Least ==
  ASSUME NEW T \in SUBSET Nat, T # {}
  PROVE  \E x \in T : \A y \in T : x <= y
<1>1. IsWellFoundedOn(Below, Nat)
  <2>1. Below = OpToRel(<, Nat)
    BY Zenon DEF OpToRel, Below
  <2> QED BY <2>1, NatLessThanWellFounded, Zenon
<1>2. PICK x \in T : \A y \in T : ~(<<y, x>> \in Below)
  BY <1>1, WFMin
<1>3. \A y \in T : ~(y < x)
  BY <1>2 DEF Below
<1> QED BY <1>3

\* A word cut to the size of a word is the word.
LEMMA ModSmall ==
  ASSUME NEW d \in Nat, NEW m \in Nat, m < d
  PROVE  m % d = m
<1>1. PICK q \in Nat, r \in Nat : m = d * q + r /\ r < d /\ r = m % d
  <2>1. m \div d \in Nat /\ m % d \in Nat /\ m % d < d
        /\ m = d * (m \div d) + (m % d)
    OBVIOUS
  <2> QED BY <2>1
<1>2. CASE q = 0
  BY <1>1, <1>2
<1>3. CASE q >= 1
  <2>1. d * q >= d
    BY <1>3
  <2> QED BY <1>1, <2>1
<1> QED BY <1>1, <1>2, <1>3

\* A size in whole grains covers the size and adds less than a grain.
LEMMA NeedFacts ==
  ASSUME NEW n \in Nat, n + Grain <= WordSize
  PROVE  /\ Need(n) \in Nat /\ n <= Need(n) /\ Need(n) <= n + Grain - 1
         /\ \E k \in Nat : Need(n) = k * Grain
<1> DEFINE v == n + (Grain - 1)
           k == v \div Grain
<1>1. v \in Nat /\ v < WordSize /\ Grain \in Nat /\ Grain > 0 /\ WordSize \in Nat
  BY LayoutAssumption
<1>2. v % WordSize = v
  BY <1>1, ModSmall
<1>3. k \in Nat /\ v = Grain * k + (v % Grain) /\ v % Grain \in 0 .. Grain - 1
  <2> HIDE DEF v
  <2> QED BY <1>1
<1>4. Need(n) = k * Grain
  BY <1>2 DEF Need
<1>5. k * Grain = Grain * k
  BY <1>1, <1>3
<1>6. k * Grain \in Nat
  BY <1>1, <1>3
<1>7. v = n + (Grain - 1) /\ v % Grain \in 0 .. Grain - 1 /\ k \in Nat
      /\ v = Grain * k + (v % Grain)
  BY <1>3
<1> HIDE DEF k, v
<1>8. k * Grain = n + (Grain - 1) - (v % Grain)
  BY <1>1, <1>5, <1>6, <1>7
<1>9. n <= Need(n) /\ Need(n) <= n + Grain - 1
  BY <1>1, <1>4, <1>6, <1>7, <1>8
<1> QED BY <1>4, <1>6, <1>7, <1>9

----------------------------------------------------------------------------
(* Memory.                                                                 *)

Memory == [Cells -> Nat]

LEMMA PutFacts ==
  ASSUME NEW m \in Memory, NEW a \in Nat, NEW n \in Nat,
         NEW c, \A k \in 0 .. n - 1 : c[k] \in Nat
  PROVE  /\ Put(m, a, n, c) \in Memory
         /\ \A x \in Cells : (x < a \/ a + n <= x) => Put(m, a, n, c)[x] = m[x]
<1>1. \A x \in Cells : a <= x /\ x < a + n => x - a \in 0 .. n - 1
  BY LayoutAssumption DEF Cells
<1>2. CASE ~InRange(a, n)
  BY <1>2 DEF Put, Memory
<1>3. CASE InRange(a, n)
  <2>1. Put(m, a, n, c)
          = [x \in Cells |-> IF a <= x /\ x < a + n THEN c[x - a] ELSE m[x]]
    BY <1>3 DEF Put
  <2>2. \A x \in Cells : x \in Int
    BY LayoutAssumption DEF Cells
  <2>3. \A x \in Cells :
          (IF a <= x /\ x < a + n THEN c[x - a] ELSE m[x]) \in Nat
    BY <1>1 DEF Memory
  <2> QED BY <2>1, <2>2, <2>3 DEF Memory
<1> QED BY <1>2, <1>3

\* Places of objects are cells.
LEMMA ObjectFacts ==
  ASSUME IInv, NEW p \in Objects
  PROVE  /\ p \in Nat /\ live[p] \in Nat
         /\ Base <= p /\ p + live[p] <= Base + WindowSize
         /\ live[p] <= WindowSize
         /\ CellsOf(p) \subseteq Cells
<1>1. p \in Cells \cup {HeapEnd} /\ live[p] \in Nat
  BY DEF IInv, TypeOK, Objects
<1>2. p \in Nat /\ Base <= p
  BY <1>1, LayoutAssumption DEF Cells, HeapEnd
<1>3. p + live[p] <= Base + WindowSize
  <2>1. CASE p \in Blocks
    <3>1. p + live[p] <= heap_cur /\ heap_cur \in HeapStart .. HeapEnd
      BY <2>1 DEF IInv, BlocksDisjoint, TypeOK
    <3> QED BY <1>1, <1>2, <3>1, LayoutAssumption DEF HeapStart, HeapEnd
  <2>2. CASE p = DataAt /\ live[p] = DataSize
    BY <2>2, DataAssumption, LayoutAssumption DEF HeapStart
  <2> QED BY <2>1, <2>2 DEF IInv, ObjectsKnown
<1> QED BY <1>1, <1>2, <1>3, LayoutAssumption DEF CellsOf, Cells

\* A string of the guest ends in its own object.
LEMMA StringFacts ==
  ASSUME IInv, NEW q \in Objects, NEW s \in Strings(q)
  PROVE  /\ s \in CellsOf(q) /\ strlen(s) \in Nat
         /\ s + strlen(s) < q + live[q]
<1>1. PICK b \in s .. q + live[q] - 1 : mem[b] = 0
  BY DEF Strings
<1>2. s \in CellsOf(q) /\ q \in Nat /\ live[q] \in Nat /\ Base <= q
      /\ q + live[q] <= Base + WindowSize
  BY ObjectFacts DEF Strings
<1>3. s \in Nat /\ b \in Nat /\ s <= b /\ b < q + live[q] /\ Base <= s
  BY <1>1, <1>2, LayoutAssumption DEF CellsOf
<1>4. b - s \in ZerosFrom(s)
  BY <1>1, <1>2, <1>3, LayoutAssumption DEF ZerosFrom, Cells
<1>5. ZerosFrom(s) \in SUBSET Nat
  BY LayoutAssumption DEF ZerosFrom
<1>6. \E k \in ZerosFrom(s) : \A j \in ZerosFrom(s) : k <= j
  BY <1>4, <1>5, Least
<1>7. strlen(s) \in ZerosFrom(s) /\ \A j \in ZerosFrom(s) : strlen(s) <= j
  BY <1>6 DEF strlen
<1> QED BY <1>2, <1>3, <1>4, <1>5, <1>7

----------------------------------------------------------------------------
(* heap_alloc keeps the invariant, whatever the caller then writes into    *)
(* the cells of the new block.                                             *)

\* Sizes for which heap_alloc's sums stay below the size of a word.
Fits(n) == n \in Nat /\ HeapEnd + n + 2 * Grain <= WordSize

LEMMA AllocFacts ==
  ASSUME IInv, NEW n, Fits(n), ~NoRoom(n)
  PROVE  /\ NewBlock = heap_cur + Grain
         /\ Bump(n) = NewBlock + Need(n)
         /\ Bump(n) <= HeapEnd
         /\ Need(n) \in Nat /\ n <= Need(n)
         /\ \E k \in Nat : Need(n) = k * Grain
         /\ heap_cur \in Cells
<1>1. /\ heap_cur \in HeapStart .. HeapEnd /\ n \in Nat /\ Grain \in Nat /\ Grain > 0
      /\ HeapStart \in Nat /\ HeapEnd \in Nat /\ WordSize \in Nat
      /\ Base <= HeapStart /\ HeapEnd <= Base + WindowSize
      /\ HeapEnd + n + 2 * Grain <= WordSize
  BY LayoutAssumption DEF IInv, TypeOK, Fits, HeapStart, HeapEnd
<1>2. /\ Need(n) \in Nat /\ n <= Need(n) /\ Need(n) <= n + Grain - 1
      /\ \E k \in Nat : Need(n) = k * Grain
  <2>1. n + Grain <= WordSize
    BY <1>1
  <2> QED BY ONLY <1>1, <2>1, NeedFacts
<1>3. (heap_cur + Need(n) + Grain) % WordSize = heap_cur + Need(n) + Grain
  BY <1>1, <1>2, ModSmall
<1>4. (heap_cur + Grain) % WordSize = heap_cur + Grain
  BY <1>1, <1>2, ModSmall
<1>5. heap_cur + Need(n) + Grain <= HeapEnd
  BY <1>1, <1>2, <1>3 DEF NoRoom
<1>6. NewBlock = heap_cur + Grain
  BY <1>4 DEF NewBlock
<1>7. (NewBlock + Need(n)) % WordSize = NewBlock + Need(n)
  BY <1>1, <1>2, <1>6, ModSmall
<1>8. Bump(n) = NewBlock + Need(n)
  BY <1>7 DEF Bump
<1>9. heap_cur \in Cells
  BY <1>1, <1>2, <1>5, LayoutAssumption DEF Cells
<1> QED BY <1>1, <1>2, <1>5, <1>6, <1>8, <1>9

LEMMA HandKeeps ==
  ASSUME IInv, NEW n, Fits(n), NEW gone \in SUBSET Objects, Hand(n, gone),
         mem' \in Memory, mem'[heap_cur] = Need(n),
         \A x \in Cells : x < heap_cur => mem'[x] = mem[x]
  PROVE  IInv'
<1>1. /\ NewBlock = heap_cur + Grain /\ heap_cur' = NewBlock + Need(n)
      /\ heap_cur' <= HeapEnd
      /\ Need(n) \in Nat /\ n <= Need(n) /\ n \in Nat
      /\ heap_cur \in Cells
  BY AllocFacts DEF Hand, Fits
<1>2. /\ heap_cur \in HeapStart .. HeapEnd /\ Grain \in Nat /\ Grain > 0
      /\ HeapStart \in Nat /\ HeapEnd \in Nat /\ HeapSize \in Nat
      /\ HeapEnd = HeapStart + HeapSize
      /\ Base <= HeapStart /\ HeapEnd <= Base + WindowSize
      /\ Base \in Nat /\ WindowSize \in Nat
  BY LayoutAssumption DEF IInv, TypeOK, HeapStart, HeapEnd
<1>3. live' = [q \in (Objects \ gone) \cup {NewBlock} |->
                IF q = NewBlock THEN n ELSE live[q]]
  BY DEF Hand
<1>4. Objects' = (Objects \ gone) \cup {NewBlock}
  BY <1>3 DEF Objects
<1>5. live'[NewBlock] = n
  BY <1>3
<1>6. NewBlock \in Nat /\ HeapStart + Grain <= NewBlock /\ NewBlock <= HeapEnd
  BY <1>1, <1>2
<1>7. \A q \in Objects : q # NewBlock /\ live[q] \in Nat /\ q \in Nat
      /\ q + live[q] <= heap_cur
  <2> TAKE q \in Objects
  <2>1. q \in Nat /\ live[q] \in Nat
    BY ObjectFacts
  <2>2. q + live[q] <= heap_cur
    <3>1. CASE q \in Blocks
      BY <3>1 DEF IInv, BlocksDisjoint
    <3>2. CASE q = DataAt /\ live[q] = DataSize
      BY <1>2, <3>2, DataAssumption
    <3> QED BY <3>1, <3>2 DEF IInv, ObjectsKnown
  <2> QED BY <1>1, <1>2, <2>1, <2>2
<1>8. \A q \in Objects' \ {NewBlock} : q \in Objects /\ live'[q] = live[q]
  BY <1>3, <1>4
<1>9. Blocks' = {q \in Objects' : q >= HeapStart}
  BY DEF Blocks, HeapStart
<1>10. \A q \in Blocks' \ {NewBlock} : q \in Blocks
  BY <1>8, <1>9 DEF Blocks
<1>11. TypeOK'
  <2>1. heap_cur' \in HeapStart .. HeapEnd
    BY <1>1, <1>2
  <2>2. Objects' \subseteq Cells \cup {HeapEnd}
    <3>1. NewBlock \in Cells \cup {HeapEnd}
      BY <1>2, <1>6 DEF Cells
    <3> QED BY <1>4, <3>1 DEF IInv, TypeOK
  <2>3. live' \in [Objects' -> Nat]
    <3>1. \A q \in (Objects \ gone) \cup {NewBlock} :
            (IF q = NewBlock THEN n ELSE live[q]) \in Nat
      BY <1>1, <1>7
    <3> QED BY <1>3, <1>4, <3>1
  <2> QED BY <2>1, <2>2, <2>3 DEF TypeOK, Memory, HeapStart, HeapEnd, Cells
<1>12. PICK j \in 0 .. HeapSize : heap_cur = HeapStart + j * Grain
  BY DEF IInv, CursorAligned
<1>13. NewBlock = HeapStart + (j + 1) * Grain /\ j + 1 \in 0 .. HeapSize
  <2>1. (j + 1) * Grain = j * Grain + Grain
    BY <1>2
  <2>2. j \in Nat
    BY <1>2
  <2>3. (j + 1) * Grain >= j + 1
    BY <1>2, <2>2
  <2> QED BY <1>1, <1>2, <1>6, <1>12, <2>1, <2>2, <2>3
<1>14. CursorAligned'
  <2>1. PICK k \in Nat : Need(n) = k * Grain
    BY AllocFacts DEF Hand
  <2>2. (j + 1 + k) * Grain = (j + 1) * Grain + k * Grain
    BY <1>2, <2>1
  <2>3. heap_cur' = HeapStart + (j + 1 + k) * Grain
    BY <1>1, <1>2, <1>13, <2>1, <2>2
  <2>4. (j + 1 + k) * Grain >= j + 1 + k
    BY <1>2, <2>1
  <2>5. j + 1 + k \in Nat /\ j + 1 + k <= HeapSize
    BY <1>1, <1>2, <2>1, <2>3, <2>4
  <2>6. j + 1 + k \in 0 .. HeapSize
    BY <1>2, <2>5
  <2>7. \E i \in 0 .. HeapSize : heap_cur' = HeapStart + i * Grain
    BY <2>3, <2>6
  <2> QED BY <2>7 DEF CursorAligned, HeapStart
<1>15. BlocksDisjoint'
  <2>1. ASSUME NEW q \in Blocks'
        PROVE  /\ HeapStart + Grain <= q /\ q + live'[q] <= heap_cur'
               /\ \E k \in 0 .. HeapSize : q = HeapStart + k * Grain
    <3>1. CASE q = NewBlock
      BY <1>1, <1>5, <1>6, <1>13, <3>1
    <3>2. CASE q # NewBlock
      <4>1. q \in Blocks /\ live'[q] = live[q] /\ q \in Objects
        BY <1>8, <1>9, <1>10, <3>2
      <4>2. /\ HeapStart + Grain <= q /\ q + live[q] <= heap_cur
            /\ \E k \in 0 .. HeapSize : q = HeapStart + k * Grain
        BY <4>1 DEF IInv, BlocksDisjoint
      <4>3. q \in Nat /\ live[q] \in Nat
        BY <1>7, <4>1
      <4> QED BY <1>1, <1>2, <4>1, <4>2, <4>3
    <3> QED BY <3>1, <3>2
  <2>2. ASSUME NEW p \in Blocks', NEW q \in Blocks', p < q
        PROVE  p + live'[p] + Grain <= q
    <3>1. CASE q = NewBlock
      <4>1. p # NewBlock
        BY <1>6, <2>2, <3>1
      <4> QED BY <1>1, <1>2, <1>7, <1>8, <1>9, <3>1, <4>1
    <3>2. CASE q # NewBlock /\ p = NewBlock
      BY <1>1, <1>2, <1>7, <1>8, <1>9, <2>2, <3>2
    <3>3. CASE q # NewBlock /\ p # NewBlock
      <4>1. p \in Blocks /\ q \in Blocks /\ live'[p] = live[p]
        BY <1>8, <1>9, <1>10, <3>3
      <4> QED BY <2>2, <4>1 DEF IInv, BlocksDisjoint
    <3> QED BY <3>1, <3>2, <3>3
  <2> QED BY <2>1, <2>2 DEF BlocksDisjoint, HeapStart
<1>16. HeadersHonest'
  <2> SUFFICES ASSUME NEW q \in Blocks' PROVE mem'[q - Grain] = Need(live'[q])
    BY DEF HeadersHonest, Need
  <2>1. CASE q = NewBlock
    <3>1. q - Grain = heap_cur
      BY <1>1, <1>2, <2>1
    <3> QED BY <1>5, <2>1, <3>1
  <2>2. CASE q # NewBlock
    <3>1. q \in Blocks /\ live'[q] = live[q] /\ q \in Objects
      BY <1>8, <1>9, <1>10, <2>2
    <3>2. HeapStart + Grain <= q /\ q + live[q] <= heap_cur /\ q \in Nat /\ live[q] \in Nat
      BY <1>7, <3>1 DEF IInv, BlocksDisjoint
    <3>3. q - Grain \in Cells /\ q - Grain < heap_cur
      BY <1>2, <3>2 DEF Cells
    <3> QED BY <3>1, <3>3 DEF IInv, HeadersHonest
  <2> QED BY <2>1, <2>2
<1>17. ObjectsKnown'
  <2> SUFFICES ASSUME NEW q \in Objects'
               PROVE  q \in Blocks' \/ (q = DataAt /\ live'[q] = DataSize)
    BY DEF ObjectsKnown
  <2>1. CASE q = NewBlock
    BY <1>2, <1>6, <1>9, <2>1
  <2>2. CASE q # NewBlock
    BY <1>8, <1>9, <2>2 DEF IInv, ObjectsKnown, Blocks
  <2> QED BY <2>1, <2>2
<1> QED BY <1>11, <1>14, <1>15, <1>16, <1>17 DEF IInv

----------------------------------------------------------------------------
(* The steps.                                                              *)

LEMMA InitOK == Init => IInv
<1> SUFFICES ASSUME Init PROVE IInv
  OBVIOUS
<1>1. PICK c \in [0 .. DataSize - 1 -> Bytes] :
        mem = Put([x \in Cells |-> 0], DataAt, DataSize, c)
  BY DEF Init
<1>2. /\ DataAt \in Nat /\ DataSize \in Nat /\ DataAt < HeapStart /\ Base <= DataAt
      /\ HeapStart \in Nat /\ HeapEnd = HeapStart + HeapSize /\ HeapSize \in Nat
      /\ DataAt + DataSize <= HeapStart
      /\ Base \in Nat /\ WindowSize \in Nat /\ HeapEnd <= Base + WindowSize
      /\ Grain \in Nat
  BY DataAssumption, LayoutAssumption DEF HeapStart, HeapEnd
<1>3. heap_cur = HeapStart /\ live = [p \in {DataAt} |-> DataSize]
  BY DEF Init
<1>4. Objects = {DataAt} /\ live[DataAt] = DataSize /\ Blocks = {}
  BY <1>2, <1>3 DEF Objects, Blocks
<1>5. mem \in Memory
  <2>1. [x \in Cells |-> 0] \in Memory
    BY DEF Memory
  <2>2. \A k \in 0 .. DataSize - 1 : c[k] \in Nat
    BY BytesAssumption
  <2> QED BY <1>1, <1>2, <2>1, <2>2, PutFacts
<1>6. TypeOK
  BY <1>2, <1>3, <1>4, <1>5 DEF TypeOK, Memory, Cells
<1>7. CursorAligned
  BY <1>2, <1>3 DEF CursorAligned
<1> QED BY <1>4, <1>6, <1>7 DEF IInv, BlocksDisjoint, HeadersHonest, ObjectsKnown

\* A write inside one object disturbs nothing the invariant speaks of.
LEMMA WriteKeeps ==
  ASSUME IInv, NEW p \in Objects, NEW d \in Nat, NEW n \in Nat, NEW c,
         p <= d, \A k \in 0 .. n - 1 : c[k] \in Nat,
         Write(p, d, n, c)
  PROVE  IInv'
<1>1. /\ p \in Nat /\ live[p] \in Nat /\ d + n <= p + live[p]
      /\ mem' = Put(mem, d, n, c) /\ heap_cur' = heap_cur /\ live' = live
  BY ObjectFacts DEF Write, Room
<1>2. mem \in Memory
  BY DEF IInv, TypeOK, Memory
<1>3. /\ mem' \in Memory
      /\ \A x \in Cells : (x < d \/ d + n <= x) => mem'[x] = mem[x]
  BY <1>1, <1>2, PutFacts
<1>4. \A q \in Blocks : mem'[q - Grain] = mem[q - Grain]
  <2> TAKE q \in Blocks
  <2>1. /\ q \in Objects /\ q \in Nat /\ live[q] \in Nat
        /\ HeapStart + Grain <= q /\ q + live[q] <= Base + WindowSize
    BY ObjectFacts DEF Blocks, IInv, BlocksDisjoint
  <2>2. /\ q - Grain \in Cells /\ HeapStart <= q - Grain /\ q - Grain < q
        /\ Grain \in Nat /\ HeapStart \in Nat /\ q - Grain \in Nat
    BY <2>1, LayoutAssumption DEF Cells, HeapStart
  <2>3. q - Grain < d \/ d + n <= q - Grain
    <3>1. CASE p \in Blocks /\ p < q
      <4>1. p + live[p] + Grain <= q
        BY <3>1 DEF IInv, BlocksDisjoint
      <4> QED BY <1>1, <2>1, <2>2, <4>1
    <3>2. CASE p \in Blocks /\ q <= p
      BY <1>1, <2>1, <2>2, <3>2
    <3>3. CASE p = DataAt /\ live[p] = DataSize
      BY <1>1, <2>1, <2>2, <3>3, DataAssumption
    <3> QED BY <1>1, <2>1, <3>1, <3>2, <3>3 DEF IInv, ObjectsKnown
  <2> QED BY <1>3, <2>2, <2>3
<1>5. Objects' = Objects /\ Blocks' = Blocks
  BY <1>1 DEF Objects, Blocks, HeapStart
<1>6. TypeOK'
  BY <1>1, <1>3, <1>5 DEF IInv, TypeOK, Memory, HeapStart, HeapEnd, Cells
<1>7. BlocksDisjoint' /\ CursorAligned' /\ ObjectsKnown'
  BY <1>1, <1>5 DEF IInv, BlocksDisjoint, CursorAligned, ObjectsKnown, HeapStart
<1>8. HeadersHonest'
  BY <1>1, <1>4, <1>5 DEF IInv, HeadersHonest, Need
<1> QED BY <1>6, <1>7, <1>8 DEF IInv

\* The block's header, and then n cells of the block itself.
LEMMA NewMemory ==
  ASSUME IInv, NEW size, Fits(size), ~NoRoom(size),
         NEW n \in Nat, n <= size, NEW c, \A k \in 0 .. n - 1 : c[k] \in Nat
  PROVE  /\ WithHeader(size) \in Memory
         /\ WithHeader(size)[heap_cur] = Need(size)
         /\ \A x \in Cells : x < heap_cur => WithHeader(size)[x] = mem[x]
         /\ Put(WithHeader(size), NewBlock, n, c) \in Memory
         /\ Put(WithHeader(size), NewBlock, n, c)[heap_cur] = Need(size)
         /\ \A x \in Cells : x < heap_cur =>
              Put(WithHeader(size), NewBlock, n, c)[x] = mem[x]
<1>1. /\ NewBlock = heap_cur + Grain /\ Need(size) \in Nat /\ size <= Need(size)
      /\ heap_cur \in Cells
  BY AllocFacts
<1>2. /\ heap_cur \in Nat /\ Grain \in Nat /\ Grain > 0 /\ size \in Nat
      /\ mem \in Memory
  BY <1>1, LayoutAssumption DEF IInv, TypeOK, Memory, Cells, Fits
<1> DEFINE h == [k \in {0} |-> Need(size)]
<1>3. \A k \in 0 .. 1 - 1 : h[k] \in Nat
  BY <1>1
<1>4. InRange(heap_cur, 1)
  BY <1>1, <1>2, LayoutAssumption DEF InRange, Cells
<1>5. WithHeader(size) = Put(mem, heap_cur, 1, h)
  BY DEF WithHeader
<1>6. WithHeader(size)[heap_cur] = Need(size)
  BY <1>1, <1>2, <1>4, <1>5 DEF Put
<1>7. /\ WithHeader(size) \in Memory
      /\ \A x \in Cells : (x < heap_cur \/ heap_cur + 1 <= x) =>
           WithHeader(size)[x] = mem[x]
  <2> HIDE DEF h
  <2> QED BY <1>2, <1>3, <1>5, PutFacts
<1>8. NewBlock \in Nat
  BY <1>1, <1>2
<1>9. /\ Put(WithHeader(size), NewBlock, n, c) \in Memory
      /\ \A x \in Cells : x < NewBlock =>
           Put(WithHeader(size), NewBlock, n, c)[x] = WithHeader(size)[x]
  BY <1>7, <1>8, PutFacts
<1>10. \A x \in Cells : x \in Int
  BY LayoutAssumption DEF Cells
<1> QED BY <1>1, <1>2, <1>6, <1>7, <1>9, <1>10

LEMMA MallocOK ==
  ASSUME IInv, NEW n, Fits(n), Malloc(n)
  PROVE  IInv'
<1>1. n \in Nat /\ ~NoRoom(n) /\ Hand(n, {}) /\ mem' = WithHeader(n)
  BY DEF Malloc, Hand, Fits
<1>2. /\ mem' \in Memory /\ mem'[heap_cur] = Need(n)
      /\ \A x \in Cells : x < heap_cur => mem'[x] = mem[x]
  <2>1. 0 \in Nat /\ 0 <= n /\ \A k \in 0 .. 0 - 1 : Zeros(0)[k] \in Nat
    BY <1>1
  <2> QED BY <1>1, <2>1, NewMemory
<1> QED BY <1>1, <1>2, HandKeeps

LEMMA CallocOK ==
  ASSUME IInv, NEW n \in Requests, NEW m \in Requests, Calloc(n, m)
  PROVE  IInv'
<1> DEFINE size == (n * m) % WordSize
<1>1. n \in Nat /\ m \in Nat /\ n * m \in Nat /\ HeapEnd + n * m + 2 * Grain <= WordSize
  BY RequestAssumption
<1>2. HeapEnd \in Nat /\ Grain \in Nat /\ Grain > 0 /\ WordSize \in Nat
  BY LayoutAssumption DEF HeapEnd
<1>3. size = n * m
  BY <1>1, <1>2, ModSmall
<1>4. Fits(size) /\ size \in Nat
  BY <1>1, <1>3 DEF Fits
<1>5. /\ ~NoRoom(size) /\ Hand(size, {})
      /\ mem' = Put(WithHeader(size), NewBlock, size, Zeros(size))
  BY DEF Calloc, Hand
<1>6. \A k \in 0 .. size - 1 : Zeros(size)[k] \in Nat
  BY DEF Zeros
<1> HIDE DEF size
<1>7. /\ mem' \in Memory /\ mem'[heap_cur] = Need(size)
      /\ \A x \in Cells : x < heap_cur => mem'[x] = mem[x]
  BY <1>4, <1>5, <1>6, NewMemory
<1> QED BY <1>4, <1>5, <1>7, HandKeeps

\* What is read from cells of the window are numbers.
LEMMA SliceFacts ==
  ASSUME NEW m \in Memory, NEW a \in Nat, NEW n \in Nat,
         Base <= a, a + n <= Base + WindowSize
  PROVE  \A k \in 0 .. n - 1 : Slice(m, a, n)[k] \in Nat /\ m[a + k] \in Nat
<1> TAKE k \in 0 .. n - 1
<1>1. a + k \in Cells
  BY LayoutAssumption DEF Cells
<1> QED BY <1>1 DEF Slice, Memory

LEMMA ReallocOK ==
  ASSUME IInv, NEW old \in Blocks, NEW size \in Requests, Realloc(old, size)
  PROVE  IInv'
<1> DEFINE n == Copied(old, size)
<1>1. size \in Nat /\ Fits(size)
  <2>1. size \in Nat /\ HeapEnd + size * 1 + 2 * Grain <= WordSize
    BY RequestAssumption
  <2> QED BY <2>1 DEF Fits
<1>2. old \in Objects /\ old \in Nat /\ HeapStart + Grain <= old
  BY ObjectFacts DEF Blocks, IInv, BlocksDisjoint
<1>3. mem[old - Grain] \in Nat /\ mem[old - Grain] = Need(live[old])
  <2>1. mem[old - Grain] = Need(live[old])
    BY DEF IInv, HeadersHonest
  <2>2. old - Grain \in Cells
    BY <1>2, ObjectFacts, LayoutAssumption DEF Cells, HeapStart
  <2> QED BY <2>1, <2>2 DEF IInv, TypeOK
<1>4. n \in Nat /\ n <= size
  BY <1>1, <1>3 DEF Copied
<1>5. /\ ~NoRoom(size) /\ Hand(size, {old})
      /\ mem' = IF InRange(old, n)
                THEN Put(WithHeader(size), NewBlock, n, Slice(WithHeader(size), old, n))
                ELSE WithHeader(size)
  BY DEF Realloc, Hand
<1> HIDE DEF n
<1>6. CASE InRange(old, n)
  <2>1. WithHeader(size) \in Memory
    <3>1. 0 \in Nat /\ 0 <= size /\ \A k \in 0 .. 0 - 1 : Zeros(0)[k] \in Nat
      BY <1>1
    <3> QED BY <1>1, <1>5, <3>1, NewMemory
  <2>2. Base <= old /\ old + n <= Base + WindowSize
    BY <1>2, <1>4, <1>6, LayoutAssumption DEF InRange
  <2>3. \A k \in 0 .. n - 1 : Slice(WithHeader(size), old, n)[k] \in Nat
    BY <1>2, <1>4, <2>1, <2>2, SliceFacts
  <2>4. /\ mem' \in Memory /\ mem'[heap_cur] = Need(size)
        /\ \A x \in Cells : x < heap_cur => mem'[x] = mem[x]
    BY <1>1, <1>4, <1>5, <1>6, <2>3, NewMemory
  <2> QED BY <1>1, <1>2, <1>5, <2>4, HandKeeps
<1>7. CASE ~InRange(old, n)
  <2>1. 0 \in Nat /\ 0 <= size /\ \A k \in 0 .. 0 - 1 : Zeros(0)[k] \in Nat
    BY <1>1
  <2>2. /\ mem' \in Memory /\ mem'[heap_cur] = Need(size)
        /\ \A x \in Cells : x < heap_cur => mem'[x] = mem[x]
    BY <1>1, <1>5, <1>7, <2>1, NewMemory
  <2> QED BY <1>1, <1>2, <1>5, <2>2, HandKeeps
<1> QED BY <1>6, <1>7

LEMMA StrdupOK ==
  ASSUME IInv, NEW p \in Objects, NEW s \in Strings(p), Strdup(s)
  PROVE  IInv'
<1> DEFINE n == strlen(s) + 1
<1>1. /\ p \in Nat /\ live[p] \in Nat /\ Base <= p /\ live[p] <= WindowSize
      /\ p + live[p] <= Base + WindowSize
      /\ s \in CellsOf(p) /\ strlen(s) \in Nat /\ s + strlen(s) < p + live[p]
  BY ObjectFacts, StringFacts
<1>2. s \in Nat /\ p <= s /\ n \in Nat /\ s + n <= p + live[p] /\ n <= WindowSize
  <2>1. s \in Nat /\ p <= s
    BY <1>1 DEF CellsOf
  <2>2. n \in Nat /\ n = strlen(s) + 1
    BY <1>1
  <2> HIDE DEF n
  <2> QED BY <1>1, <2>1, <2>2, LayoutAssumption
<1>3. Fits(n)
  BY <1>2, LayoutAssumption DEF Fits, HeapEnd
<1>4. ~NoRoom(n) /\ Hand(n, {}) /\ mem' = Put(WithHeader(n), NewBlock, n, Slice(mem, s, n))
  BY DEF Strdup, Hand
<1>5. mem \in Memory
  BY DEF IInv, TypeOK, Memory
<1> HIDE DEF n
<1>6. \A k \in 0 .. n - 1 : Slice(mem, s, n)[k] \in Nat
  <2>1. Base <= s /\ s + n <= Base + WindowSize
    BY <1>1, <1>2, LayoutAssumption
  <2> QED BY <1>2, <1>5, <2>1, SliceFacts
<1>7. /\ mem' \in Memory /\ mem'[heap_cur] = Need(n)
      /\ \A x \in Cells : x < heap_cur => mem'[x] = mem[x]
  BY <1>2, <1>3, <1>4, <1>6, NewMemory
<1> QED BY <1>3, <1>4, <1>7, HandKeeps

LEMMA FreeOK ==
  ASSUME IInv, NEW p \in Blocks, Free(p)
  PROVE  IInv'
<1>1. /\ heap_cur' = heap_cur /\ mem' = mem
      /\ live' = [q \in Objects \ {p} |-> live[q]]
  BY DEF Free
<1>2. Objects' = Objects \ {p} /\ \A q \in Objects' : live'[q] = live[q]
  BY <1>1 DEF Objects
<1>3. Blocks' \subseteq Blocks /\ \A q \in Objects' : q \in Blocks <=> q \in Blocks'
  BY <1>2 DEF Blocks, HeapStart
<1>4. \A q \in Objects' : q \in Objects
  BY <1>2
<1>5. TypeOK'
  <2>1. live' \in [Objects' -> Nat]
    BY <1>1, <1>2 DEF IInv, TypeOK
  <2> QED BY <1>1, <1>4, <2>1 DEF IInv, TypeOK, HeapStart, HeapEnd, Cells
<1>6. BlocksDisjoint'
  BY <1>1, <1>2, <1>3 DEF IInv, BlocksDisjoint, HeapStart, Blocks
<1>7. HeadersHonest'
  BY <1>1, <1>2, <1>3 DEF IInv, HeadersHonest, Need, Blocks
<1>8. CursorAligned' /\ ObjectsKnown'
  BY <1>1, <1>2, <1>3, <1>4 DEF IInv, CursorAligned, ObjectsKnown, HeapStart
<1> QED BY <1>5, <1>6, <1>7, <1>8 DEF IInv

\* Where the guest writes: a number, at or above the start of its object.
LEMMA PlaceFacts ==
  ASSUME IInv, NEW p \in Objects, NEW d \in CellsOf(p)
  PROVE  /\ d \in Nat /\ p <= d /\ Base <= d /\ d \in Cells
         /\ p \in Nat /\ live[p] \in Nat /\ p + live[p] <= Base + WindowSize
<1>1. /\ p \in Nat /\ live[p] \in Nat /\ Base <= p
      /\ p + live[p] <= Base + WindowSize /\ CellsOf(p) \subseteq Cells
  BY ObjectFacts
<1>2. d \in Nat /\ p <= d
  BY <1>1 DEF CellsOf
<1> QED BY <1>1, <1>2, LayoutAssumption

\* A run of cells that ends inside an object holds numbers.
LEMMA ReadFacts ==
  ASSUME IInv, NEW q \in Objects, NEW s \in CellsOf(q), NEW n \in Nat,
         s + n <= q + live[q]
  PROVE  \A k \in 0 .. n - 1 : Slice(mem, s, n)[k] \in Nat /\ mem[s + k] \in Nat
<1>1. mem \in Memory
  BY DEF IInv, TypeOK, Memory
<1>2. s \in Nat /\ Base <= s /\ q \in Nat /\ live[q] \in Nat
      /\ q + live[q] <= Base + WindowSize
  BY PlaceFacts
<1>3. s + n <= Base + WindowSize
  BY <1>2, LayoutAssumption
<1> QED BY <1>1, <1>2, <1>3, SliceFacts

\* Store and memset write bytes of the guest's choice.
LEMMA BytesOK ==
  ASSUME IInv, NEW p \in Objects, NEW d \in CellsOf(p), Store(p, d) \/ Memset(p, d)
  PROVE  IInv'
<1>1. d \in Nat /\ p <= d /\ live[p] \in Nat
  BY PlaceFacts
<1>2. CASE Store(p, d)
  <2>1. PICK b \in Bytes : Write(p, d, 1, [k \in {0} |-> b])
    BY <1>2 DEF Store
  <2>2. \A k \in 0 .. 1 - 1 : [j \in {0} |-> b][k] \in Nat
    BY BytesAssumption
  <2> QED BY <1>1, <2>1, <2>2, WriteKeeps
<1>3. CASE Memset(p, d)
  <2>1. PICK b \in Bytes, n \in 1 .. live[p] : Write(p, d, n, [k \in 0 .. n - 1 |-> b])
    BY <1>3 DEF Memset
  <2>2. \A k \in 0 .. n - 1 : [j \in 0 .. n - 1 |-> b][k] \in Nat
    BY BytesAssumption
  <2>3. n \in Nat
    BY <1>1
  <2> QED BY <1>1, <2>1, <2>2, <2>3, WriteKeeps
<1> QED BY <1>2, <1>3

\* memcpy, memmove and strcpy write what they find in an object.
LEMMA CopyOK ==
  ASSUME IInv, NEW p \in Objects, NEW d \in CellsOf(p), Move(p, d) \/ Strcpy(p, d)
  PROVE  IInv'
<1>1. d \in Nat /\ p <= d
  BY PlaceFacts
<1>2. ASSUME NEW q \in Objects, NEW s \in CellsOf(q), NEW n \in Nat,
             s + n <= q + live[q], Write(p, d, n, Slice(mem, s, n))
      PROVE  IInv'
  <2>1. \A k \in 0 .. n - 1 : Slice(mem, s, n)[k] \in Nat
    BY <1>2, ReadFacts
  <2> QED BY <1>1, <1>2, <2>1, WriteKeeps
<1>3. CASE Move(p, d)
  <2>0. PICK q \in Objects : \E s \in CellsOf(q) : \E n \in 1 .. Room(q, s) :
          Write(p, d, n, Slice(mem, s, n))
    BY <1>3 DEF Move
  <2>4. PICK s \in CellsOf(q) : \E n \in 1 .. Room(q, s) :
          Write(p, d, n, Slice(mem, s, n))
    BY <2>0
  <2>1. PICK n \in 1 .. Room(q, s) : Write(p, d, n, Slice(mem, s, n))
    BY <2>4
  <2>2. n \in Nat /\ s + n <= q + live[q]
    <3>1. s \in Nat /\ q \in Nat /\ live[q] \in Nat
      BY PlaceFacts
    <3> QED BY <3>1 DEF Room
  <2> QED BY <1>2, <2>1, <2>2
<1>4. CASE Strcpy(p, d)
  <2>0. PICK q \in Objects : \E s \in Strings(q) :
          Write(p, d, strlen(s) + 1, Slice(mem, s, strlen(s) + 1))
    BY <1>4 DEF Strcpy
  <2>1. PICK s \in Strings(q) :
          Write(p, d, strlen(s) + 1, Slice(mem, s, strlen(s) + 1))
    BY <2>0
  <2>2. /\ s \in CellsOf(q) /\ strlen(s) + 1 \in Nat
        /\ s + (strlen(s) + 1) <= q + live[q]
    <3>1. s \in CellsOf(q) /\ strlen(s) \in Nat /\ s + strlen(s) < q + live[q]
      BY StringFacts
    <3>2. s \in Nat /\ q \in Nat /\ live[q] \in Nat
      BY <3>1, PlaceFacts
    <3> QED BY <3>1, <3>2
  <2> QED BY <1>2, <2>1, <2>2
<1> QED BY <1>3, <1>4

LEMMA StrncpyOK ==
  ASSUME IInv, NEW p \in Objects, NEW d \in CellsOf(p), Strncpy(p, d)
  PROVE  IInv'
<1>1. d \in Nat /\ p <= d /\ live[p] \in Nat
  BY PlaceFacts
<1>0. PICK q \in Objects : \E s \in Strings(q) : \E n \in 1 .. live[p] :
        Write(p, d, n, [k \in 0 .. n - 1 |-> IF k < strlen(s) THEN mem[s + k] ELSE 0])
  BY DEF Strncpy
<1>2. PICK s \in Strings(q), n \in 1 .. live[p] :
        Write(p, d, n, [k \in 0 .. n - 1 |-> IF k < strlen(s) THEN mem[s + k] ELSE 0])
  BY <1>0
<1>3. s \in CellsOf(q) /\ strlen(s) \in Nat /\ s + strlen(s) < q + live[q]
  BY StringFacts
<1>4. s \in Nat /\ q \in Nat /\ live[q] \in Nat
  BY <1>3, PlaceFacts
<1>5. \A k \in 0 .. strlen(s) - 1 : mem[s + k] \in Nat
  BY <1>3, <1>4, ReadFacts
<1>6. n \in Nat
  BY <1>1
<1> DEFINE c == [k \in 0 .. n - 1 |-> IF k < strlen(s) THEN mem[s + k] ELSE 0]
<1>7. \A k \in 0 .. n - 1 : c[k] \in Nat
  BY <1>3, <1>5, <1>6
<1> HIDE DEF c
<1>8. Write(p, d, n, c)
  BY <1>2 DEF c
<1> QED BY <1>1, <1>6, <1>7, <1>8, WriteKeeps

\* strcat, and strncat as long as it is not asked to cut: the whole source goes
\* behind the string that is there.
LEMMA AppendWrites ==
  ASSUME IInv, ShortCounts = FALSE, NEW p \in Objects, NEW d \in CellsOf(p),
         Strcat(p, d) \/ Strncat(p, d)
  PROVE  \E q \in Objects : \E s \in Strings(q) :
           /\ d \in Strings(p)
           /\ Write(p, d + strlen(d), strlen(s) + 1, Slice(mem, s, strlen(s) + 1))
<1>1. CASE Strcat(p, d)
  BY <1>1 DEF Strcat
<1>2. CASE Strncat(p, d)
  <2>0. PICK q \in Objects : \E s \in Strings(q) : \E n \in 0 .. strlen(s) :
          /\ d \in Strings(p)
          /\ (d + strlen(d)) - d + (IF n < strlen(s) THEN n + 1 ELSE strlen(s) + 1)
               <= Room(p, d)
          /\ n < strlen(s) => ShortCounts
          /\ mem' = Put(mem, d + strlen(d), strlen(s) + 1, Slice(mem, s, strlen(s) + 1))
          /\ UNCHANGED <<heap_cur, live>>
    BY <1>2 DEF Strncat
  <2>5. PICK s \in Strings(q) : \E n \in 0 .. strlen(s) :
          /\ d \in Strings(p)
          /\ (d + strlen(d)) - d + (IF n < strlen(s) THEN n + 1 ELSE strlen(s) + 1)
               <= Room(p, d)
          /\ n < strlen(s) => ShortCounts
          /\ mem' = Put(mem, d + strlen(d), strlen(s) + 1, Slice(mem, s, strlen(s) + 1))
          /\ UNCHANGED <<heap_cur, live>>
    BY <2>0
  <2>1. PICK n \in 0 .. strlen(s) :
          /\ d \in Strings(p)
          /\ (d + strlen(d)) - d + (IF n < strlen(s) THEN n + 1 ELSE strlen(s) + 1)
               <= Room(p, d)
          /\ n < strlen(s) => ShortCounts
          /\ mem' = Put(mem, d + strlen(d), strlen(s) + 1, Slice(mem, s, strlen(s) + 1))
          /\ UNCHANGED <<heap_cur, live>>
    BY <2>5
  <2>2. d \in Nat /\ p \in Nat /\ live[p] \in Nat
    BY PlaceFacts
  <2>3. strlen(d) \in Nat /\ strlen(s) \in Nat
    BY <2>1, StringFacts
  <2>4. strlen(s) + 1 <= Room(p, d + strlen(d))
    BY <2>1, <2>2, <2>3 DEF Room
  <2> QED BY <2>1, <2>4 DEF Write
<1> QED BY <1>1, <1>2

LEMMA AppendOK ==
  ASSUME IInv, ShortCounts = FALSE, NEW p \in Objects, NEW d \in CellsOf(p),
         Strcat(p, d) \/ Strncat(p, d)
  PROVE  IInv'
<1>0. PICK q \in Objects : \E s \in Strings(q) :
        /\ d \in Strings(p)
        /\ Write(p, d + strlen(d), strlen(s) + 1, Slice(mem, s, strlen(s) + 1))
  BY AppendWrites
<1>1. PICK s \in Strings(q) :
        /\ d \in Strings(p)
        /\ Write(p, d + strlen(d), strlen(s) + 1, Slice(mem, s, strlen(s) + 1))
  BY <1>0
<1>2. /\ d \in Nat /\ p <= d /\ strlen(d) \in Nat
      /\ s \in CellsOf(q) /\ strlen(s) \in Nat /\ s + strlen(s) < q + live[q]
  BY <1>1, PlaceFacts, StringFacts
<1>3. s \in Nat /\ q \in Nat /\ live[q] \in Nat
  BY <1>2, PlaceFacts
<1>4. /\ d + strlen(d) \in Nat /\ p <= d + strlen(d) /\ strlen(s) + 1 \in Nat
      /\ s + (strlen(s) + 1) <= q + live[q]
  <2>1. p \in Nat
    BY PlaceFacts
  <2> QED BY <1>2, <1>3, <2>1
<1>5. \A k \in 0 .. (strlen(s) + 1) - 1 : Slice(mem, s, strlen(s) + 1)[k] \in Nat
  BY <1>2, <1>4, ReadFacts
<1> QED BY <1>1, <1>4, <1>5, WriteKeeps

\* The formatted prints: a text of the guest, cut or not, and its zero.
LEMMA PrintWrites ==
  ASSUME NEW p, live[p] \in Nat, NEW d, Sprintf(p, d) \/ Snprintf(p, d)
  PROVE  \E t \in Texts : Len(t) \in Nat /\ \E n \in 0 .. Len(t) : PrintText(p, d, t, n)
<1>1. CASE Sprintf(p, d)
  <2>1. PICK t \in Texts : PrintText(p, d, t, Len(t))
    BY <1>1 DEF Sprintf
  <2>2. Len(t) \in Nat
    BY TextAssumption
  <2> QED BY <2>1, <2>2
<1>2. CASE Snprintf(p, d)
  <2>1. PICK t \in Texts, n \in 1 .. live[p] :
          PrintText(p, d, t, IF n - 1 < Len(t) THEN n - 1 ELSE Len(t))
    BY <1>2 DEF Snprintf
  <2>2. Len(t) \in Nat /\ n - 1 \in Nat
    BY TextAssumption
  <2>3. PICK k \in 0 .. Len(t) : k = IF n - 1 < Len(t) THEN n - 1 ELSE Len(t)
    BY <2>2
  <2> QED BY <2>1, <2>2, <2>3
<1> QED BY <1>1, <1>2

LEMMA PrintOK ==
  ASSUME IInv, NEW p \in Objects, NEW d \in CellsOf(p), Sprintf(p, d) \/ Snprintf(p, d)
  PROVE  IInv'
<1>1. d \in Nat /\ p <= d /\ live[p] \in Nat
  BY PlaceFacts
<1>0. PICK t \in Texts : Len(t) \in Nat /\ \E n \in 0 .. Len(t) : PrintText(p, d, t, n)
  BY <1>1, PrintWrites
<1>2. PICK n \in 0 .. Len(t) : PrintText(p, d, t, n)
  BY <1>0
<1> DEFINE c == [k \in 0 .. n |-> IF k < n THEN t[k + 1] ELSE 0]
<1>3. Write(p, d, n + 1, c)
  BY <1>2 DEF PrintText
<1>4. \A k \in 0 .. (n + 1) - 1 : c[k] \in Nat
  <2>1. t \in Seq(Bytes \ {0}) /\ \A x \in Bytes \ {0} : x \in Nat
    BY TextAssumption, BytesAssumption
  <2>2. \A i \in 1 .. Len(t) : t[i] \in Nat
    BY <2>1
  <2> QED BY <1>2, <2>2
<1> HIDE DEF c
<1> QED BY <1>1, <1>2, <1>3, <1>4, WriteKeeps

LEMMA UnchangedOK == IInv /\ UNCHANGED vars => IInv'
BY DEF vars, IInv, TypeOK, BlocksDisjoint, HeadersHonest, CursorAligned, ObjectsKnown,
       Blocks, Objects, Cells, HeapStart, HeapEnd, Need

LEMMA NextOK ==
  ASSUME ShortCounts = FALSE, IInv, [Next]_vars
  PROVE  IInv'
<1>1. CASE Allocate
  <2>1. ASSUME NEW n \in Requests, Malloc(n) \/ OutOfMemory(n) PROVE IInv'
    <3>1. n \in Nat /\ HeapEnd + n * 1 + 2 * Grain <= WordSize
      BY RequestAssumption
    <3>2. Fits(n)
      BY <3>1 DEF Fits
    <3> QED BY <2>1, <3>2, MallocOK, UnchangedOK DEF OutOfMemory
  <2>2. ASSUME NEW n \in Requests, NEW m \in Requests, Calloc(n, m) PROVE IInv'
    BY <2>2, CallocOK
  <2>3. ASSUME NEW p \in Blocks, Free(p) \/ \E n \in Requests : Realloc(p, n) PROVE IInv'
    BY <2>3, FreeOK, ReallocOK
  <2>4. ASSUME NEW p \in Objects, NEW s \in Strings(p), Strdup(s) PROVE IInv'
    BY <2>4, StrdupOK
  <2> QED BY <1>1, <2>1, <2>2, <2>3, <2>4 DEF Allocate
<1>2. CASE Fill
  <2> SUFFICES ASSUME NEW p \in Objects, NEW d \in CellsOf(p),
                      \/ Store(p, d) \/ Move(p, d) \/ Memset(p, d)
                      \/ Strcpy(p, d) \/ Strncpy(p, d) \/ Strcat(p, d) \/ Strncat(p, d)
                      \/ Sprintf(p, d) \/ Snprintf(p, d)
               PROVE  IInv'
    BY <1>2 DEF Fill
  <2> QED BY BytesOK, CopyOK, StrncpyOK, AppendOK, PrintOK
<1>3. CASE UNCHANGED vars
  BY <1>3, UnchangedOK
<1> QED BY <1>1, <1>2, <1>3 DEF Next

----------------------------------------------------------------------------
(* The theorems.                                                           *)

\* A guest that lets strncat append all of its source never disturbs what the
\* allocator relies on.
LEMMA Invariance ==
  ASSUME ShortCounts = FALSE
  PROVE  Spec => []IInv
<1>1. Init => IInv
  BY InitOK
<1>2. IInv /\ [Next]_vars => IInv'
  BY NextOK
<1> QED BY <1>1, <1>2, PTL DEF Spec

\* The cursor stays inside the heap, whatever is asked for (heap_alloc).
THEOREM TypeCorrect == ASSUME ShortCounts = FALSE PROVE Spec => []TypeOK
<1>1. IInv => TypeOK
  BY DEF IInv
<1> QED BY <1>1, Invariance, PTL

\* For any sizes in any order, blocks the guest holds are inside the heap,
\* aligned, and share no cell with each other or with a header.
THEOREM BlocksAreDisjoint == ASSUME ShortCounts = FALSE PROVE Spec => []BlocksDisjoint
<1>1. IInv => BlocksDisjoint
  BY DEF IInv
<1> QED BY <1>1, Invariance, PTL

\* No write of the guest, of the mem and str functions or of the prints reaches
\* a header, so realloc always copies what the block holds.
THEOREM HeadersAreHonest == ASSUME ShortCounts = FALSE PROVE Spec => []HeadersHonest
<1>1. IInv => HeadersHonest
  BY DEF IInv
<1> QED BY <1>1, Invariance, PTL
----------------------------------------------------------------------------
(* The refinement: the program's objects are the cells of the blocks it    *)
(* holds.  What realloc copies may go beyond the block, into the padding   *)
(* that rounding has put behind it, so that padding must belong to one     *)
(* block only and hold bytes.                                              *)

\* The cells a block or the image's object has for itself.
Extent(p) == IF p \in Blocks THEN Need(live[p]) ELSE live[p]

ExtentsApart == \A p \in Objects :
  /\ p + Extent(p) <= heap_cur
  /\ \A q \in Objects : p < q => p + Extent(p) <= q

\* Neither a header nor a cell from outside is read as a byte.
BytesHeld ==
  /\ \A p \in Objects : \A x \in p .. p + Extent(p) - 1 : mem[x] \in Bytes
  /\ \A x \in Cells : heap_cur <= x => mem[x] \in Bytes

RInv == IInv /\ ExtentsApart /\ BytesHeld

LEMMA SeqFacts ==
  ASSUME NEW S, NEW n \in Nat, NEW f \in [1 .. n -> S]
  PROVE  f \in Seq(S) /\ Len(f) = n
OBVIOUS

\* An extent covers the cells of its object.
LEMMA ExtentFacts ==
  ASSUME IInv, NEW p \in Objects
  PROVE  Extent(p) \in Nat /\ live[p] <= Extent(p)
<1>1. live[p] \in Nat /\ live[p] <= WindowSize
  BY ObjectFacts
<1>2. live[p] + Grain <= WordSize
  BY <1>1, LayoutAssumption
<1>3. Need(live[p]) \in Nat /\ live[p] <= Need(live[p])
  BY <1>1, <1>2, NeedFacts
<1> QED BY <1>1, <1>3 DEF Extent

LEMMA ContentsFacts ==
  RInv => /\ DOMAIN Contents = Objects
          /\ \A p \in Objects :
               /\ p \in Nat /\ live[p] \in Nat
               /\ Contents[p] \in Seq(Bytes) /\ Len(Contents[p]) = live[p]
               /\ \A k \in 1 .. live[p] : Contents[p][k] = mem[p + k - 1]
<1> SUFFICES ASSUME RInv, NEW p \in Objects
             PROVE  /\ p \in Nat /\ live[p] \in Nat
                    /\ Contents[p] \in Seq(Bytes) /\ Len(Contents[p]) = live[p]
                    /\ \A k \in 1 .. live[p] : Contents[p][k] = mem[p + k - 1]
  BY DEF Contents
<1>1. p \in Nat /\ live[p] \in Nat /\ Extent(p) \in Nat /\ live[p] <= Extent(p)
  BY ObjectFacts, ExtentFacts DEF RInv
<1>2. Contents[p] = [k \in 1 .. live[p] |-> mem[p + k - 1]]
  BY DEF Contents
<1>3. \A k \in 1 .. live[p] : p + k - 1 \in p .. p + Extent(p) - 1
  BY <1>1
<1>4. \A k \in 1 .. live[p] : mem[p + k - 1] \in Bytes
  BY <1>3 DEF RInv, BytesHeld
<1>5. Contents[p] \in [1 .. live[p] -> Bytes]
  BY <1>2, <1>4
<1> QED BY <1>1, <1>2, <1>5, SeqFacts

\* A write inside one object is seen in this object and nowhere else.
LEMMA WriteMaps ==
  ASSUME RInv, NEW p \in Objects, NEW a \in Nat, p <= a, a < p + live[p], NEW n \in Nat,
         NEW c, \A k \in 0 .. n - 1 : c[k] \in Bytes, Write(p, a, n, c),
         NEW s \in Seq(Bytes), Len(s) = n, \A k \in 1 .. n : s[k] = c[k - 1]
  PROVE  /\ RInv'
         /\ DOMAIN Contents' = Program!Held /\ p \in Program!Held
         /\ \A q \in Program!Held \ {p} : Contents'[q] = Contents[q]
         /\ a - p + 1 \in 1 .. Program!Size(p)
         /\ Program!Gets(p, a - p + 1, s)
<1>1. /\ p \in Nat /\ live[p] \in Nat /\ a + n <= p + live[p]
      /\ mem' = Put(mem, a, n, c) /\ heap_cur' = heap_cur /\ live' = live
      /\ Base <= p /\ p + live[p] <= Base + WindowSize
  BY ObjectFacts DEF Write, Room, RInv
<1>2. mem \in Memory
  BY DEF RInv, IInv, TypeOK, Memory
<1>3. \A k \in 0 .. n - 1 : c[k] \in Nat
  BY BytesAssumption
<1>4. IInv'
  BY <1>3, WriteKeeps DEF RInv
<1>5. InRange(a, n)
  BY <1>1, LayoutAssumption DEF InRange
<1>6. /\ \A x \in Cells : x < a \/ a + n <= x => mem'[x] = mem[x]
      /\ \A x \in Cells : a <= x /\ x < a + n => mem'[x] = c[x - a]
  <2>1. mem' = [x \in Cells |-> IF a <= x /\ x < a + n THEN c[x - a] ELSE mem[x]]
    BY <1>1, <1>5 DEF Put
  <2>2. \A x \in Cells : x \in Int
    BY LayoutAssumption DEF Cells
  <2>3. ASSUME NEW x \in Cells
        PROVE  mem'[x] = IF a <= x /\ x < a + n THEN c[x - a] ELSE mem[x]
    BY ONLY <2>1
  <2> QED BY <2>2, <2>3
<1>7. Objects' = Objects /\ Blocks' = Blocks
  BY <1>1 DEF Objects, Blocks, HeapStart
<1>8. \A q \in Objects : /\ q \in Nat /\ Extent(q) \in Nat /\ live[q] <= Extent(q)
                         /\ Extent(q)' = Extent(q)
                         /\ live[q] \in Nat /\ CellsOf(q) \subseteq Cells
  BY <1>1, <1>7, ObjectFacts, ExtentFacts DEF RInv, Extent, Need
<1>9. ExtentsApart'
  BY <1>1, <1>7, <1>8 DEF RInv, ExtentsApart
<1>10. \A x \in Cells : mem[x] \in Bytes => mem'[x] \in Bytes
  <2> SUFFICES ASSUME NEW x \in Cells, mem[x] \in Bytes PROVE mem'[x] \in Bytes
    OBVIOUS
  <2>1. x \in Int
    BY LayoutAssumption DEF Cells
  <2>2. CASE x < a \/ a + n <= x
    BY <1>6, <2>2
  <2>3. CASE a <= x /\ x < a + n
    <3>1. x - a \in 0 .. n - 1
      BY <2>1, <2>3
    <3> QED BY <1>6, <2>3, <3>1
  <2> QED BY <2>1, <2>2, <2>3
<1>11. BytesHeld'
  <2>1. ASSUME NEW q \in Objects, NEW x \in q .. q + Extent(q) - 1
        PROVE  mem'[x] \in Bytes
    <3>1. x \in Cells
      <4>1. q + Extent(q) <= heap_cur /\ heap_cur <= HeapEnd /\ heap_cur \in Nat
            /\ HeapEnd <= Base + WindowSize /\ HeapEnd \in Nat
        BY LayoutAssumption DEF RInv, ExtentsApart, IInv, TypeOK, HeapStart, HeapEnd
      <4>2. Base <= q
        BY ObjectFacts DEF RInv
      <4> QED BY <1>8, <4>1, <4>2, LayoutAssumption DEF Cells
    <3>2. mem[x] \in Bytes
      BY DEF RInv, BytesHeld
    <3> QED BY <1>10, <3>1, <3>2
  <2>2. ASSUME NEW x \in Cells, heap_cur <= x
        PROVE  mem'[x] \in Bytes
    BY <1>10, <2>2 DEF RInv, BytesHeld
  <2> QED BY <1>1, <1>7, <1>8, <2>1, <2>2 DEF BytesHeld, Cells
<1>12. RInv'
  BY <1>4, <1>9, <1>11 DEF RInv
<1>13. /\ DOMAIN Contents = Objects /\ DOMAIN Contents' = Objects
       /\ \A q \in Objects : Contents'[q] = [k \in 1 .. live[q] |-> mem'[q + k - 1]]
       /\ \A q \in Objects : Contents[q] = [k \in 1 .. live[q] |-> mem[q + k - 1]]
  BY <1>1, <1>7 DEF Contents
<1>14. ASSUME NEW q \in Objects \ {p} PROVE Contents'[q] = Contents[q]
  <2>1. ASSUME NEW k \in 1 .. live[q] PROVE mem'[q + k - 1] = mem[q + k - 1]
    <3>1. q + k - 1 \in Cells
      BY <1>8 DEF CellsOf
    <3>2. q + k - 1 < a \/ a + n <= q + k - 1
      <4>1. (p < q => p + Extent(p) <= q) /\ (q < p => q + Extent(q) <= p)
        BY DEF RInv, ExtentsApart
      <4> QED BY <1>1, <1>8, <4>1
    <3> QED BY <1>6, <3>1, <3>2
  <2>2. /\ Contents'[q] = [k \in 1 .. live[q] |-> mem'[q + k - 1]]
        /\ Contents[q] = [k \in 1 .. live[q] |-> mem[q + k - 1]]
    BY <1>13
  <2>3. [k \in 1 .. live[q] |-> mem'[q + k - 1]] = [k \in 1 .. live[q] |-> mem[q + k - 1]]
    BY ONLY <2>1, Zenon
  <2> QED BY <2>2, <2>3, Zenon
<1>15. Len(Contents[p]) = live[p]
  BY ContentsFacts
<1>16. Program!Gets(p, a - p + 1, s)
  <2> DEFINE i == a - p + 1
  <2>1. i \in Nat /\ i + Len(s) <= live[p] + 1
    BY <1>1
  <2>2. ASSUME NEW k \in 1 .. live[p]
        PROVE  mem'[p + k - 1] = IF i <= k /\ k < i + Len(s) THEN s[k - i + 1]
                                 ELSE Contents[p][k]
    <3>1. p + k - 1 \in Cells /\ Contents[p][k] = mem[p + k - 1]
      BY <1>8, <1>13 DEF CellsOf
    <3>2. CASE i <= k /\ k < i + Len(s)
      <4>1. k - i + 1 \in 1 .. n /\ a <= p + k - 1 /\ p + k - 1 < a + n
        BY <1>1, <3>2
      <4>2. (p + k - 1) - a = (k - i + 1) - 1
        BY <1>1
      <4>3. mem'[p + k - 1] = c[(p + k - 1) - a]
        BY <1>6, <3>1, <4>1
      <4>4. s[k - i + 1] = c[(k - i + 1) - 1]
        BY <4>1
      <4> QED BY <3>2, <4>2, <4>3, <4>4
    <3>3. CASE ~(i <= k /\ k < i + Len(s))
      <4>1. p + k - 1 < a \/ a + n <= p + k - 1
        BY <1>1, <3>3
      <4> QED BY <1>6, <3>1, <3>3, <4>1
    <3> QED BY <3>2, <3>3
  <2>3. Contents'[p] = [k \in 1 .. live[p] |->
          IF i <= k /\ k < i + Len(s) THEN s[k - i + 1] ELSE Contents[p][k]]
    <3>1. Contents'[p] = [k \in 1 .. live[p] |-> mem'[p + k - 1]]
      BY <1>13
    <3>2. [k \in 1 .. live[p] |-> mem'[p + k - 1]]
          = [k \in 1 .. live[p] |->
               IF i <= k /\ k < i + Len(s) THEN s[k - i + 1] ELSE Contents[p][k]]
      <4> HIDE DEF i
      <4> QED BY ONLY <2>2, Zenon
    <3> QED BY <3>1, <3>2, Zenon
  <2> HIDE DEF i
  <2>4. Program!Gets(p, i, s)
    BY <1>15, <2>1, <2>3 DEF Program!Gets, Program!Size
  <2> QED BY <2>4 DEF i
<1>17. a - p + 1 \in 1 .. Program!Size(p)
  BY <1>1, <1>15 DEF Program!Size
<1> QED BY <1>12, <1>13, <1>14, <1>16, <1>17 DEF Program!Held

\* A string of the guest is the same string of the program's object.
LEMMA StringMaps ==
  ASSUME RInv, NEW q \in Objects, NEW s \in Strings(q)
  PROVE  /\ s - q + 1 \in Program!Strings(q)
         /\ strlen(s) \in Nat /\ s \in Nat /\ q <= s /\ s + strlen(s) < q + live[q]
         /\ Program!End(q, s - q + 1) = s - q + 1 + strlen(s)
         /\ Program!StringAt(q, s - q + 1) \in Seq(Bytes)
         /\ Len(Program!StringAt(q, s - q + 1)) = strlen(s) + 1
         /\ \A k \in 1 .. strlen(s) + 1 :
              /\ mem[s + k - 1] \in Bytes
              /\ Program!StringAt(q, s - q + 1)[k] = mem[s + k - 1]
         /\ mem[s + strlen(s)] = 0
<1> DEFINE i == s - q + 1
           e == i + strlen(s)
<1>1. /\ q \in Nat /\ live[q] \in Nat /\ DOMAIN Contents = Objects
      /\ Contents[q] \in Seq(Bytes) /\ Len(Contents[q]) = live[q]
      /\ \A k \in 1 .. live[q] : Contents[q][k] = mem[q + k - 1]
  BY ContentsFacts
<1>2. /\ s \in CellsOf(q) /\ strlen(s) \in Nat /\ s + strlen(s) < q + live[q]
  BY StringFacts DEF RInv
<1>3. s \in Nat /\ q <= s /\ s < q + live[q]
  BY <1>1, <1>2 DEF CellsOf
<1>4. i \in 1 .. live[q] /\ e \in i .. live[q] /\ i \in Nat /\ e \in Nat
  BY <1>1, <1>2, <1>3
<1>5. CellsOf(q) \subseteq Cells /\ Base <= q /\ q + live[q] <= Base + WindowSize
  BY ObjectFacts DEF RInv
<1>6. strlen(s) \in ZerosFrom(s) /\ \A j \in ZerosFrom(s) : strlen(s) <= j
  <2>1. PICK b \in s .. q + live[q] - 1 : mem[b] = 0
    BY DEF Strings
  <2>2. b - s \in ZerosFrom(s)
    BY <1>1, <1>3, <1>5, <2>1, LayoutAssumption DEF ZerosFrom, Cells
  <2>3. ZerosFrom(s) \in SUBSET Nat
    BY LayoutAssumption DEF ZerosFrom
  <2>4. \E k \in ZerosFrom(s) : \A j \in ZerosFrom(s) : k <= j
    BY <2>2, <2>3, Least
  <2> QED BY <2>4 DEF strlen
<1>7. mem[s + strlen(s)] = 0
  BY <1>6 DEF ZerosFrom
<1>8. \A j \in i .. e - 1 : Contents[q][j] # 0
  <2> SUFFICES ASSUME NEW j \in i .. e - 1, Contents[q][j] = 0 PROVE FALSE
    OBVIOUS
  <2>0. j \in 1 .. live[q] /\ j - i \in Nat /\ q + j - 1 = s + (j - i) /\ j - i < strlen(s)
    BY <1>1, <1>2, <1>3, <1>4
  <2>1. PICK m \in Nat : j \in 1 .. live[q] /\ q + j - 1 = s + m /\ m < strlen(s)
    BY <2>0
  <2>2. mem[s + m] = 0
    BY <1>1, <2>1
  <2>3. s + m \in Cells /\ m \in 0 .. WindowSize
    <3>0. q \in Nat /\ live[q] \in Nat /\ m \in Nat /\ m < strlen(s)
      BY <1>1, <2>1
    <3>1. s + m \in CellsOf(q)
      BY ONLY <1>2, <1>3, <3>0 DEF CellsOf
    <3>2. s + m \in Cells
      BY <1>5, <3>1
    <3>3. live[q] <= WindowSize /\ m < live[q]
      BY <1>1, <1>2, <1>3, <2>1, ObjectFacts DEF RInv
    <3> QED BY <1>1, <2>1, <3>2, <3>3, LayoutAssumption
  <2>4. m \in ZerosFrom(s)
    BY <2>2, <2>3 DEF ZerosFrom
  <2> QED BY <1>6, <2>1, <2>4, <1>2
<1>9. Contents[q][e] = 0
  <2>1. e \in 1 .. live[q] /\ q + e - 1 = s + strlen(s)
    BY <1>1, <1>2, <1>3, <1>4
  <2> QED BY <1>1, <1>7, <2>1
<1>10. Program!Size(q) = live[q]
  BY <1>1 DEF Program!Size
<1> HIDE DEF i, e
<1>11. Program!End(q, i) = e
  <2>1. ASSUME NEW k \in i .. live[q], Contents[q][k] = 0,
               \A j \in i .. k - 1 : Contents[q][j] # 0
        PROVE  k = e
    <3>1. ~(k < e)
      <4> SUFFICES ASSUME k < e PROVE FALSE
        OBVIOUS
      <4>1. k \in i .. e - 1
        BY <1>1, <1>4
      <4> QED BY <1>8, <2>1, <4>1
    <3>2. ~(e < k)
      <4> SUFFICES ASSUME e < k PROVE FALSE
        OBVIOUS
      <4>1. e \in i .. k - 1
        BY <1>1, <1>4
      <4> QED BY <1>9, <2>1, <4>1
    <3> QED BY <1>1, <1>4, <3>1, <3>2
  <2> QED BY <1>4, <1>8, <1>9, <1>10, <2>1 DEF Program!End
<1>12. i \in Program!Strings(q)
  BY <1>4, <1>9, <1>10 DEF Program!Strings
<1>13. Program!StringAt(q, i) = SubSeq(Contents[q], i, e)
  BY <1>11 DEF Program!StringAt
<1>14. \A k \in i .. e : Contents[q][k] \in Bytes
  <2>1. \A k \in i .. e : k \in 1 .. Len(Contents[q])
    BY <1>1, <1>4
  <2> QED BY <1>1, <2>1, ElementOfSeq
<1>15. /\ SubSeq(Contents[q], i, e) \in Seq(Bytes)
       /\ Len(SubSeq(Contents[q], i, e)) = e - i + 1
       /\ \A k \in 1 .. e - i + 1 : SubSeq(Contents[q], i, e)[k] = Contents[q][i + k - 1]
  <2>1. i \in Int /\ e \in Int /\ i <= e
    BY <1>4
  <2> QED BY <1>14, <2>1, SubSeqProperties
<1>16. e - i + 1 = strlen(s) + 1
  BY <1>2, <1>4 DEF e
<1>17. ASSUME NEW k \in 1 .. strlen(s) + 1
       PROVE  Contents[q][i + k - 1] = mem[s + k - 1] /\ Contents[q][i + k - 1] \in Bytes
  <2>1. i + k - 1 \in 1 .. live[q] /\ i + k - 1 \in i .. e /\ q + (i + k - 1) - 1 = s + k - 1
    BY <1>1, <1>2, <1>3, <1>4 DEF i, e
  <2> QED BY <1>1, <1>14, <2>1
<1>18. /\ i \in Program!Strings(q) /\ Program!End(q, i) = e
       /\ Program!StringAt(q, i) \in Seq(Bytes)
       /\ Len(Program!StringAt(q, i)) = strlen(s) + 1
       /\ \A k \in 1 .. strlen(s) + 1 :
            mem[s + k - 1] \in Bytes /\ Program!StringAt(q, i)[k] = mem[s + k - 1]
  BY <1>11, <1>12, <1>13, <1>15, <1>16, <1>17
<1> QED BY <1>2, <1>3, <1>7, <1>18 DEF i, e

\* What a write leaves behind when the program's object p gets s at position i.
Fills(p, i, s) ==
  /\ DOMAIN Contents' = Program!Held /\ p \in Program!Held
  /\ \A q \in Program!Held \ {p} : Contents'[q] = Contents[q]
  /\ i \in 1 .. Program!Size(p)
  /\ Program!Gets(p, i, s)

LEMMA WriteFills ==
  ASSUME RInv, NEW p \in Objects, NEW a \in Nat, p <= a, a < p + live[p], NEW n \in Nat,
         NEW c, \A k \in 0 .. n - 1 : c[k] \in Bytes, Write(p, a, n, c),
         NEW s \in Seq(Bytes), Len(s) = n, \A k \in 1 .. n : s[k] = c[k - 1]
  PROVE  RInv' /\ Fills(p, a - p + 1, s)
BY WriteMaps DEF Fills

LEMMA PlaceMaps ==
  ASSUME RInv, NEW p \in Objects, NEW d \in CellsOf(p)
  PROVE  /\ d \in Nat /\ p \in Nat /\ live[p] \in Nat /\ p <= d /\ d < p + live[p]
         /\ p \in Program!Held /\ Program!Size(p) = live[p]
         /\ d - p + 1 \in 1 .. Program!Size(p)
<1>1. p \in Nat /\ live[p] \in Nat /\ DOMAIN Contents = Objects /\ Len(Contents[p]) = live[p]
  BY ContentsFacts
<1> QED BY <1>1 DEF CellsOf, Program!Held, Program!Size

LEMMA StoreMaps ==
  ASSUME RInv, NEW p \in Objects, NEW d \in CellsOf(p), Store(p, d)
  PROVE  RInv' /\ Program!Fill
<1>1. PICK b \in Bytes : Write(p, d, 1, [k \in {0} |-> b])
  BY DEF Store
<1> DEFINE c == [k \in {0} |-> b]
<1>2. \A k \in 0 .. 1 - 1 : c[k] \in Bytes
  OBVIOUS
<1>3. <<b>> \in Seq(Bytes) /\ Len(<<b>>) = 1 /\ \A k \in 1 .. 1 : <<b>>[k] = c[k - 1]
  OBVIOUS
<1>4. Write(p, d, 1, c)
  BY <1>1
<1> HIDE DEF c
<1>5. RInv' /\ Fills(p, d - p + 1, <<b>>)
  BY <1>2, <1>3, <1>4, PlaceMaps, WriteFills
<1> QED BY <1>5 DEF Fills, Program!Fill, Program!Store

LEMMA MoveMaps ==
  ASSUME RInv, NEW p \in Objects, NEW d \in CellsOf(p), Move(p, d)
  PROVE  RInv' /\ Program!Fill
<1>1. PICK q \in Objects : \E s \in CellsOf(q) : \E n \in 1 .. Room(q, s) :
        Write(p, d, n, Slice(mem, s, n))
  BY DEF Move
<1>2. PICK s \in CellsOf(q) : \E n \in 1 .. Room(q, s) : Write(p, d, n, Slice(mem, s, n))
  BY <1>1
<1>3. PICK n \in 1 .. Room(q, s) : Write(p, d, n, Slice(mem, s, n))
  BY <1>2
<1>4. /\ s \in Nat /\ q \in Nat /\ live[q] \in Nat /\ q <= s /\ s < q + live[q]
      /\ q \in Program!Held /\ Program!Size(q) = live[q]
      /\ s - q + 1 \in 1 .. Program!Size(q)
  BY PlaceMaps
<1>5. n \in Nat /\ 1 <= n /\ s + n <= q + live[q]
  BY <1>3, <1>4 DEF Room
<1>6. /\ Contents[q] \in Seq(Bytes) /\ Len(Contents[q]) = live[q]
      /\ \A k \in 1 .. live[q] : Contents[q][k] = mem[q + k - 1]
  BY ContentsFacts
<1>7. PICK j \in 1 .. live[q], e \in 1 .. live[q] : j = s - q + 1 /\ e = s - q + n
  <2>1. s - q + 1 \in 1 .. live[q] /\ s - q + n \in 1 .. live[q]
    BY <1>4, <1>5
  <2> QED BY <2>1
<1> DEFINE t == SubSeq(Contents[q], j, e)
<1>8. \A k \in j .. e : Contents[q][k] \in Bytes
  <2>1. \A k \in j .. e : k \in 1 .. Len(Contents[q])
    BY <1>4, <1>6
  <2> QED BY <1>6, <2>1, ElementOfSeq
<1>9. t \in Seq(Bytes) /\ Len(t) = n /\ \A k \in 1 .. n : t[k] = Contents[q][j + k - 1]
  <2>1. j \in Int /\ e \in Int /\ j <= e /\ e - j + 1 = n
    BY <1>4, <1>5, <1>7
  <2> QED BY <1>8, <2>1, SubSeqProperties
<1>10. ASSUME NEW k \in 1 .. n
       PROVE  Contents[q][j + k - 1] = mem[s + k - 1] /\ mem[s + k - 1] \in Bytes
  <2>1. j + k - 1 \in 1 .. live[q] /\ j + k - 1 \in j .. e /\ q + (j + k - 1) - 1 = s + k - 1
    BY <1>4, <1>5, <1>7
  <2> QED BY <1>6, <1>8, <2>1
<1>11. \A k \in 1 .. n : k - 1 \in 0 .. n - 1 /\ Slice(mem, s, n)[k - 1] = mem[s + k - 1]
  BY <1>4, <1>5 DEF Slice
<1>12. \A k \in 0 .. n - 1 : k + 1 \in 1 .. n /\ k = (k + 1) - 1
  BY <1>5
<1>13. \A k \in 0 .. n - 1 : Slice(mem, s, n)[k] \in Bytes
  BY <1>10, <1>11, <1>12
<1>14. \A k \in 1 .. n : t[k] = Slice(mem, s, n)[k - 1]
  BY <1>9, <1>10, <1>11
<1> HIDE DEF t
<1>15. RInv' /\ Fills(p, d - p + 1, t)
  <2> DEFINE c == Slice(mem, s, n)
  <2>1. d \in Nat /\ p <= d /\ d < p + live[p]
    BY PlaceMaps
  <2>2. /\ n \in Nat /\ Write(p, d, n, c) /\ t \in Seq(Bytes) /\ Len(t) = n
        /\ \A k \in 0 .. n - 1 : c[k] \in Bytes
        /\ \A k \in 1 .. n : t[k] = c[k - 1]
    BY <1>3, <1>5, <1>9, <1>13, <1>14
  <2> HIDE DEF c
  <2> QED BY <2>1, <2>2, WriteFills
<1>16. j \in 1 .. Program!Size(q) /\ e \in j .. Program!Size(q)
  BY <1>4, <1>5, <1>7
<1>17. Program!Move(p, d - p + 1)
  BY <1>4, <1>15, <1>16 DEF Fills, t, Program!Move
<1> QED BY <1>15, <1>17 DEF Fills, Program!Fill

LEMMA MemsetMaps ==
  ASSUME RInv, NEW p \in Objects, NEW d \in CellsOf(p), Memset(p, d)
  PROVE  RInv' /\ Program!Fill
<1>1. PICK b \in Bytes, n \in 1 .. live[p] : Write(p, d, n, [k \in 0 .. n - 1 |-> b])
  BY DEF Memset
<1>2. live[p] \in Nat /\ n \in Nat /\ n \in 1 .. Program!Size(p)
  BY <1>1, PlaceMaps
<1> DEFINE c == [k \in 0 .. n - 1 |-> b]
           t == [k \in 1 .. n |-> b]
<1>3. t \in Seq(Bytes) /\ Len(t) = n
  BY <1>2, SeqFacts
<1>4. \A k \in 1 .. n : t[k] = c[k - 1]
  BY <1>2
<1>5. \A k \in 0 .. n - 1 : c[k] \in Bytes
  OBVIOUS
<1>6. Write(p, d, n, c)
  BY <1>1
<1> HIDE DEF c, t
<1>7. RInv' /\ Fills(p, d - p + 1, t)
  BY <1>2, <1>3, <1>4, <1>5, <1>6, PlaceMaps, WriteFills
<1>8. Program!Memset(p, d - p + 1)
  BY <1>2, <1>7 DEF Fills, t, Program!Memset
<1> QED BY <1>7, <1>8 DEF Fills, Program!Fill

\* The string at s with its zero, as the contents that are written.
LEMMA StringSlice ==
  ASSUME RInv, NEW q \in Objects, NEW s \in Strings(q)
  PROVE  LET n == strlen(s) + 1
             t == Program!StringAt(q, s - q + 1)
         IN /\ n \in Nat /\ t \in Seq(Bytes) /\ Len(t) = n
            /\ \A k \in 0 .. n - 1 : Slice(mem, s, n)[k] \in Bytes
            /\ \A k \in 1 .. n : t[k] = Slice(mem, s, n)[k - 1]
<1> DEFINE n == strlen(s) + 1
           t == Program!StringAt(q, s - q + 1)
<1>1. /\ strlen(s) \in Nat /\ s \in Nat /\ t \in Seq(Bytes) /\ Len(t) = strlen(s) + 1
      /\ \A k \in 1 .. strlen(s) + 1 : mem[s + k - 1] \in Bytes /\ t[k] = mem[s + k - 1]
  BY StringMaps
<1> HIDE DEF t
<1>2. \A k \in 1 .. n : k - 1 \in 0 .. n - 1 /\ Slice(mem, s, n)[k - 1] = mem[s + k - 1]
  BY <1>1 DEF Slice
<1>3. \A k \in 0 .. n - 1 : k + 1 \in 1 .. n /\ k = (k + 1) - 1
  BY <1>1
<1>4. \A k \in 0 .. n - 1 : Slice(mem, s, n)[k] \in Bytes
  BY <1>1, <1>2, <1>3
<1> QED BY <1>1, <1>2, <1>4 DEF t

LEMMA StrcpyMaps ==
  ASSUME RInv, NEW p \in Objects, NEW d \in CellsOf(p), Strcpy(p, d)
  PROVE  RInv' /\ Program!Fill
<1>1. PICK q \in Objects : \E s \in Strings(q) :
        Write(p, d, strlen(s) + 1, Slice(mem, s, strlen(s) + 1))
  BY DEF Strcpy
<1>2. PICK s \in Strings(q) : Write(p, d, strlen(s) + 1, Slice(mem, s, strlen(s) + 1))
  BY <1>1
<1> DEFINE n == strlen(s) + 1
           t == Program!StringAt(q, s - q + 1)
<1>3. /\ n \in Nat /\ t \in Seq(Bytes) /\ Len(t) = n
      /\ \A k \in 0 .. n - 1 : Slice(mem, s, n)[k] \in Bytes
      /\ \A k \in 1 .. n : t[k] = Slice(mem, s, n)[k - 1]
  BY StringSlice
<1>4. s - q + 1 \in Program!Strings(q) /\ q \in Program!Held
  BY StringMaps, ContentsFacts DEF Program!Held
<1>5. Write(p, d, n, Slice(mem, s, n))
  BY <1>2
<1> HIDE DEF n, t
<1>6. RInv' /\ Fills(p, d - p + 1, t)
  BY <1>3, <1>5, PlaceMaps, WriteFills
<1>7. Program!Strcpy(p, d - p + 1)
  BY <1>4, <1>6 DEF Fills, t, Program!Strcpy
<1> QED BY <1>6, <1>7 DEF Fills, Program!Fill

LEMMA StrncpyMaps ==
  ASSUME RInv, NEW p \in Objects, NEW d \in CellsOf(p), Strncpy(p, d)
  PROVE  RInv' /\ Program!Fill
<1>1. PICK q \in Objects : \E s \in Strings(q) : \E n \in 1 .. live[p] :
        Write(p, d, n, [k \in 0 .. n - 1 |-> IF k < strlen(s) THEN mem[s + k] ELSE 0])
  BY DEF Strncpy
<1>2. PICK s \in Strings(q), n \in 1 .. live[p] :
        Write(p, d, n, [k \in 0 .. n - 1 |-> IF k < strlen(s) THEN mem[s + k] ELSE 0])
  BY <1>1
<1> DEFINE c == [k \in 0 .. n - 1 |-> IF k < strlen(s) THEN mem[s + k] ELSE 0]
           from == Program!StringAt(q, s - q + 1)
           t == [k \in 1 .. n |-> IF k <= Len(from) THEN from[k] ELSE 0]
<1>3. /\ d \in Nat /\ p <= d /\ d < p + live[p] /\ live[p] \in Nat
      /\ n \in Nat /\ n \in 1 .. Program!Size(p)
  BY <1>2, PlaceMaps
<1>4. /\ strlen(s) \in Nat /\ s \in Nat /\ from \in Seq(Bytes) /\ Len(from) = strlen(s) + 1
      /\ \A k \in 1 .. strlen(s) + 1 : mem[s + k - 1] \in Bytes /\ from[k] = mem[s + k - 1]
      /\ mem[s + strlen(s)] = 0 /\ s - q + 1 \in Program!Strings(q)
  BY StringMaps
<1>5. q \in Program!Held
  BY ContentsFacts DEF Program!Held
<1> HIDE DEF from
<1>6. ASSUME NEW k \in 1 .. n PROVE t[k] = c[k - 1] /\ c[k - 1] \in Bytes
  <2>1. k \in Nat /\ k - 1 \in 0 .. n - 1 /\ k - 1 < strlen(s) <=> k <= strlen(s)
    BY <1>3, <1>4
  <2>2. CASE k <= strlen(s)
    <3>1. k \in 1 .. strlen(s) + 1 /\ s + (k - 1) = s + k - 1 /\ k <= Len(from)
      BY <1>4, <2>1, <2>2
    <3>2. c[k - 1] = mem[s + k - 1] /\ t[k] = from[k]
      BY <1>3, <1>4, <2>2, <3>1
    <3> QED BY <1>4, <3>1, <3>2
  <2>3. CASE ~(k <= strlen(s))
    <3>1. c[k - 1] = 0
      BY <1>3, <1>4, <2>3
    <3>2. t[k] = 0
      <4>1. CASE k = strlen(s) + 1
        <5>1. k \in 1 .. strlen(s) + 1 /\ s + k - 1 = s + strlen(s) /\ k <= Len(from)
          BY <1>4, <4>1
        <5>2. t[k] = from[k]
          BY <5>1
        <5> QED BY <1>4, <5>1, <5>2
      <4>2. CASE k # strlen(s) + 1
        <5>1. ~(k <= Len(from))
          BY <1>3, <1>4, <2>3, <4>2
        <5> QED BY <5>1
      <4> QED BY <4>1, <4>2
    <3> QED BY <3>1, <3>2, BytesAssumption
  <2> QED BY <2>2, <2>3
<1>7. DOMAIN t = 1 .. n
  OBVIOUS
<1>8. t = [k \in 1 .. n |-> t[k]]
  OBVIOUS
<1>9. Write(p, d, n, c)
  BY <1>2
<1>10. Program!Gets(p, d - p + 1, t) => Program!Strncpy(p, d - p + 1)
  BY <1>3, <1>4, <1>5 DEF from, Program!Strncpy
<1> HIDE DEF c, t
<1>11. t \in Seq(Bytes) /\ Len(t) = n
  <2>1. t \in [1 .. n -> Bytes]
    BY <1>6, <1>8
  <2> QED BY <1>3, <2>1, SeqFacts
<1>12. \A k \in 0 .. n - 1 : c[k] \in Bytes
  <2>1. \A k \in 0 .. n - 1 : k + 1 \in 1 .. n /\ k = (k + 1) - 1
    BY <1>3
  <2> QED BY <1>6, <2>1
<1>13. RInv' /\ Fills(p, d - p + 1, t)
  BY <1>3, <1>6, <1>9, <1>11, <1>12, WriteFills
<1> QED BY <1>10, <1>13 DEF Fills, Program!Fill

LEMMA AppendMaps ==
  ASSUME RInv, ShortCounts = FALSE, NEW p \in Objects, NEW d \in CellsOf(p),
         Strcat(p, d) \/ Strncat(p, d)
  PROVE  RInv' /\ Program!Fill
<1>1. PICK q \in Objects : \E s \in Strings(q) :
        /\ d \in Strings(p)
        /\ Write(p, d + strlen(d), strlen(s) + 1, Slice(mem, s, strlen(s) + 1))
  BY AppendWrites DEF RInv
<1>2. PICK s \in Strings(q) :
        /\ d \in Strings(p)
        /\ Write(p, d + strlen(d), strlen(s) + 1, Slice(mem, s, strlen(s) + 1))
  BY <1>1
<1> DEFINE n == strlen(s) + 1
           t == Program!StringAt(q, s - q + 1)
           a == d + strlen(d)
           i == d - p + 1
<1>3. /\ n \in Nat /\ t \in Seq(Bytes) /\ Len(t) = n
      /\ \A k \in 0 .. n - 1 : Slice(mem, s, n)[k] \in Bytes
      /\ \A k \in 1 .. n : t[k] = Slice(mem, s, n)[k - 1]
  BY StringSlice
<1>4. s - q + 1 \in Program!Strings(q) /\ q \in Program!Held
  BY StringMaps, ContentsFacts DEF Program!Held
<1>5. /\ i \in Program!Strings(p) /\ strlen(d) \in Nat /\ d \in Nat /\ p <= d
      /\ a < p + live[p] /\ Program!End(p, i) = i + strlen(d)
  BY <1>2, StringMaps
<1>6. d \in Nat /\ p \in Nat /\ i \in 1 .. Program!Size(p)
  BY PlaceMaps
<1>7. a \in Nat /\ p <= a /\ a - p + 1 = Program!End(p, i)
  BY <1>5, <1>6
<1>8. Write(p, a, n, Slice(mem, s, n))
  BY <1>2
<1>9. Program!Gets(p, Program!End(p, i), t) => Program!Strcat(p, i)
  BY <1>4, <1>5 DEF Program!Strcat
<1> HIDE DEF n, t, a, i
<1>10. RInv' /\ Fills(p, a - p + 1, t)
  BY <1>3, <1>5, <1>7, <1>8, WriteFills
<1> QED BY <1>6, <1>7, <1>9, <1>10 DEF Fills, Program!Fill

LEMMA PrintMaps ==
  ASSUME RInv, NEW p \in Objects, NEW d \in CellsOf(p), Sprintf(p, d) \/ Snprintf(p, d)
  PROVE  RInv' /\ Program!Fill
<1>1. /\ d \in Nat /\ p <= d /\ d < p + live[p] /\ live[p] \in Nat
      /\ d - p + 1 \in 1 .. Program!Size(p)
  BY PlaceMaps
<1>0. PICK w \in Texts : Len(w) \in Nat /\ \E n \in 0 .. Len(w) : PrintText(p, d, w, n)
  BY <1>1, PrintWrites
<1>2. PICK n \in 0 .. Len(w) : PrintText(p, d, w, n)
  BY <1>0
<1>3. w \in Seq(Bytes \ {0}) /\ Len(w) \in Nat
  BY TextAssumption
<1> DEFINE c == [k \in 0 .. n |-> IF k < n THEN w[k + 1] ELSE 0]
           t == Append(SubSeq(w, 1, n), 0)
<1>4. n \in Nat /\ n <= Len(w) /\ n + 1 \in Nat /\ (n + 1) - 1 = n
  BY <1>2, <1>3
<1>5. \A k \in 1 .. n : k \in 1 .. Len(w) /\ w[k] \in Bytes
  BY <1>3, <1>4
<1>6. /\ SubSeq(w, 1, n) \in Seq(Bytes) /\ Len(SubSeq(w, 1, n)) = n
      /\ \A k \in 1 .. n : SubSeq(w, 1, n)[k] = w[k]
  <2>1. /\ SubSeq(w, 1, n) \in Seq(Bytes)
        /\ Len(SubSeq(w, 1, n)) = IF 1 <= n THEN n - 1 + 1 ELSE 0
        /\ \A k \in 1 .. n - 1 + 1 : SubSeq(w, 1, n)[k] = w[1 + k - 1]
    BY <1>4, <1>5, SubSeqProperties
  <2>2. n - 1 + 1 = n
    BY <1>4
  <2>3. \A k \in 1 .. n : 1 + k - 1 = k
    BY <1>4
  <2> QED BY <1>4, <2>1, <2>2, <2>3
<1>7. /\ t \in Seq(Bytes) /\ Len(t) = n + 1 /\ t[n + 1] = 0
      /\ \A k \in 1 .. n : t[k] = w[k]
  BY <1>4, <1>6, BytesAssumption
<1>8. \A k \in 1 .. n + 1 : t[k] = c[k - 1]
  <2> SUFFICES ASSUME NEW k \in 1 .. n + 1 PROVE t[k] = c[k - 1]
    OBVIOUS
  <2> HIDE DEF t
  <2>1. CASE k = n + 1
    BY <1>4, <1>7, <2>1
  <2>2. CASE k # n + 1
    <3>1. k \in 1 .. n /\ k - 1 \in 0 .. n /\ k - 1 < n /\ (k - 1) + 1 = k
      BY <1>4, <2>2
    <3> QED BY <1>7, <3>1
  <2> QED BY <2>1, <2>2
<1>9. \A k \in 0 .. (n + 1) - 1 : c[k] \in Bytes
  <2> SUFFICES ASSUME NEW k \in 0 .. n PROVE c[k] \in Bytes
    BY <1>4
  <2>1. k < n => k + 1 \in 1 .. n
    BY <1>4
  <2> QED BY <1>5, <2>1, BytesAssumption
<1>10. Write(p, d, n + 1, c)
  BY <1>2 DEF PrintText
<1>11. Program!Gets(p, d - p + 1, t) => Program!PrintText(p, d - p + 1)
  BY <1>2 DEF Program!PrintText
<1> HIDE DEF c, t
<1>12. RInv' /\ Fills(p, d - p + 1, t)
  <2> DEFINE m == n + 1
  <2>1. /\ m \in Nat /\ Write(p, d, m, c) /\ Len(t) = m
        /\ \A k \in 0 .. m - 1 : c[k] \in Bytes
        /\ \A k \in 1 .. m : t[k] = c[k - 1]
    BY <1>4, <1>7, <1>8, <1>9, <1>10
  <2>2. t \in Seq(Bytes)
    BY <1>7
  <2> HIDE DEF m
  <2> QED BY <1>1, <2>1, <2>2, WriteFills
<1> QED BY <1>11, <1>12 DEF Fills, Program!Fill

LEMMA FillMaps ==
  ASSUME RInv, ShortCounts = FALSE, Fill
  PROVE  RInv' /\ Program!Fill
<1> SUFFICES ASSUME NEW p \in Objects, NEW d \in CellsOf(p),
                    \/ Store(p, d) \/ Move(p, d) \/ Memset(p, d)
                    \/ Strcpy(p, d) \/ Strncpy(p, d) \/ Strcat(p, d) \/ Strncat(p, d)
                    \/ Sprintf(p, d) \/ Snprintf(p, d)
             PROVE  RInv' /\ Program!Fill
  BY DEF Fill
<1> QED BY StoreMaps, MoveMaps, MemsetMaps, StrcpyMaps, StrncpyMaps, AppendMaps, PrintMaps

----------------------------------------------------------------------------
(* The refinement, for what allocates and frees.                           *)

\* After heap_alloc, the program has one object more, at a pointer of its own.
LEMMA HandMaps ==
  ASSUME RInv, NEW n, Fits(n), NEW gone \in SUBSET Objects, Hand(n, gone),
         mem' \in Memory, mem'[heap_cur] = Need(n),
         \A x \in Cells : x < heap_cur => mem'[x] = mem[x],
         \A x \in Cells : NewBlock <= x => mem'[x] \in Bytes
  PROVE  /\ RInv'
         /\ Program!Appears(NewBlock, n, Objects \ gone) /\ Program!Held = Objects
         /\ NewBlock \in DOMAIN Contents' /\ NewBlock \in Nat
         /\ \A k \in 1 .. n : Contents'[NewBlock][k] = mem'[NewBlock + k - 1]
<1>1. /\ NewBlock = heap_cur + Grain /\ heap_cur' = NewBlock + Need(n)
      /\ heap_cur' <= HeapEnd
      /\ Need(n) \in Nat /\ n <= Need(n) /\ n \in Nat
  BY AllocFacts DEF Hand, Fits, RInv
<1>2. /\ heap_cur \in HeapStart .. HeapEnd /\ Grain \in Nat /\ Grain > 0
      /\ HeapStart \in Nat /\ HeapEnd \in Nat /\ heap_cur \in Nat
      /\ Base <= HeapStart /\ HeapEnd <= Base + WindowSize
      /\ Base \in Nat /\ WindowSize \in Nat
  BY LayoutAssumption DEF RInv, IInv, TypeOK, HeapStart, HeapEnd
<1>0. PICK b \in Nat : b = NewBlock
  BY <1>1, <1>2
<1>3. /\ heap_cur < b /\ HeapStart <= b /\ heap_cur' = b + Need(n)
      /\ \A x \in Cells : b <= x => mem'[x] \in Bytes
  BY <1>0, <1>1, <1>2
<1>4. live' = [q \in (Objects \ gone) \cup {b} |->
                IF q = b THEN n ELSE live[q]]
  BY <1>0 DEF Hand
<1>5. Objects' = (Objects \ gone) \cup {b} /\ live'[b] = n
  BY <1>4 DEF Objects
<1>6. \A q \in Objects : /\ q \in Nat /\ live[q] \in Nat /\ Extent(q) \in Nat
                         /\ live[q] <= Extent(q) /\ q + Extent(q) <= heap_cur
                         /\ Base <= q /\ CellsOf(q) \subseteq Cells
  BY ObjectFacts, ExtentFacts DEF RInv, ExtentsApart
<1>7. b \notin Objects
  BY <1>2, <1>3, <1>6
<1>8. \A q \in Objects \ gone : q \in Objects' /\ live'[q] = live[q] /\ q # b
  BY <1>4, <1>5, <1>7
<1>9. Blocks' = {q \in Objects' : q >= HeapStart}
  BY DEF Blocks, HeapStart
<1>10. \A q \in Objects' : Extent(q)' = IF q \in Blocks' THEN Need(live'[q]) ELSE live'[q]
  BY DEF Extent, Need
<1>11. \A q \in Objects \ gone : Extent(q)' = Extent(q)
  BY <1>8, <1>9, <1>10 DEF Extent, Blocks
<1>12. Extent(b)' = Need(n)
  BY <1>3, <1>5, <1>9, <1>10
<1>13. IInv'
  BY HandKeeps DEF RInv
<1>14. ExtentsApart'
  <2>1. ASSUME NEW q \in Objects' PROVE q + Extent(q)' <= heap_cur'
    <3>1. CASE q = b
      BY <1>1, <1>3, <1>12, <3>1
    <3>2. CASE q # b
      <4>1. q \in Objects \ gone
        BY <1>5, <3>2
      <4> QED BY <1>1, <1>2, <1>3, <1>6, <1>11, <4>1
    <3> QED BY <3>1, <3>2
  <2>2. ASSUME NEW o \in Objects', NEW q \in Objects', o < q
        PROVE  o + Extent(o)' <= q
    <3>1. CASE o = b
      <4>1. q \in Objects \ gone
        BY <1>5, <1>3, <2>2, <3>1
      <4> QED BY <1>2, <1>3, <1>6, <2>2, <3>1, <4>1
    <3>2. CASE o # b /\ q = b
      <4>1. o \in Objects \ gone
        BY <1>5, <3>2
      <4> QED BY <1>2, <1>3, <1>6, <1>11, <3>2, <4>1
    <3>3. CASE o # b /\ q # b
      <4>1. o \in Objects \ gone /\ q \in Objects \ gone
        BY <1>5, <3>3
      <4> QED BY <1>11, <2>2, <4>1 DEF RInv, ExtentsApart
    <3> QED BY <3>1, <3>2, <3>3
  <2> QED BY <2>1, <2>2 DEF ExtentsApart
<1>15. BytesHeld'
  <2>1. ASSUME NEW q \in Objects', NEW x \in q .. q + Extent(q)' - 1
        PROVE  mem'[x] \in Bytes
    <3>1. CASE q = b
      <4>1. x \in Cells /\ b <= x
        BY <1>1, <1>2, <1>3, <1>12, <3>1 DEF Cells
      <4> QED BY <1>3, <4>1
    <3>2. CASE q # b
      <4>1. q \in Objects /\ Extent(q)' = Extent(q)
        BY <1>5, <1>11, <3>2
      <4>2. x \in Cells /\ x < heap_cur
        BY <1>2, <1>6, <4>1 DEF Cells
      <4> QED BY <4>1, <4>2 DEF RInv, BytesHeld
    <3> QED BY <3>1, <3>2
  <2>2. ASSUME NEW x \in Cells, heap_cur' <= x PROVE mem'[x] \in Bytes
    <3>1. b <= x
      <4>1. x \in Int
        BY <1>2 DEF Cells
      <4> QED BY <1>1, <1>3, <2>2, <4>1
    <3> QED BY <1>3, <3>1
  <2> QED BY <2>1, <2>2 DEF BytesHeld, Cells
<1>16. RInv'
  BY <1>13, <1>14, <1>15 DEF RInv
<1>17. /\ DOMAIN Contents = Objects /\ DOMAIN Contents' = Objects'
       /\ \A q \in Objects' : Contents'[q] = [k \in 1 .. live'[q] |-> mem'[q + k - 1]]
       /\ \A q \in Objects : Contents[q] = [k \in 1 .. live[q] |-> mem[q + k - 1]]
  BY DEF Contents
<1>18. ASSUME NEW q \in Objects \ gone PROVE Contents'[q] = Contents[q]
  <2>1. ASSUME NEW k \in 1 .. live[q] PROVE mem'[q + k - 1] = mem[q + k - 1]
    <3>1. q + k - 1 \in Cells /\ q + k - 1 < heap_cur
      BY <1>2, <1>6 DEF CellsOf
    <3> QED BY <3>1
  <2>2. /\ Contents'[q] = [k \in 1 .. live[q] |-> mem'[q + k - 1]]
        /\ Contents[q] = [k \in 1 .. live[q] |-> mem[q + k - 1]]
    <3>1. q \in Objects /\ q \in Objects' /\ live'[q] = live[q]
      BY <1>8
    <3>2. Contents'[q] = [k \in 1 .. live'[q] |-> mem'[q + k - 1]]
      BY <1>17, <3>1
    <3> QED BY <1>17, <3>1, <3>2
  <2>3. [k \in 1 .. live[q] |-> mem'[q + k - 1]] = [k \in 1 .. live[q] |-> mem[q + k - 1]]
    BY ONLY <2>1, Zenon
  <2> QED BY <2>2, <2>3, Zenon
<1>19. Contents'[b] = [k \in 1 .. n |-> mem'[b + k - 1]]
  BY <1>5, <1>17
<1>20. \A k \in 1 .. n : mem'[b + k - 1] \in Bytes
  <2> SUFFICES ASSUME NEW k \in 1 .. n PROVE mem'[b + k - 1] \in Bytes
    OBVIOUS
  <2>1. b + k - 1 \in Cells /\ b <= b + k - 1
    BY <1>1, <1>2, <1>3 DEF Cells
  <2> QED BY <1>3, <2>1
<1>21. Contents'[b] \in [1 .. n -> Bytes]
  BY <1>19, <1>20
<1>22. Contents'[b] \in Seq(Bytes) /\ Len(Contents'[b]) = n
  BY <1>1, <1>21, SeqFacts
<1>23. Program!Appears(b, n, Objects \ gone)
  BY <1>5, <1>7, <1>17, <1>18, <1>22 DEF Program!Appears, Program!Held
<1> QED BY <1>0, <1>5, <1>16, <1>17, <1>19, <1>23 DEF Program!Held

\* Memory after the header and n cells of the new block are written.
LEMMA NewBytes ==
  ASSUME RInv, NEW size, Fits(size), ~NoRoom(size),
         NEW n \in Nat, n <= size, NEW c, \A k \in 0 .. n - 1 : c[k] \in Bytes
  PROVE  /\ \A x \in Cells : NewBlock <= x =>
              /\ WithHeader(size)[x] \in Bytes
              /\ Put(WithHeader(size), NewBlock, n, c)[x] \in Bytes
         /\ \A k \in 1 .. n :
              Put(WithHeader(size), NewBlock, n, c)[NewBlock + k - 1] = c[k - 1]
<1>1. /\ NewBlock = heap_cur + Grain /\ Need(size) \in Nat /\ size <= Need(size)
      /\ heap_cur \in Cells /\ NewBlock + Need(size) <= HeapEnd
  BY AllocFacts DEF RInv
<1>2. /\ heap_cur \in Nat /\ Grain \in Nat /\ Grain > 0 /\ size \in Nat /\ NewBlock \in Nat
      /\ mem \in Memory /\ HeapEnd <= Base + WindowSize /\ Base <= heap_cur
      /\ Base \in Nat /\ WindowSize \in Nat /\ HeapEnd \in Nat
  BY <1>1, LayoutAssumption DEF RInv, IInv, TypeOK, Memory, Cells, Fits, HeapEnd
<1> DEFINE h == [k \in {0} |-> Need(size)]
           m == WithHeader(size)
<1>3. m = Put(mem, heap_cur, 1, h) /\ \A k \in 0 .. 1 - 1 : h[k] \in Nat
  BY <1>1 DEF WithHeader
<1> HIDE DEF h, m
<1>4. m \in Memory /\ \A x \in Cells : heap_cur + 1 <= x => m[x] = mem[x]
  BY <1>2, <1>3, PutFacts
<1>5. ASSUME NEW x \in Cells, NewBlock <= x PROVE m[x] \in Bytes /\ x \in Int
  <2>1. x \in Int
    BY <1>2 DEF Cells
  <2>2. heap_cur + 1 <= x /\ heap_cur <= x
    BY <1>1, <1>2, <1>5, <2>1
  <2> QED BY <1>4, <2>1, <2>2 DEF RInv, BytesHeld
<1>6. InRange(NewBlock, n)
  BY <1>1, <1>2 DEF InRange
<1>7. Put(m, NewBlock, n, c) =
        [x \in Cells |-> IF NewBlock <= x /\ x < NewBlock + n THEN c[x - NewBlock] ELSE m[x]]
  BY <1>6 DEF Put
<1>8. ASSUME NEW x \in Cells
      PROVE  Put(m, NewBlock, n, c)[x] =
               IF NewBlock <= x /\ x < NewBlock + n THEN c[x - NewBlock] ELSE m[x]
  BY ONLY <1>7
<1>9. ASSUME NEW x \in Cells, NewBlock <= x PROVE Put(m, NewBlock, n, c)[x] \in Bytes
  <2>1. CASE x < NewBlock + n
    <3>1. x - NewBlock \in 0 .. n - 1
      BY <1>2, <1>5, <1>9, <2>1
    <3> QED BY <1>8, <1>9, <2>1, <3>1
  <2>2. CASE ~(x < NewBlock + n)
    BY <1>5, <1>8, <1>9, <2>2
  <2> QED BY <2>1, <2>2
<1>10. ASSUME NEW k \in 1 .. n
       PROVE  Put(m, NewBlock, n, c)[NewBlock + k - 1] = c[k - 1]
  <2> DEFINE x == NewBlock + k - 1
  <2>1. /\ x \in Cells /\ NewBlock <= x /\ x < NewBlock + n /\ x - NewBlock = k - 1
    BY <1>1, <1>2 DEF Cells
  <2> HIDE DEF x
  <2>2. Put(m, NewBlock, n, c)[x] = c[x - NewBlock]
    BY <1>8, <2>1
  <2> QED BY <2>1, <2>2 DEF x
<1> QED BY <1>5, <1>9, <1>10 DEF m

\* Memory after heap_alloc and a write of n bytes into the new block, as HandMaps
\* asks for it.
FillsNew(size, n, c) ==
  /\ mem' = Put(WithHeader(size), NewBlock, n, c)
  /\ n \in Nat /\ n <= size
  /\ \A k \in 0 .. n - 1 : c[k] \in Bytes

\* What it leaves behind for the program.
Makes(size, gone, n, c) ==
  /\ Program!Appears(NewBlock, size, Objects \ gone) /\ Program!Held = Objects
  /\ NewBlock \in DOMAIN Contents'
  /\ \A k \in 1 .. n : Contents'[NewBlock][k] = c[k - 1]

LEMMA NewMaps ==
  ASSUME RInv, NEW size, Fits(size), NEW gone \in SUBSET Objects, Hand(size, gone),
         NEW n, NEW c, FillsNew(size, n, c)
  PROVE  RInv' /\ Makes(size, gone, n, c)
<1>0. /\ mem' = Put(WithHeader(size), NewBlock, n, c)
      /\ n \in Nat /\ n <= size
      /\ \A k \in 0 .. n - 1 : c[k] \in Bytes
  BY DEF FillsNew
<1>1. ~NoRoom(size) /\ size \in Nat
  BY DEF Hand, Fits
<1>2. \A k \in 0 .. n - 1 : c[k] \in Nat
  BY <1>0, BytesAssumption
<1>3. /\ mem' \in Memory /\ mem'[heap_cur] = Need(size)
      /\ \A x \in Cells : x < heap_cur => mem'[x] = mem[x]
  BY <1>0, <1>1, <1>2, NewMemory DEF RInv
<1>4. /\ \A x \in Cells : NewBlock <= x => mem'[x] \in Bytes
      /\ \A k \in 1 .. n : mem'[NewBlock + k - 1] = c[k - 1]
  BY <1>0, <1>1, NewBytes
<1>5. /\ RInv' /\ Program!Appears(NewBlock, size, Objects \ gone) /\ Program!Held = Objects
      /\ NewBlock \in DOMAIN Contents'
      /\ \A k \in 1 .. size : Contents'[NewBlock][k] = mem'[NewBlock + k - 1]
  BY <1>3, <1>4, HandMaps
<1>6. \A k \in 1 .. n : k \in 1 .. size
  BY <1>0, <1>1
<1> QED BY <1>4, <1>5, <1>6 DEF Makes

LEMMA MallocMaps ==
  ASSUME RInv, NEW n \in Requests, Malloc(n)
  PROVE  RInv' /\ Program!Malloc
<1>1. n \in Nat /\ HeapEnd + n * 1 + 2 * Grain <= WordSize
  BY RequestAssumption
<1>2. Fits(n) /\ Hand(n, {}) /\ ~NoRoom(n) /\ mem' = WithHeader(n)
  BY <1>1 DEF Fits, Malloc, Hand
<1>3. 0 \in Nat /\ 0 <= n /\ \A k \in 0 .. 0 - 1 : Zeros(0)[k] \in Nat /\ Zeros(0)[k] \in Bytes
  BY <1>1
<1>4. /\ mem' \in Memory /\ mem'[heap_cur] = Need(n)
      /\ \A x \in Cells : x < heap_cur => mem'[x] = mem[x]
      /\ \A x \in Cells : NewBlock <= x => mem'[x] \in Bytes
  BY <1>2, <1>3, NewMemory, NewBytes DEF RInv
<1>5. /\ RInv' /\ Program!Appears(NewBlock, n, Objects \ {}) /\ Program!Held = Objects
      /\ NewBlock \in DOMAIN Contents'
  BY <1>2, <1>4, HandMaps
<1>6. Objects \ {} = Objects
  OBVIOUS
<1> QED BY <1>5, <1>6 DEF Program!Malloc

LEMMA CallocMaps ==
  ASSUME RInv, NEW n \in Requests, NEW m \in Requests, Calloc(n, m)
  PROVE  RInv' /\ Program!Calloc
<1> DEFINE size == n * m
<1>1. n \in Nat /\ m \in Nat /\ size \in Nat /\ HeapEnd + n * m + 2 * Grain <= WordSize
  BY RequestAssumption
<1>2. HeapEnd \in Nat /\ Grain \in Nat /\ Grain > 0 /\ WordSize \in Nat
  BY LayoutAssumption DEF HeapEnd
<1>3. (n * m) % WordSize = size /\ Fits(size)
  BY <1>1, <1>2, ModSmall DEF Fits
<1>4. Hand(size, {}) /\ mem' = Put(WithHeader(size), NewBlock, size, Zeros(size))
  BY <1>3 DEF Calloc
<1> HIDE DEF size
<1>5. \A k \in 0 .. size - 1 : Zeros(size)[k] \in Bytes /\ Zeros(size)[k] = 0
  BY BytesAssumption DEF Zeros
<1>6. \A k \in 1 .. size : k - 1 \in 0 .. size - 1
  BY <1>1
<1>7. /\ RInv' /\ Program!Appears(NewBlock, size, Objects \ {}) /\ Program!Held = Objects
      /\ NewBlock \in DOMAIN Contents'
      /\ \A k \in 1 .. size : Contents'[NewBlock][k] = Zeros(size)[k - 1]
  <2> DEFINE c == Zeros(size)
  <2>1. {} \in SUBSET Objects /\ Fits(size) /\ FillsNew(size, size, c)
    BY <1>1, <1>3, <1>4, <1>5 DEF FillsNew
  <2> HIDE DEF c
  <2>2. RInv' /\ Makes(size, {}, size, c)
    BY <1>4, <2>1, NewMaps
  <2> QED BY <2>2 DEF Makes, c
<1>8. /\ Objects \ {} = Objects /\ \A k \in 1 .. size : Contents'[NewBlock][k] = 0
  BY <1>5, <1>6, <1>7
<1> QED BY <1>7, <1>8 DEF size, Program!Calloc

LEMMA ReallocMaps ==
  ASSUME RInv, NEW old \in Blocks, NEW size \in Requests, Realloc(old, size)
  PROVE  RInv' /\ Program!Realloc
<1> DEFINE n == Copied(old, size)
           c == Slice(WithHeader(size), old, n)
<1>1. size \in Nat /\ Fits(size)
  <2>1. size \in Nat /\ HeapEnd + size * 1 + 2 * Grain <= WordSize
    BY RequestAssumption
  <2> QED BY <2>1 DEF Fits
<1>2. ~NoRoom(size) /\ Hand(size, {old})
  BY DEF Realloc, Hand
<1>3. /\ old \in Objects /\ old \in Nat /\ live[old] \in Nat
      /\ HeapStart + Grain <= old /\ old <= Base + WindowSize
      /\ Extent(old) \in Nat /\ live[old] <= Extent(old)
      /\ old + Extent(old) <= heap_cur /\ Extent(old) = Need(live[old])
      /\ mem[old - Grain] = Need(live[old])
  <2>1. /\ old \in Objects /\ HeapStart + Grain <= old
        /\ mem[old - Grain] = Need(live[old])
    BY DEF Blocks, RInv, IInv, BlocksDisjoint, HeadersHonest
  <2>2. /\ old \in Nat /\ live[old] \in Nat /\ old + live[old] <= Base + WindowSize
        /\ Extent(old) \in Nat /\ live[old] <= Extent(old)
        /\ old + Extent(old) <= heap_cur /\ Extent(old) = Need(live[old])
    BY <2>1, ObjectFacts, ExtentFacts DEF RInv, ExtentsApart, Extent
  <2>3. old <= Base + WindowSize
    BY <2>2, LayoutAssumption
  <2> QED BY <2>1, <2>2, <2>3
<1>4. /\ heap_cur \in Nat /\ heap_cur <= HeapEnd /\ HeapEnd <= Base + WindowSize
      /\ HeapEnd \in Nat /\ HeapStart \in Nat /\ Base <= HeapStart
      /\ Base \in Nat /\ WindowSize \in Nat /\ Grain \in Nat /\ Grain > 0
  BY LayoutAssumption DEF RInv, IInv, TypeOK, HeapStart, HeapEnd
<1>5. InRange(old - Grain, 1)
  BY <1>3, <1>4 DEF InRange
<1>6. n = IF Extent(old) < size THEN Extent(old) ELSE size
  BY <1>3, <1>5 DEF Copied
<1>7. /\ n \in Nat /\ n <= size /\ n <= Extent(old)
      /\ \A k \in 1 .. size : k <= live[old] => k \in 1 .. n
  BY <1>1, <1>3, <1>6
<1> HIDE DEF n
<1>8. InRange(old, n)
  <2>1. old + n <= Base + WindowSize /\ Base <= old
    BY <1>3, <1>4, <1>7
  <2> QED BY <1>3, <1>4, <1>7, <2>1 DEF InRange
<1>9. mem' = Put(WithHeader(size), NewBlock, n, c)
  BY <1>8 DEF Realloc, n
<1>10. \A x \in Cells : x < heap_cur => WithHeader(size)[x] = mem[x]
  <2>1. 0 \in Nat /\ 0 <= size /\ \A k \in 0 .. 0 - 1 : Zeros(0)[k] \in Nat
    BY <1>1
  <2> QED BY <1>1, <1>2, <2>1, NewMemory DEF RInv
<1>11. \A k \in 0 .. n - 1 : c[k] = mem[old + k] /\ c[k] \in Bytes
  <2> SUFFICES ASSUME NEW k \in 0 .. n - 1 PROVE c[k] = mem[old + k] /\ c[k] \in Bytes
    OBVIOUS
  <2>1. /\ old + k \in Cells /\ old + k < heap_cur
        /\ old + k \in old .. old + Extent(old) - 1
    BY <1>3, <1>4, <1>7 DEF Cells
  <2>2. c[k] = WithHeader(size)[old + k]
    BY DEF Slice
  <2> QED BY <1>3, <1>10, <2>1, <2>2 DEF RInv, BytesHeld
<1> HIDE DEF c
<1>12. /\ RInv' /\ Program!Appears(NewBlock, size, Objects \ {old}) /\ Program!Held = Objects
       /\ NewBlock \in DOMAIN Contents'
       /\ \A k \in 1 .. n : Contents'[NewBlock][k] = c[k - 1]
  <2>1. {old} \in SUBSET Objects /\ Fits(size) /\ FillsNew(size, n, c)
    BY <1>1, <1>3, <1>7, <1>9, <1>11 DEF FillsNew
  <2>2. RInv' /\ Makes(size, {old}, n, c)
    BY <1>2, <2>1, NewMaps
  <2> QED BY <2>2 DEF Makes
<1>13. /\ Len(Contents[old]) = live[old]
       /\ \A k \in 1 .. live[old] : Contents[old][k] = mem[old + k - 1]
  BY <1>3, ContentsFacts
<1>14. ASSUME NEW k \in 1 .. size, k <= Program!Size(old)
       PROVE  Contents'[NewBlock][k] = Contents[old][k]
  <2>1. k \in 1 .. live[old] /\ k \in 1 .. n /\ k - 1 \in 0 .. n - 1
        /\ old + (k - 1) = old + k - 1
    BY <1>1, <1>3, <1>7, <1>13, <1>14 DEF Program!Size
  <2> QED BY <1>11, <1>12, <1>13, <2>1
<1> QED BY <1>3, <1>12, <1>14 DEF Program!Realloc

LEMMA StrdupMaps ==
  ASSUME RInv, NEW q \in Objects, NEW s \in Strings(q), Strdup(s)
  PROVE  RInv' /\ Program!Strdup
<1> DEFINE n == strlen(s) + 1
           t == Program!StringAt(q, s - q + 1)
           c == Slice(mem, s, n)
<1>1. /\ n \in Nat /\ t \in Seq(Bytes) /\ Len(t) = n
      /\ \A k \in 0 .. n - 1 : c[k] \in Bytes
      /\ \A k \in 1 .. n : t[k] = c[k - 1]
  BY StringSlice
<1>2. Fits(n)
  <2>1. /\ strlen(s) \in Nat /\ s + strlen(s) < q + live[q] /\ q <= s /\ s \in Nat
        /\ live[q] \in Nat /\ live[q] <= WindowSize /\ q \in Nat
    BY StringMaps, ObjectFacts DEF RInv
  <2>2. n <= WindowSize
    BY <2>1, LayoutAssumption
  <2> HIDE DEF n
  <2> QED BY <1>1, <2>2, LayoutAssumption DEF Fits, HeapEnd
<1>3. Hand(n, {}) /\ mem' = Put(WithHeader(n), NewBlock, n, c)
  BY DEF Strdup
<1>4. s - q + 1 \in Program!Strings(q)
  BY StringMaps
<1> HIDE DEF n, t, c
<1>5. /\ RInv' /\ Program!Appears(NewBlock, n, Objects \ {}) /\ Program!Held = Objects
      /\ NewBlock \in DOMAIN Contents'
      /\ \A k \in 1 .. n : Contents'[NewBlock][k] = c[k - 1]
  <2>1. {} \in SUBSET Objects /\ FillsNew(n, n, c)
    BY <1>1, <1>3 DEF FillsNew
  <2>2. RInv' /\ Makes(n, {}, n, c)
    BY <1>2, <1>3, <2>1, NewMaps
  <2> QED BY <2>2 DEF Makes
<1>6. Objects \ {} = Objects
  OBVIOUS
<1>7. Contents'[NewBlock] \in Seq(Bytes) /\ Len(Contents'[NewBlock]) = n
  BY <1>5 DEF Program!Appears
<1>8. Contents'[NewBlock] = t
  <2> DEFINE u == Contents'[NewBlock]
  <2>1. u \in Seq(Bytes) /\ Len(u) = Len(t) /\ \A k \in 1 .. Len(u) : u[k] = t[k]
    BY <1>1, <1>5, <1>7
  <2> HIDE DEF u
  <2>2. u = t
    BY <1>1, <2>1, SeqEqual
  <2> QED BY <2>2 DEF u
<1> QED BY <1>1, <1>4, <1>5, <1>6, <1>8 DEF t, Program!Strdup

LEMMA FreeMaps ==
  ASSUME RInv, NEW p \in Blocks, Free(p)
  PROVE  RInv' /\ Program!Free
<1>1. /\ heap_cur' = heap_cur /\ mem' = mem
      /\ live' = [q \in Objects \ {p} |-> live[q]] /\ p \in Objects
  BY DEF Free, Blocks
<1>2. Objects' = Objects \ {p} /\ \A q \in Objects' : live'[q] = live[q]
  BY <1>1 DEF Objects
<1>3. \A q \in Objects' : q \in Objects /\ (q \in Blocks' <=> q \in Blocks)
  BY <1>2 DEF Blocks, HeapStart
<1>4. \A q \in Objects' : Extent(q)' = Extent(q)
  BY <1>2, <1>3 DEF Extent, Need
<1>5. IInv'
  BY FreeOK DEF RInv
<1>6. ExtentsApart' /\ BytesHeld'
  BY <1>1, <1>3, <1>4 DEF RInv, ExtentsApart, BytesHeld, Cells
<1>7. /\ DOMAIN Contents = Objects /\ DOMAIN Contents' = Objects'
      /\ \A q \in Objects' : Contents'[q] = [k \in 1 .. live'[q] |-> mem'[q + k - 1]]
      /\ \A q \in Objects : Contents[q] = [k \in 1 .. live[q] |-> mem[q + k - 1]]
  BY DEF Contents
<1>8. ASSUME NEW q \in Objects \ {p} PROVE Contents'[q] = Contents[q]
  <2>1. q \in Objects' /\ q \in Objects /\ live'[q] = live[q]
    BY <1>2
  <2>2. Contents'[q] = [k \in 1 .. live'[q] |-> mem'[q + k - 1]]
    BY <1>7, <2>1
  <2> QED BY <1>1, <1>7, <2>1, <2>2
<1> QED BY <1>1, <1>2, <1>5, <1>6, <1>7, <1>8 DEF RInv, Program!Free, Program!Held

LEMMA UnchangedMaps ==
  ASSUME RInv, UNCHANGED vars
  PROVE  RInv' /\ UNCHANGED Contents
<1>1. IInv'
  BY UnchangedOK DEF RInv
<1>2. heap_cur' = heap_cur /\ mem' = mem /\ live' = live
  BY DEF vars
<1>3. Objects' = Objects /\ Blocks' = Blocks
  BY <1>2 DEF Objects, Blocks, HeapStart
<1>4. \A q \in Objects : Extent(q)' = Extent(q)
  BY <1>2, <1>3 DEF Extent, Need
<1> QED BY <1>1, <1>2, <1>3, <1>4 DEF RInv, ExtentsApart, BytesHeld, Cells, Contents

LEMMA InitMaps == Init => RInv /\ Program!StoreInit
<1> SUFFICES ASSUME Init PROVE RInv /\ Program!StoreInit
  OBVIOUS
<1>1. IInv
  BY InitOK
<1>2. PICK c \in [0 .. DataSize - 1 -> Bytes] :
        mem = Put([x \in Cells |-> 0], DataAt, DataSize, c)
  BY DEF Init
<1>3. heap_cur = HeapStart /\ live = [p \in {DataAt} |-> DataSize]
  BY DEF Init
<1>4. /\ DataAt \in Nat /\ DataSize \in Nat /\ DataAt < HeapStart /\ Base <= DataAt
      /\ DataAt + DataSize <= HeapStart /\ HeapStart \in Nat
      /\ Base \in Nat /\ WindowSize \in Nat /\ HeapStart <= Base + WindowSize
  BY DataAssumption, LayoutAssumption DEF HeapStart
<1>5. Objects = {DataAt} /\ Extent(DataAt) = DataSize
  BY <1>3, <1>4 DEF Objects, Blocks, Extent
<1>6. ExtentsApart
  BY <1>3, <1>4, <1>5 DEF ExtentsApart
<1>7. \A x \in Cells : mem[x] \in Bytes
  <2> SUFFICES ASSUME NEW x \in Cells PROVE mem[x] \in Bytes
    OBVIOUS
  <2>1. InRange(DataAt, DataSize) /\ x \in Int
    BY <1>4 DEF InRange, Cells
  <2>2. mem = [y \in Cells |-> IF DataAt <= y /\ y < DataAt + DataSize
                               THEN c[y - DataAt] ELSE [z \in Cells |-> 0][y]]
    BY <1>2, <2>1 DEF Put
  <2>3. mem[x] = IF DataAt <= x /\ x < DataAt + DataSize THEN c[x - DataAt] ELSE 0
    BY ONLY <2>2
  <2>4. DataAt <= x /\ x < DataAt + DataSize => x - DataAt \in 0 .. DataSize - 1
    BY <1>4, <2>1
  <2> QED BY <2>3, <2>4, BytesAssumption
<1>8. BytesHeld
  <2>1. \A x \in DataAt .. DataAt + DataSize - 1 : x \in Cells
    BY <1>4 DEF Cells
  <2> QED BY <1>5, <1>7, <2>1 DEF BytesHeld
<1>9. RInv
  BY <1>1, <1>6, <1>8 DEF RInv
<1> QED BY <1>9, ContentsFacts DEF Program!StoreInit, Program!Held

\* Every step of the heap is a step of the program's objects, or none.
LEMMA NextMaps ==
  ASSUME RInv, ShortCounts = FALSE, [Next]_vars
  PROVE  RInv' /\ [Program!StoreNext]_Contents
<1>1. CASE Allocate
  <2>1. ASSUME NEW n \in Requests, Malloc(n) \/ OutOfMemory(n)
        PROVE  RInv' /\ [Program!StoreNext]_Contents
    BY <2>1, MallocMaps, UnchangedMaps DEF OutOfMemory, Program!StoreNext
  <2>2. ASSUME NEW n \in Requests, NEW m \in Requests, Calloc(n, m)
        PROVE  RInv' /\ [Program!StoreNext]_Contents
    BY <2>2, CallocMaps DEF Program!StoreNext
  <2>3. ASSUME NEW p \in Blocks, Free(p) \/ \E n \in Requests : Realloc(p, n)
        PROVE  RInv' /\ [Program!StoreNext]_Contents
    BY <2>3, FreeMaps, ReallocMaps DEF Program!StoreNext
  <2>4. ASSUME NEW p \in Objects, NEW s \in Strings(p), Strdup(s)
        PROVE  RInv' /\ [Program!StoreNext]_Contents
    BY <2>4, StrdupMaps DEF Program!StoreNext
  <2> QED BY <1>1, <2>1, <2>2, <2>3, <2>4 DEF Allocate
<1>2. CASE Fill
  BY <1>2, FillMaps DEF Program!StoreNext
<1>3. CASE UNCHANGED vars
  BY <1>3, UnchangedMaps
<1> QED BY <1>1, <1>2, <1>3 DEF Next

\* The heap without free, the headers between the blocks and the functions that
\* write through raw pointers give the program the memory C's library promises:
\* each object changes only by what is done to it (malloc to strdup, mem*, str*,
\* the prints), for any layout, alignment, sizes and contents.
THEOREM Refinement == ASSUME ShortCounts = FALSE PROVE Spec => ImplementsObjectStore
<1>1. Init => RInv /\ Program!StoreInit
  BY InitMaps
<1>2. RInv /\ [Next]_vars => RInv' /\ [Program!StoreNext]_Contents
  BY NextMaps
<1> QED BY <1>1, <1>2, PTL DEF Spec, ImplementsObjectStore, Program!StoreSpec
=============================================================================
