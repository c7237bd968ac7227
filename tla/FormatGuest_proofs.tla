------------------------- MODULE FormatGuest_proofs -------------------------
(***************************************************************************)
(* For every set of calls a C program makes, every size of registers, ints *)
(* and buffer: format_guest reads the slots its directives are given, only *)
(* a width far below zero makes it give up, and the call is C's own.       *)
(***************************************************************************)
EXTENDS FormatGuest, TLAPS

\* The sizes are numbers, in their order.
LEMMA SizeFacts ==
  /\ WordSize \in Nat /\ IntSize \in Nat /\ 1 <= IntSize
  /\ Fraction \in Nat /\ BufSize \in Nat /\ Slack \in Nat
  /\ 1 <= Slack /\ Slack <= BufSize - 1 /\ MaxAlloc \in Nat /\ BufSize <= MaxAlloc
  /\ MaxAlloc + IntSize <= WordSize /\ IntSize + Slack <= MaxAlloc
  /\ Star \notin Int /\ Unset \notin Int /\ Star # Unset
BY WordAssumption

\* The larger of two, and the smaller.
LEMMA MaxFacts ==
  ASSUME NEW a \in Int, NEW b \in Int
  PROVE  Max({a, b}) = IF a >= b THEN a ELSE b
BY DEF Max

LEMMA MinFacts ==
  ASSUME NEW a \in Int, NEW b \in Int
  PROVE  Min({a, b}) = IF a <= b THEN a ELSE b
BY DEF Min

\* CPrintf has the same two.
LEMMA LibraryFacts ==
  ASSUME NEW S PROVE C!Max(S) = Max(S) /\ C!Min(S) = Min(S)
BY DEF Max, Min, C!Max, C!Min

----------------------------------------------------------------------------
(* Words.                                                                  *)

\* What is left of a word is left whatever is above it.
LEMMA RestOf ==
  ASSUME NEW n \in Nat, 1 <= n, NEW j \in Int, NEW r \in Nat, r < n
  PROVE  (n * j + r) % n = r
<1> DEFINE v == n * j + r
           q == v \div n
           t == v % n
<1>1. v \in Int /\ v = n * j + r
  OBVIOUS
<1>2. q \in Int /\ v = n * q + t /\ t \in Nat /\ t < n
  <2> HIDE DEF v
  <2> QED BY <1>1
<1> HIDE DEF v, q, t
<1>3. ~(q >= j + 1)
  <2> SUFFICES ASSUME q >= j + 1 PROVE FALSE
    OBVIOUS
  <2>1. n * q >= n * (j + 1) /\ n * (j + 1) = n * j + n
    BY <1>2
  <2> QED BY <1>1, <1>2, <2>1
<1>4. ~(j >= q + 1)
  <2> SUFFICES ASSUME j >= q + 1 PROVE FALSE
    OBVIOUS
  <2>1. n * j >= n * (q + 1) /\ n * (q + 1) = n * q + n
    BY <1>2
  <2> QED BY <1>1, <1>2, <2>1
<1>5. q = j
  BY <1>2, <1>3, <1>4
<1>6. t = r
  BY <1>1, <1>2, <1>5
<1> QED BY <1>6 DEF t, v

\* A value that fits is its own rest, and one turn brings a negative one back.
LEMMA RestSmall ==
  ASSUME NEW n \in Nat, NEW v \in 0 .. n - 1
  PROVE  v % n = v
<1>1. (n * 0 + v) % n = v
  BY RestOf
<1> QED BY <1>1

LEMMA RestBelow ==
  ASSUME NEW n \in Nat, NEW v \in -n .. -1
  PROVE  v % n = v + n
<1>1. v + n \in Nat /\ v + n < n /\ 1 <= n /\ -1 \in Int
  OBVIOUS
<1>2. (n * (-1) + (v + n)) % n = v + n
  BY <1>1, RestOf
<1>3. n * (-1) + (v + n) = v
  OBVIOUS
<1> QED BY <1>2, <1>3

\* Half of a number, rounded down.
LEMMA HalfFacts ==
  ASSUME NEW n \in Nat, 1 <= n
  PROVE  /\ n \div 2 \in Nat /\ 2 * (n \div 2) <= n /\ n < 2 * (n \div 2) + 2
OBVIOUS

\* A signed value comes back out of a word.
LEMMA SignedBack ==
  ASSUME NEW n \in Nat, 1 <= n, NEW v \in SignedValues(n)
  PROVE  v \in Int /\ Signed(v % n, n) = v
<1>1. PICK h \in Nat : h = n \div 2 /\ 2 * h <= n
  BY HalfFacts
<1>2. v \in h - n .. h - 1
  BY <1>1 DEF SignedValues
<1>3. CASE v >= 0
  <2>1. v \in 0 .. n - 1
    BY <1>1, <1>2, <1>3
  <2>2. v % n = v
    BY <2>1, RestSmall
  <2> QED BY <1>1, <1>2, <1>3, <2>2 DEF Signed
<1>4. CASE v < 0
  <2>1. v \in -n .. -1
    BY <1>1, <1>2, <1>4
  <2>2. v % n = v + n
    BY <2>1, RestBelow
  <2> QED BY <1>1, <1>2, <1>4, <2>2 DEF Signed
<1> QED BY <1>2, <1>3, <1>4

\* An int in its slot is the int; any other value fills its slot.
LEMMA IntSlot ==
  ASSUME NEW c, NEW i \in c.ints, NEW junk \in Junk, c.args[i] \in Int
  PROVE  Slot(c, i, junk) % IntSize = c.args[i] % IntSize
<1>1. PICK r \in Nat : r = c.args[i] % IntSize /\ r < IntSize
  BY SizeFacts
<1>2. PICK j \in Int : j = junk
  BY WordAssumption
<1>3. (IntSize * j + r) % IntSize = r
  BY <1>1, <1>2, SizeFacts, RestOf
<1>4. Slot(c, i, junk) = r + IntSize * j
  BY <1>1, <1>2 DEF Slot
<1>5. r + IntSize * j = IntSize * j + r
  BY <1>1, <1>2, SizeFacts
<1> QED BY <1>1, <1>3, <1>4, <1>5

LEMMA WordSlot ==
  ASSUME NEW c, NEW i, i \notin c.ints, NEW junk
  PROVE  Slot(c, i, junk) = c.args[i] % WordSize
BY DEF Slot

\* What is needed is the sum and the slack, unless the sum is far below zero:
\* then it is more than any buffer has.
Sum(w, pr) == w + (IF pr = Unset THEN 0 ELSE pr)

LEMMA NeedFacts ==
  ASSUME NEW w \in SignedValues(IntSize), NEW pr, pr = Unset \/ pr \in 0 .. (IntSize \div 2) - 1
  PROVE  /\ w \in Int /\ Sum(w, pr) \in Int
         /\ Sum(w, pr) >= -Slack =>
              /\ (Sum(w, pr) + Slack) % WordSize = Sum(w, pr) + Slack
              /\ Sum(w, pr) + Slack <= MaxAlloc
         /\ Sum(w, pr) < -Slack => (Sum(w, pr) + Slack) % WordSize > MaxAlloc
<1>1. PICK h \in Nat : h = IntSize \div 2 /\ 2 * h <= IntSize
  BY SizeFacts, HalfFacts
<1>2. w \in h - IntSize .. h - 1
  BY <1>1 DEF SignedValues
<1>3. PICK t \in Int : t = Sum(w, pr) + Slack
  BY <1>1, <1>2, SizeFacts DEF Sum
<1>4. Sum(w, pr) \in Int /\ t <= IntSize + Slack /\ t >= -IntSize
  BY <1>1, <1>2, <1>3, SizeFacts DEF Sum
<1>5. CASE t >= 0
  <2>1. t \in 0 .. WordSize - 1
    BY <1>4, <1>5, SizeFacts
  <2>2. t % WordSize = t
    BY <2>1, SizeFacts, RestSmall
  <2>3. t <= MaxAlloc
    BY <1>4, SizeFacts
  <2>4. ~(Sum(w, pr) < -Slack)
    BY <1>3, <1>4, <1>5, SizeFacts
  <2> QED BY <1>2, <1>3, <1>4, <2>2, <2>3, <2>4
<1>6. CASE t < 0
  <2>1. t \in -WordSize .. -1
    BY <1>4, <1>6, SizeFacts
  <2>2. t % WordSize = t + WordSize
    BY <2>1, SizeFacts, RestBelow
  <2>3. t + WordSize > MaxAlloc
    <3>1. CASE t > -IntSize
      BY <3>1, SizeFacts
    <3>2. CASE t = -IntSize
      BY <1>1, <1>2, <1>3, <3>2, SizeFacts DEF Sum
    <3> QED BY <1>4, <3>1, <3>2, SizeFacts
  <2>4. ~(Sum(w, pr) >= -Slack)
    BY <1>3, <1>4, <1>6, SizeFacts
  <2> QED BY <1>2, <1>3, <1>4, <2>2, <2>3, <2>4
<1> QED BY <1>5, <1>6

----------------------------------------------------------------------------
(* Directives.                                                             *)

\* The arguments of the item i of a call: for its stars, and for its value.
WidthArg(c, i) == IF c.items[i].width = Star THEN c.args[First(c, i) + 1] ELSE c.items[i].width
PrecArg(c, i)  == IF c.items[i].prec = Star THEN c.args[First(c, i) + C!Stars(c.items[i])]
                  ELSE c.items[i].prec
ValueArg(c, i) == c.args[First(c, i) + C!Stars(c.items[i]) + 1]

Directive(c, i) == i \in DOMAIN c.items /\ c.items[i].conv \notin C!Literal

\* The parts of a call.
LEMMA CallFacts ==
  ASSUME NEW c \in Calls
  PROVE  /\ c.fn \in DOMAIN Prototype /\ c.n \in Nat
         /\ Len(c.items) \in Nat /\ DOMAIN c.items = 1 .. Len(c.items)
         /\ Len(c.args) \in Nat /\ DOMAIN c.args = 1 .. Len(c.args)
         /\ First(c, 1) = 0
BY CallsAssumption

\* How many slots the stars take.
LEMMA StarsFacts ==
  ASSUME NEW item
  PROVE  /\ Starred(item.width) \in {0, 1} /\ Starred(item.prec) \in {0, 1}
         /\ C!Stars(item) = Starred(item.width) + Starred(item.prec)
         /\ C!Stars(item) \in 0 .. 2
BY DEF Starred, C!Stars

\* A character takes no arguments, a directive suits its own.
LEMMA LiteralFacts ==
  ASSUME NEW c \in Calls, NEW i \in DOMAIN c.items, c.items[i].conv \in C!Literal
  PROVE  First(c, i + 1) = First(c, i)
BY CallsAssumption

LEMMA SuitsFacts ==
  ASSUME NEW c \in Calls, NEW i, Directive(c, i)
  PROVE  Suits(c, i)
BY CallsAssumption DEF Directive

\* A directive's conversion, and where its arguments end.
LEMMA DirectiveFacts ==
  ASSUME NEW c \in Calls, NEW i, Directive(c, i), First(c, i) \in Nat
  PROVE  /\ c.items[i].conv \in {"d", "u", "c", "f", "s", "p", "n", "?", "end"}
         /\ c.items[i].raw \in Nat
         /\ WidthArg(c, i) \in SignedValues(IntSize)
         /\ PrecArg(c, i) = Unset \/ PrecArg(c, i) \in 0 .. (IntSize \div 2) - 1
         /\ c.items[i].prec = Star => PrecArg(c, i) \in 0 .. (IntSize \div 2) - 1
         /\ \A j \in 1 .. C!Stars(c.items[i]) : First(c, i) + j \in c.ints
         /\ First(c, i + 1) = First(c, i) + C!Stars(c.items[i])
                              + (IF c.items[i].conv \in {"?", "end"} THEN 0 ELSE 1)
         /\ First(c, i + 1) \in 0 .. Len(c.args)
<1>1. Suits(c, i)
  BY SuitsFacts
<1>2. C!Stars(c.items[i]) \in 0 .. 2
  BY StarsFacts
<1>3. Len(c.args) \in Nat
  BY CallFacts
<1> QED BY <1>1, <1>2, <1>3, SizeFacts DEF Suits, WidthArg, PrecArg, C!Prints

\* The value of a directive that takes one.
LEMMA ValueFacts ==
  ASSUME NEW c \in Calls, NEW i, Directive(c, i), First(c, i) \in Nat,
         c.items[i].conv \notin {"?", "end"}
  PROVE  /\ ValueFits(c.items[i], ValueArg(c, i))
         /\ TextFits(c.items[i], WidthArg(c, i), PrecArg(c, i), ValueArg(c, i))
         /\ First(c, i) + C!Stars(c.items[i]) + 1 \in c.ints
              <=> (c.items[i].conv \in {"d", "u", "c"} /\ ~Wide(c.items[i]))
<1>1. Suits(c, i)
  BY SuitsFacts
<1>2. ValueFits(c.items[i], ValueArg(c, i))
  BY <1>1 DEF Suits, ValueArg
<1>3. TextFits(c.items[i], WidthArg(c, i), PrecArg(c, i), ValueArg(c, i))
  BY <1>1 DEF Suits, WidthArg, PrecArg, ValueArg
<1>4. First(c, i) + C!Stars(c.items[i]) + 1 \in c.ints
        <=> (c.items[i].conv \in {"d", "u", "c"} /\ ~Wide(c.items[i]))
  BY <1>1 DEF Suits
<1> QED BY <1>2, <1>3, <1>4

\* A width or precision out of a slot is the argument's.
LEMMA StarSlot ==
  ASSUME NEW c \in Calls, NEW i \in c.ints, NEW junk \in Junk,
         c.args[i] \in SignedValues(IntSize)
  PROVE  Int32(Slot(c, i, junk)) = c.args[i]
<1>1. c.args[i] \in Int /\ Signed(c.args[i] % IntSize, IntSize) = c.args[i]
  BY SizeFacts, SignedBack
<1>2. Slot(c, i, junk) % IntSize = c.args[i] % IntSize
  BY <1>1, IntSlot
<1> QED BY <1>1, <1>2 DEF Int32

\* The number out of a slot is the argument's value, whatever its type.
NumberOf(item, raw) ==
  IF item.conv \in {"d", "u"} THEN Number(item, raw)
  ELSE IF item.conv = "c" THEN raw % IntSize ELSE raw

LEMMA ValueSlot ==
  ASSUME NEW c \in Calls, NEW i, Directive(c, i), First(c, i) \in Nat,
         c.items[i].conv \notin {"?", "end"}, NEW junk \in Junk, NEW at,
         at = First(c, i) + C!Stars(c.items[i]) + 1
  PROVE  NumberOf(c.items[i], Slot(c, at, junk)) = ValueArg(c, i)
<1>1. PICK item, v, slot : item = c.items[i] /\ v = ValueArg(c, i) /\ slot = Slot(c, at, junk)
  OBVIOUS
<1>2. /\ ValueFits(item, v) /\ v = c.args[at]
      /\ at \in c.ints <=> (item.conv \in {"d", "u", "c"} /\ ~Wide(item))
      /\ item.conv \in {"d", "u", "c", "f", "s", "p", "n"}
  BY <1>1, ValueFacts, DirectiveFacts DEF ValueArg
<1>3. v \in Int
  <2>1. IntSize \div 2 \in Nat /\ WordSize \div 2 \in Nat
    BY SizeFacts, HalfFacts
  <2> QED BY <1>2, <2>1, SizeFacts DEF ValueFits, SignedValues
<1>4. CASE at \in c.ints
  <2>1. slot % IntSize = v % IntSize
    BY <1>1, <1>2, <1>3, <1>4, IntSlot
  <2>2. CASE item.conv = "d"
    <3>1. v \in SignedValues(IntSize)
      BY <1>2, <1>4, <2>2 DEF ValueFits
    <3>2. Signed(v % IntSize, IntSize) = v
      BY <3>1, SizeFacts, SignedBack
    <3> QED BY <1>1, <1>2, <1>4, <2>1, <2>2, <3>2 DEF NumberOf, Number, Int32
  <2>3. CASE item.conv \in {"u", "c"}
    <3>1. v \in 0 .. IntSize - 1
      BY <1>2, <1>4, <2>3 DEF ValueFits
    <3>2. v % IntSize = v
      BY <3>1, SizeFacts, RestSmall
    <3> QED BY <1>1, <1>2, <1>4, <2>1, <2>3, <3>2 DEF NumberOf, Number
  <2> QED BY <1>2, <1>4, <2>2, <2>3
<1>5. CASE at \notin c.ints
  <2>1. slot = v % WordSize
    BY <1>1, <1>2, <1>5, WordSlot
  <2>2. CASE item.conv = "d"
    <3>1. v \in SignedValues(WordSize) /\ Wide(item)
      BY <1>2, <1>5, <2>2 DEF ValueFits
    <3>2. Signed(v % WordSize, WordSize) = v
      BY <3>1, SizeFacts, SignedBack
    <3> QED BY <1>1, <2>1, <2>2, <3>1, <3>2 DEF NumberOf, Number
  <2>3. CASE item.conv # "d"
    <3>1. v \in 0 .. WordSize - 1
      BY <1>2, <1>5, <2>3, SizeFacts DEF ValueFits
    <3>2. slot = v
      BY <2>1, <3>1, SizeFacts, RestSmall
    <3>3. CASE item.conv = "c"
      <4>1. v \in 0 .. IntSize - 1
        BY <1>2, <3>3 DEF ValueFits
      <4>2. v % IntSize = v
        BY <4>1, SizeFacts, RestSmall
      <4> QED BY <1>1, <3>2, <3>3, <4>2 DEF NumberOf
    <3>4. CASE item.conv # "c"
      BY <1>1, <1>2, <1>5, <2>3, <3>2, <3>4 DEF NumberOf, Number
    <3> QED BY <3>3, <3>4
  <2> QED BY <2>2, <2>3
<1> QED BY <1>4, <1>5

\* A piece is shorter than the buffer made for it: as long as the buffer was,
\* or as what is needed for it, a string's length included.
RoomFor(item, w, pr, v, b) ==
  IF item.conv = "s" THEN Max({b, Sum(w, pr) + Slack + Length(v)})
  ELSE Max({b, Sum(w, pr) + Slack})

LEMMA PieceFits ==
  ASSUME NEW item, item.conv \in C!Prints, NEW v, NEW pr,
         NEW w \in SignedValues(IntSize), pr = Unset \/ pr \in 0 .. (IntSize \div 2) - 1,
         TextFits(item, w, pr, v), Sum(w, pr) >= -Slack,
         NEW b \in BufSize .. WordSize
  PROVE  /\ C!Chars(C!Piece(item, w, pr, v)) \in Nat
         /\ C!Chars(C!Piece(item, w, pr, v)) < RoomFor(item, w, pr, v, b)
         /\ RoomFor(item, w, pr, v, b) \in BufSize .. WordSize
<1>1. PICK t \in Int : t = Sum(w, pr) /\ t + Slack \in 0 .. MaxAlloc
  BY NeedFacts, SizeFacts
<1>2. w \in Int /\ (pr \in Nat \/ pr = Unset) /\ t = w + (IF pr = Unset THEN 0 ELSE pr)
  <2>1. IntSize \div 2 \in Nat
    BY SizeFacts, HalfFacts
  <2> QED BY <1>1, <2>1, NeedFacts DEF Sum
<1>3. PICK room : room = RoomFor(item, w, pr, v, b)
  OBVIOUS
<1>4. /\ room \in BufSize .. WordSize /\ room >= t + Slack
      /\ item.conv = "s" => room >= t + Slack + Length(v)
  <2>1. CASE item.conv = "s"
    <3>1. Length(v) \in 0 .. WordSize - MaxAlloc
      BY <2>1 DEF TextFits
    <3>2. PICK m \in Int : m = Sum(w, pr) + Slack + Length(v) /\ m >= t + Slack /\ m <= WordSize
      BY <1>1, <3>1, SizeFacts
    <3>3. room = IF b >= m THEN b ELSE m
      BY <1>3, <2>1, <3>2, SizeFacts, MaxFacts DEF RoomFor
    <3> QED BY <1>1, <3>1, <3>2, <3>3, SizeFacts
  <2>2. CASE item.conv # "s"
    <3>1. room = IF b >= t + Slack THEN b ELSE t + Slack
      BY <1>1, <1>3, <2>2, SizeFacts, MaxFacts DEF RoomFor
    <3> QED BY <1>1, <2>2, <3>1, SizeFacts
  <2> QED BY <2>1, <2>2
<1>5. PICK pc : pc = C!Piece(item, w, pr, v)
  OBVIOUS
<1>6. /\ pc.conv = item.conv /\ pc.width = (IF w < 0 THEN -w ELSE w)
      /\ pc.prec = pr /\ pc.v = v
  BY <1>5 DEF C!Piece
<1>7. PICK n : n = C!Natural(pc)
  OBVIOUS
<1>8. n \in Nat /\ (w >= 0 => n < room)
  <2>1. CASE item.conv \in {"d", "u"}
    <3>1. PICK g \in Nat : g = Digits(v) /\ g <= BufSize - 3
      BY <2>1, SizeFacts DEF TextFits
    <3>2. n = IF pr = Unset THEN g ELSE IF g >= pr THEN g ELSE pr
      BY <1>2, <1>6, <1>7, <2>1, <3>1, MaxFacts, LibraryFacts DEF C!Natural, C!AtLeast
    <3> QED BY <1>1, <1>2, <1>4, <3>1, <3>2, SizeFacts
  <2>2. CASE item.conv = "c"
    <3>1. n = 1
      BY <1>6, <1>7, <2>2 DEF C!Natural
    <3> QED BY <1>4, <3>1, SizeFacts
  <2>3. CASE item.conv = "f"
    <3>1. PICK g \in Nat : g = Whole(v) /\ g <= Slack - 2 /\ g + 1 + Fraction < BufSize
      BY <2>3, SizeFacts DEF TextFits
    <3>2. n = g + 1 + (IF pr = Unset THEN Fraction ELSE pr)
      BY <1>6, <1>7, <2>3, <3>1 DEF C!Natural
    <3> QED BY <1>1, <1>2, <1>4, <3>1, <3>2, SizeFacts
  <2>4. CASE item.conv = "s"
    <3>1. PICK g \in Nat : g = Length(v)
      BY <2>4, SizeFacts DEF TextFits
    <3>2. n = IF pr = Unset THEN g ELSE IF g <= pr THEN g ELSE pr
      BY <1>2, <1>6, <1>7, <2>4, <3>1, MinFacts, LibraryFacts DEF C!Natural, C!AtMost
    <3> QED BY <1>1, <1>2, <1>4, <2>4, <3>1, <3>2, SizeFacts
  <2>5. CASE item.conv = "p"
    <3>1. PICK g \in Nat : g = Digits(v) /\ g <= BufSize - 3
      BY <2>5, SizeFacts DEF TextFits
    <3>2. n = 2 + g
      BY <1>6, <1>7, <2>5, <3>1 DEF C!Natural
    <3> QED BY <1>4, <3>1, <3>2, SizeFacts
  <2> QED BY <2>1, <2>2, <2>3, <2>4, <2>5 DEF C!Prints
<1>10. C!Chars(pc) = IF pc.width >= n THEN pc.width ELSE n
  BY <1>2, <1>6, <1>7, <1>8, MaxFacts, LibraryFacts DEF C!Chars
<1>11. CASE w >= 0
  BY <1>1, <1>2, <1>3, <1>4, <1>5, <1>6, <1>8, <1>10, <1>11, SizeFacts
<1>12. CASE w < 0
  <2>1. C!Chars(pc) < BufSize
    BY <1>1, <1>2, <1>5, <1>12, SizeFacts DEF TextFits, Sum
  <2>2. C!Chars(pc) \in Nat
    BY <1>2, <1>6, <1>8, <1>10
  <2> QED BY <1>3, <1>4, <1>5, <2>1, <2>2, SizeFacts
<1> QED BY <1>2, <1>11, <1>12

\* The register that a host function passes on is the format's.
LEMMA FormatRegister ==
  ASSUME NEW c \in Calls PROVE Registers(c)[FmtArg(c.fn) + 1] = c.items
<1>1. c.fn \in {"printf", "fprintf", "sprintf", "snprintf", "__printf_chk", "__fprintf_chk",
                "__sprintf_chk", "__snprintf_chk"}
  BY CallsAssumption DEF Prototype
<1> QED BY <1>1 DEF Registers, FmtArg, Prototype

\* snprintf's second is the size of the guest's buffer.
LEMMA SizeRegister ==
  ASSUME NEW c \in Calls, c.fn \in C!Bounded PROVE Registers(c)[2] = c.n
BY DEF Registers, Prototype, C!Bounded

----------------------------------------------------------------------------
(* The invariant: what has been read of the call, and for what.            *)

ReadInv ==
  /\ call \in Calls /\ x = Registers(call)
  /\ \E junk \in Junk : stack = [i \in DOMAIN call.args |-> Slot(call, i, junk)]
  /\ phase \in {"call", "scan", "prec", "conv", "returned", "thrown"}
  /\ IF phase = "call" THEN p = 1 ELSE fmt = call.items
  /\ p \in 1 .. Len(call.items) + 1
  /\ First(call, p) \in 0 .. Len(call.args)
  /\ va = First(call, p) + Taken

FieldInv ==
  /\ phase \in {"prec", "conv", "thrown"} => (Directive(call, p) /\ width = WidthArg(call, p))
  /\ phase \in {"conv", "thrown"} => prec = PrecArg(call, p)
  /\ phase = "thrown" => ~Fits

TextInv ==
  /\ buf \in BufSize .. WordSize /\ size \in Nat
  /\ phase # "returned" => (result = -1 /\ kept = 0)
  /\ phase = "returned" => (result = size /\ kept \in 0 .. size)

IInv == ReadInv /\ FieldInv /\ TextInv

\* The stack has a slot for each argument.
LEMMA StackFacts ==
  ASSUME ReadInv
  PROVE  /\ Len(stack) = Len(call.args)
         /\ \E junk \in Junk : \A i \in 1 .. Len(call.args) : stack[i] = Slot(call, i, junk)
<1>1. PICK junk \in Junk : stack = [i \in DOMAIN call.args |-> Slot(call, i, junk)]
  BY DEF ReadInv
<1>2. Len(call.args) \in Nat /\ DOMAIN call.args = 1 .. Len(call.args)
  BY CallFacts DEF ReadInv
<1>3. stack = [i \in 1 .. Len(call.args) |-> Slot(call, i, junk)]
  BY <1>1, <1>2
<1> QED BY <1>2, <1>3

\* The invariant bounds the slots read and the text kept.
LEMMA TypeFollows == IInv => TypeOK
<1> SUFFICES ASSUME IInv PROVE TypeOK
  OBVIOUS
<1>1. Len(stack) = Len(call.args) /\ Len(call.args) \in Nat /\ call \in Calls
  BY StackFacts, CallFacts DEF IInv, ReadInv
<1>2. va \in 0 .. Len(call.args)
  <2>1. CASE phase \in {"call", "scan", "returned"}
    BY <1>1, <2>1 DEF IInv, ReadInv, Taken
  <2>2. CASE phase \in {"prec", "conv", "thrown"}
    <3>1. Directive(call, p) /\ fmt = call.items /\ First(call, p) \in 0 .. Len(call.args)
      BY <2>2 DEF IInv, ReadInv, FieldInv
    <3>2. First(call, p) + C!Stars(call.items[p]) <= Len(call.args)
      BY <1>1, <3>1, DirectiveFacts, StarsFacts
    <3>3. Taken \in 0 .. C!Stars(call.items[p])
      BY <2>2, <3>1, StarsFacts DEF Taken, d
    <3> QED BY <1>1, <3>1, <3>2, <3>3, StarsFacts DEF IInv, ReadInv
  <2> QED BY <2>1, <2>2 DEF IInv, ReadInv
<1>3. result \in {-1, size} /\ kept \in 0 .. size /\ size \in Nat
  BY DEF IInv, TextInv
<1> QED BY <1>1, <1>2, <1>3 DEF IInv, ReadInv, TextInv, TypeOK

\* A directive that is looked at: its arguments, and how many of them are read.
LEMMA LookedAt ==
  ASSUME IInv, phase \in {"prec", "conv", "thrown"}
  PROVE  /\ call \in Calls /\ Directive(call, p) /\ First(call, p) \in Nat /\ p \in Nat
         /\ fmt = call.items /\ d = call.items[p]
         /\ width = WidthArg(call, p) /\ width \in SignedValues(IntSize)
         /\ p <= Len(call.items)
         /\ phase # "prec" =>
              /\ prec = PrecArg(call, p) /\ va = First(call, p) + C!Stars(d)
              /\ prec = Unset \/ prec \in 0 .. (IntSize \div 2) - 1
<1>1. /\ call \in Calls /\ Directive(call, p) /\ First(call, p) \in Nat /\ p \in Nat
      /\ fmt = call.items /\ d = call.items[p] /\ width = WidthArg(call, p)
      /\ p <= Len(call.items)
  BY CallFacts DEF IInv, ReadInv, FieldInv, d, Directive
<1>2. width \in SignedValues(IntSize)
  BY <1>1, DirectiveFacts
<1>3. ASSUME phase # "prec"
      PROVE  /\ prec = PrecArg(call, p) /\ va = First(call, p) + C!Stars(d)
             /\ prec = Unset \/ prec \in 0 .. (IntSize \div 2) - 1
  <2>1. prec = PrecArg(call, p) /\ va = First(call, p) + Taken
    BY <1>3 DEF IInv, ReadInv, FieldInv
  <2>2. Taken = C!Stars(d)
    BY <1>3, StarsFacts DEF Taken
  <2> QED BY <1>1, <2>1, <2>2, DirectiveFacts
<1> QED BY <1>1, <1>2, <1>3

\* The width's slot has the width, the precision's the precision.
LEMMA WidthRead ==
  ASSUME ReadInv, Directive(call, p), phase = "scan", fmt = call.items,
         NEW w, w = IF d.width = Star THEN Int32(stack[va + 1]) ELSE d.width
  PROVE  w = WidthArg(call, p)
<1>1. call \in Calls /\ va = First(call, p) /\ va \in Nat /\ d = call.items[p]
  BY DEF ReadInv, Taken, d
<1>2. CASE d.width # Star
  BY <1>1, <1>2 DEF WidthArg
<1>3. CASE d.width = Star
  <2>1. C!Stars(d) >= 1 /\ C!Stars(d) \in 0 .. 2
    BY <1>3, StarsFacts DEF Starred
  <2>2. /\ va + 1 \in call.ints /\ va + 1 \in 1 .. Len(call.args)
        /\ WidthArg(call, p) \in SignedValues(IntSize)
    BY <1>1, <2>1, DirectiveFacts, CallFacts
  <2>3. PICK junk \in Junk : stack[va + 1] = Slot(call, va + 1, junk)
    BY <2>2, StackFacts
  <2>4. WidthArg(call, p) = call.args[va + 1]
    BY <1>1, <1>3 DEF WidthArg
  <2>5. Int32(Slot(call, va + 1, junk)) = call.args[va + 1]
    BY <1>1, <2>2, <2>4, StarSlot
  <2> QED BY <1>3, <2>3, <2>4, <2>5
<1> QED BY <1>2, <1>3

LEMMA PrecRead ==
  ASSUME IInv, phase = "prec",
         NEW w, w = IF d.prec = Star THEN Int32(stack[va + 1]) ELSE d.prec
  PROVE  w = PrecArg(call, p)
<1>1. /\ call \in Calls /\ Directive(call, p) /\ First(call, p) \in Nat /\ d = call.items[p]
  BY LookedAt
<1>2. CASE d.prec # Star
  BY <1>1, <1>2 DEF PrecArg
<1>3. CASE d.prec = Star
  <2>1. va = First(call, p) + Starred(d.width) /\ C!Stars(d) = Starred(d.width) + 1
        /\ C!Stars(d) \in 1 .. 2
    BY <1>3, StarsFacts DEF IInv, ReadInv, Taken, Starred
  <2>2. va + 1 = First(call, p) + C!Stars(d)
    BY <1>1, <2>1, StarsFacts
  <2>3. /\ va + 1 \in call.ints /\ va + 1 \in 1 .. Len(call.args)
        /\ PrecArg(call, p) \in 0 .. (IntSize \div 2) - 1
    BY <1>1, <1>3, <2>1, <2>2, DirectiveFacts, CallFacts
  <2>4. PICK junk \in Junk : stack[va + 1] = Slot(call, va + 1, junk)
    BY <2>3, StackFacts DEF IInv
  <2>5. PrecArg(call, p) = call.args[va + 1]
    BY <1>1, <1>3, <2>2 DEF PrecArg
  <2>6. PrecArg(call, p) \in SignedValues(IntSize)
    BY <2>3, SizeFacts, HalfFacts DEF SignedValues
  <2>7. Int32(Slot(call, va + 1, junk)) = call.args[va + 1]
    BY <1>1, <2>3, <2>5, <2>6, StarSlot
  <2> QED BY <1>3, <2>4, <2>5, <2>7
<1> QED BY <1>2, <1>3

\* The next slot has the value.
LEMMA ValueRead ==
  ASSUME IInv, phase = "conv", d.conv \notin {"?", "end"}
  PROVE  NumberOf(d, Raw) = ValueArg(call, p)
<1>1. /\ call \in Calls /\ Directive(call, p) /\ First(call, p) \in Nat /\ d = call.items[p]
      /\ va = First(call, p) + C!Stars(d)
  BY LookedAt
<1>2. va + 1 = First(call, p) + C!Stars(d) + 1 /\ va + 1 \in 1 .. Len(call.args)
  BY <1>1, DirectiveFacts, StarsFacts, CallFacts
<1>3. PICK junk \in Junk : stack[va + 1] = Slot(call, va + 1, junk)
  BY <1>2, StackFacts DEF IInv
<1>4. NumberOf(d, Slot(call, va + 1, junk)) = ValueArg(call, p)
  BY <1>1, <1>2, ValueSlot
<1> QED BY <1>3, <1>4 DEF Raw

----------------------------------------------------------------------------
(* Steps.                                                                  *)

\* There is room, unless the sum is far below zero.
LEMMA RoomFacts ==
  ASSUME IInv, phase \in {"conv", "thrown"}
  PROVE  /\ width \in Int /\ Sum(width, prec) \in Int
         /\ Fits <=> Sum(width, prec) >= -Slack
         /\ Fits => Need = Sum(width, prec) + Slack
<1>1. width \in SignedValues(IntSize) /\ (prec = Unset \/ prec \in 0 .. (IntSize \div 2) - 1)
  BY LookedAt
<1>2. /\ width \in Int /\ Sum(width, prec) \in Int
      /\ Sum(width, prec) >= -Slack =>
           /\ (Sum(width, prec) + Slack) % WordSize = Sum(width, prec) + Slack
           /\ Sum(width, prec) + Slack <= MaxAlloc
      /\ Sum(width, prec) < -Slack => (Sum(width, prec) + Slack) % WordSize > MaxAlloc
  BY <1>1, NeedFacts
<1>3. Need = (Sum(width, prec) + Slack) % WordSize
  BY DEF Need, Sum
<1>4. Need \in Int
  BY <1>2, <1>3, SizeFacts
<1> QED BY <1>2, <1>3, <1>4, SizeFacts DEF Fits

\* What all the conversions that print do: behind a directive its piece, whole.
PrintsPiece(v) ==
  /\ Converting(C!Prints) /\ Fits
  /\ buf' \in BufSize .. WordSize
  /\ C!Chars(Piece(v)) \in Nat
  /\ out' = Append(out, Piece(v)) /\ size' = size + C!Chars(Piece(v))
  /\ Next1(1) /\ UNCHANGED stored

LEMMA PieceGoesIn ==
  ASSUME IInv, Converting(C!Prints), NEW v, v = ValueArg(call, p),
         NEW room, room = (IF d.conv = "s" THEN RoomForString(v) ELSE Room(0)),
         Emit(Piece(v), room)
  PROVE  PrintsPiece(v)
<1>1. /\ call \in Calls /\ Directive(call, p) /\ First(call, p) \in Nat /\ d = call.items[p]
      /\ width = WidthArg(call, p) /\ prec = PrecArg(call, p)
      /\ width \in SignedValues(IntSize) /\ (prec = Unset \/ prec \in 0 .. (IntSize \div 2) - 1)
  BY LookedAt DEF Converting
<1>2. TextFits(d, width, prec, v)
  BY <1>1, ValueFacts DEF Converting, C!Prints
<1>3. /\ Fits /\ Need = Sum(width, prec) + Slack
      /\ Sum(width, prec) \in Int /\ Sum(width, prec) >= -Slack
  BY RoomFacts DEF Converting, Emit
<1>4. buf \in BufSize .. WordSize
  BY DEF IInv, TextInv
<1>5. room = RoomFor(d, width, prec, v, buf)
  BY <1>3, SizeFacts DEF RoomFor, RoomForString, Room
<1>6. d.conv \in C!Prints
  BY DEF Converting
<1>7. /\ C!Chars(C!Piece(d, width, prec, v)) \in Nat
      /\ C!Chars(C!Piece(d, width, prec, v)) < room
      /\ room \in BufSize .. WordSize
  BY <1>1, <1>2, <1>3, <1>4, <1>5, <1>6, PieceFits
<1>8. prec = Unset \/ prec >= 0
  <2>1. IntSize \div 2 \in Nat
    BY SizeFacts, HalfFacts
  <2> QED BY <1>1, <2>1
<1> QED BY <1>7, <1>8 DEF Emit, Piece, PrintsPiece, Converting

LEMMA PrintingSteps ==
  ASSUME IInv, Integer \/ Char \/ Double \/ String \/ Pointer
  PROVE  PrintsPiece(ValueArg(call, p))
<1>1. PICK v : v = ValueArg(call, p)
  OBVIOUS
<1>2. phase = "conv" /\ d.conv \in C!Prints /\ d.conv \notin {"?", "end"}
  BY DEF Integer, Char, Double, String, Pointer, Converting, C!Prints
<1>3. NumberOf(d, Raw) = v
  BY <1>1, <1>2, ValueRead
<1>4. CASE Integer
  <2>1. Emit(Piece(v), Room(0)) /\ d.conv # "s"
    BY <1>3, <1>4 DEF Integer, Converting, NumberOf
  <2> QED BY <1>1, <1>2, <2>1, PieceGoesIn DEF Converting
<1>5. CASE Char
  <2>1. Emit(Piece(v), Room(0)) /\ d.conv # "s"
    BY <1>3, <1>5 DEF Char, Converting, NumberOf
  <2> QED BY <1>1, <1>2, <2>1, PieceGoesIn DEF Converting
<1>6. CASE Double
  <2>1. Emit(Piece(v), Room(0)) /\ d.conv # "s"
    BY <1>3, <1>6 DEF Double, Converting, NumberOf
  <2> QED BY <1>1, <1>2, <2>1, PieceGoesIn DEF Converting
<1>7. CASE String
  <2>1. Emit(Piece(v), RoomForString(v)) /\ d.conv = "s"
    BY <1>3, <1>7 DEF String, Converting, NumberOf
  <2> QED BY <1>1, <1>2, <2>1, PieceGoesIn DEF Converting
<1>8. CASE Pointer
  <2>1. Raw = v /\ d.conv = "p"
    BY <1>3, <1>8 DEF Pointer, Converting, NumberOf
  <2>2. width = 0 /\ prec = Unset /\ ~d.left
    <3>1. TextFits(d, width, prec, v)
      BY <1>1, <1>2, LookedAt, ValueFacts
    <3> QED BY <2>1, <3>1 DEF TextFits
  <2>3. [Piece(v) EXCEPT !.width = 0, !.left = FALSE, !.prec = Unset] = Piece(v)
    <3>1. (d.left \/ width < 0) = FALSE
      BY <2>2
    <3>2. PICK half : half = IF d.len \in {"h", "hh"} THEN d.len ELSE ""
      OBVIOUS
    <3>3. Piece(v) = [conv |-> d.conv, left |-> FALSE, width |-> 0, prec |-> Unset,
                      half |-> half, v |-> v]
      BY <2>2, <3>1, <3>2 DEF Piece, C!Piece
    <3>4. PICK pc : pc = Piece(v)
      OBVIOUS
    <3>5. pc = [k \in DOMAIN pc |-> pc[k]] /\ pc.width = 0 /\ pc.left = FALSE /\ pc.prec = Unset
      BY ONLY <3>3, <3>4
    <3>6. [pc EXCEPT !.width = 0, !.left = FALSE, !.prec = Unset] = pc
      BY ONLY <3>5
    <3> QED BY ONLY <3>4, <3>6
  <2>4. Emit(Piece(v), Room(0)) /\ d.conv # "s"
    BY <1>8, <2>1, <2>3 DEF Pointer
  <2> QED BY <1>1, <1>2, <2>4, PieceGoesIn DEF Converting
<1> QED BY <1>1, <1>4, <1>5, <1>6, <1>7, <1>8

\* After a directive: the next one's arguments are those behind its own.
LEMMA NextItem ==
  ASSUME IInv, phase = "conv", NEW slots,
         slots = (IF d.conv \in {"?", "end"} THEN 0 ELSE 1), Next1(slots),
         buf' \in BufSize .. WordSize, size' \in Nat
  PROVE  IInv'
<1>1. /\ call \in Calls /\ Directive(call, p) /\ First(call, p) \in Nat /\ p \in Nat
      /\ fmt = call.items /\ d = call.items[p] /\ p <= Len(call.items)
      /\ va = First(call, p) + C!Stars(d)
  BY LookedAt
<1>2. /\ p' = p + 1 /\ va' = va + slots /\ phase' = "scan"
      /\ UNCHANGED <<call, x, stack, fmt, result, kept>>
  BY DEF Next1, Same
<1>3. /\ First(call, p + 1) = First(call, p) + C!Stars(d) + slots
      /\ First(call, p + 1) \in 0 .. Len(call.args)
  BY <1>1, DirectiveFacts
<1>4. p + 1 \in 1 .. Len(call.items) + 1
  BY <1>1, CallFacts
<1>5. ReadInv'
  BY <1>1, <1>2, <1>3, <1>4 DEF IInv, ReadInv, Taken
<1>6. FieldInv' /\ TextInv'
  BY <1>2 DEF IInv, FieldInv, TextInv
<1> QED BY <1>5, <1>6 DEF IInv

\* The invariant holds when the guest calls.
LEMMA InitInv == Init => IInv
<1> SUFFICES ASSUME Init PROVE IInv
  OBVIOUS
<1>1. Len(call.items) \in Nat /\ Len(call.args) \in Nat /\ First(call, 1) = 0
  BY CallFacts DEF Init
<1>2. ReadInv
  <2>1. \E junk \in Junk : stack = [i \in DOMAIN call.args |-> Slot(call, i, junk)]
    BY DEF Init
  <2>2. phase = "call" /\ p = 1 /\ va = 0 /\ call \in Calls /\ x = Registers(call)
    BY DEF Init
  <2>3. p \in 1 .. Len(call.items) + 1 /\ Taken = 0
    BY <1>1, <2>2 DEF Taken
  <2> QED BY <1>1, <2>1, <2>2, <2>3 DEF ReadInv
<1>3. FieldInv /\ TextInv
  BY SizeFacts DEF Init, FieldInv, TextInv
<1> QED BY <1>2, <1>3 DEF IInv

\* Each step keeps it: the format is taken from its register,
LEMMA EnterKeeps == IInv /\ Enter => IInv'
<1> SUFFICES ASSUME IInv, Enter PROVE IInv'
  OBVIOUS
<1>1. call \in Calls /\ x = Registers(call)
  BY DEF IInv, ReadInv
<1>2. fmt' = call.items
  BY <1>1, FormatRegister DEF Enter
<1>3. ReadInv'
  BY <1>2 DEF IInv, ReadInv, Enter, Taken
<1>4. FieldInv' /\ TextInv'
  BY DEF IInv, FieldInv, TextInv, Enter
<1> QED BY <1>3, <1>4 DEF IInv

\* a character is copied,
LEMMA CharacterKeeps == IInv /\ Character => IInv'
<1> SUFFICES ASSUME IInv, Character PROVE IInv'
  OBVIOUS
<1>1. /\ call \in Calls /\ p \in DOMAIN call.items /\ p \in Nat /\ p <= Len(call.items)
      /\ fmt = call.items /\ call.items[p].conv \in C!Literal
  BY CallFacts DEF IInv, ReadInv, Character, Scanning, d
<1>2. First(call, p + 1) = First(call, p)
  BY <1>1, LiteralFacts
<1>3. p + 1 \in 1 .. Len(call.items) + 1
  BY <1>1, CallFacts
<1>4. ReadInv'
  BY <1>1, <1>2, <1>3 DEF IInv, ReadInv, Character, Scanning, Same, Taken
<1>5. FieldInv' /\ TextInv'
  BY DEF IInv, FieldInv, TextInv, Character, Scanning, Same
<1> QED BY <1>4, <1>5 DEF IInv

\* the width is read,
LEMMA WidthKeeps == IInv /\ Width => IInv'
<1> SUFFICES ASSUME IInv, Width PROVE IInv'
  OBVIOUS
<1>1. /\ call \in Calls /\ phase = "scan" /\ fmt = call.items /\ d = call.items[p]
      /\ Directive(call, p) /\ va = First(call, p)
  BY CallFacts DEF IInv, ReadInv, Width, Scanning, d, Directive, Taken
<1>2. width' = WidthArg(call, p)
  <2>1. width' = IF d.width = Star THEN Int32(stack[va + 1]) ELSE d.width
    BY DEF Width, Field
  <2> QED BY <1>1, <2>1, WidthRead DEF IInv
<1>3. va' = First(call, p) + Starred(d.width) /\ phase' = "prec" /\ UNCHANGED <<p, buf, size>>
      /\ UNCHANGED <<call, x, stack, fmt, result, kept>> /\ d' = d
  BY <1>1 DEF Width, Field, Same, d
<1>4. Taken' = Starred(d.width)
  BY <1>3 DEF Taken
<1>5. ReadInv'
  BY <1>1, <1>3, <1>4 DEF IInv, ReadInv
<1>6. FieldInv' /\ TextInv'
  BY <1>1, <1>2, <1>3 DEF IInv, FieldInv, TextInv
<1> QED BY <1>5, <1>6 DEF IInv

\* and the precision,
LEMMA PrecisionKeeps == IInv /\ Precision => IInv'
<1> SUFFICES ASSUME IInv, Precision PROVE IInv'
  OBVIOUS
<1>1. /\ call \in Calls /\ phase = "prec" /\ fmt = call.items /\ Directive(call, p)
      /\ width = WidthArg(call, p) /\ First(call, p) \in Nat
  BY LookedAt DEF Precision
<1>2. prec' = PrecArg(call, p)
  <2>1. prec' = IF d.prec = Star THEN Int32(stack[va + 1]) ELSE d.prec
    BY DEF Precision, Field
  <2> QED BY <1>1, <2>1, PrecRead
<1>3. va = First(call, p) + Starred(d.width)
  BY <1>1 DEF IInv, ReadInv, Taken
<1>4. va' = va + Starred(d.prec) /\ phase' = "conv" /\ UNCHANGED <<p, width, buf, size>>
      /\ UNCHANGED <<call, x, stack, fmt, result, kept>> /\ d' = d
  BY <1>1 DEF Precision, Field, Same, d
<1>5. Taken' = Starred(d.width) + Starred(d.prec)
  BY <1>4 DEF Taken
<1>6. va' = First(call, p) + Taken'
  BY <1>1, <1>3, <1>4, <1>5, StarsFacts
<1>7. ReadInv'
  BY <1>1, <1>4, <1>6 DEF IInv, ReadInv
<1>8. FieldInv' /\ TextInv'
  BY <1>1, <1>2, <1>4 DEF IInv, FieldInv, TextInv
<1> QED BY <1>7, <1>8 DEF IInv

\* there is no room,
LEMMA NoRoomKeeps == IInv /\ NoRoom => IInv'
<1> SUFFICES ASSUME IInv, NoRoom PROVE IInv'
  OBVIOUS
<1>1. /\ phase = "conv" /\ phase' = "thrown" /\ ~Fits
      /\ UNCHANGED <<p, va, width, prec, buf, size, call, x, stack, fmt, result, kept>>
  BY DEF NoRoom, Converting, Same
<1>2. Taken' = Taken /\ ~Fits'
  BY <1>1 DEF Taken, d, Fits, Need
<1>3. ReadInv'
  BY <1>1, <1>2 DEF IInv, ReadInv
<1>4. FieldInv' /\ TextInv'
  BY <1>1, <1>2 DEF IInv, FieldInv, TextInv
<1> QED BY <1>3, <1>4 DEF IInv

\* a piece is put into the text,
LEMMA PrintingKeeps == IInv /\ (Integer \/ Char \/ Double \/ String \/ Pointer) => IInv'
<1> SUFFICES ASSUME IInv, Integer \/ Char \/ Double \/ String \/ Pointer PROVE IInv'
  OBVIOUS
<1>1. PICK v : PrintsPiece(v)
  BY PrintingSteps
<1>2. /\ phase = "conv" /\ d.conv \notin {"?", "end"} /\ Next1(1)
      /\ buf' \in BufSize .. WordSize
  BY <1>1 DEF PrintsPiece, Converting, C!Prints
<1>3. size' \in Nat
  BY <1>1 DEF PrintsPiece, IInv, TextInv
<1> QED BY <1>2, <1>3, NextItem

\* The buffer that nothing is put into.
LEMMA SpareRoom ==
  ASSUME IInv, phase = "conv", Fits PROVE Room(0) \in BufSize .. WordSize
<1>1. PICK t \in Int : t = Need /\ t <= MaxAlloc
  BY RoomFacts, SizeFacts DEF Fits
<1>2. buf \in BufSize .. WordSize
  BY DEF IInv, TextInv
<1>3. Room(0) = IF buf >= t THEN buf ELSE t
  BY <1>1, <1>2, SizeFacts, MaxFacts DEF Room
<1> QED BY <1>1, <1>2, <1>3, SizeFacts

\* the count is stored,
LEMMA CountOutKeeps == IInv /\ CountOut => IInv'
<1> SUFFICES ASSUME IInv, CountOut PROVE IInv'
  OBVIOUS
<1>1. /\ phase = "conv" /\ d.conv \notin {"?", "end"} /\ Next1(1)
      /\ buf' = Room(0) /\ Fits /\ size' = size
  BY DEF CountOut, Converting
<1>2. buf' \in BufSize .. WordSize /\ size' \in Nat
  BY <1>1, SpareRoom DEF IInv, TextInv
<1> QED BY <1>1, <1>2, NextItem

\* a directive stands for itself,
LEMMA UnknownKeeps == IInv /\ Unknown => IInv'
<1> SUFFICES ASSUME IInv, Unknown PROVE IInv'
  OBVIOUS
<1>1. /\ phase = "conv" /\ d.conv \in {"?", "end"} /\ Next1(0) /\ size' = size + d.raw
      /\ (Fits /\ buf' = Room(0)) \/ buf' = buf
  BY DEF Unknown, Converting
<1>2. buf' \in BufSize .. WordSize
  BY <1>1, SpareRoom DEF IInv, TextInv
<1>3. size' \in Nat
  <2>1. d.raw \in Nat
    BY <1>1, LookedAt, DirectiveFacts
  <2> QED BY <1>1, <2>1 DEF IInv, TextInv
<1> QED BY <1>1, <1>2, <1>3, NextItem

\* the call returns,
LEMMA ReturnKeeps == IInv /\ Return => IInv'
<1> SUFFICES ASSUME IInv, Return PROVE IInv'
  OBVIOUS
<1>1. /\ phase = "scan" /\ phase' = "returned" /\ result' = size /\ size \in Nat
      /\ UNCHANGED <<call, x, stack, fmt, p, va, width, prec, buf, size>>
  BY DEF IInv, TextInv, Return
<1>2. kept' \in 0 .. size
  <2>1. ASSUME NEW n \in Nat PROVE Kept(n) \in 0 .. size
    <3>1. CASE n = 0
      BY <1>1, <3>1 DEF Kept
    <3>2. CASE n # 0
      <4>1. Kept(n) = IF n - 1 <= size THEN n - 1 ELSE size
        BY <1>1, <2>1, <3>2, MinFacts DEF Kept
      <4> QED BY <1>1, <2>1, <3>2, <4>1
    <3> QED BY <3>1, <3>2
  <2>2. CASE call.fn \in C!Bounded
    <3>1. x[2] = call.n /\ call.n \in Nat
      BY <2>2, SizeRegister, CallFacts DEF IInv, ReadInv
    <3> QED BY <2>1, <2>2, <3>1 DEF Return, C!Bounded
  <2>3. CASE call.fn \notin C!Bounded
    BY <1>1, <2>3 DEF Return, C!Bounded
  <2> QED BY <2>2, <2>3
<1>3. ReadInv'
  BY <1>1 DEF IInv, ReadInv, Taken
<1>4. FieldInv' /\ TextInv'
  BY <1>1, <1>2 DEF IInv, FieldInv, TextInv
<1> QED BY <1>3, <1>4 DEF IInv

\* or nothing happens.
LEMMA StutterKeeps == IInv /\ UNCHANGED vars => IInv'
<1> SUFFICES ASSUME IInv, UNCHANGED vars PROVE IInv'
  OBVIOUS
<1>1. Taken' = Taken /\ (Fits' <=> Fits)
  BY DEF vars, Taken, d, Fits, Need
<1>2. ReadInv'
  BY <1>1 DEF vars, IInv, ReadInv
<1>3. FieldInv' /\ TextInv'
  BY <1>1 DEF vars, IInv, FieldInv, TextInv
<1> QED BY <1>2, <1>3 DEF IInv

\* The invariant holds of all calls.
LEMMA Invariance == Spec => []IInv
<1>1. IInv /\ [Next]_vars => IInv'
  BY EnterKeeps, CharacterKeeps, WidthKeeps, PrecisionKeeps, NoRoomKeeps, PrintingKeeps,
     CountOutKeeps, UnknownKeeps, ReturnKeeps, StutterKeeps DEF Next
<1> QED BY InitInv, <1>1, PTL DEF Spec

\* format_guest reads the slots of the guest's arguments and no others, and the
\* guest's buffer gets no more than the text.
THEOREM TypeCorrect == Spec => []TypeOK
BY Invariance, TypeFollows, PTL

\* Only arguments that make the sum of width and precision negative by more
\* than the slack let format_guest give up.
THEOREM ThrowsAreBelow == Spec => []ThrowsOnlyBelow
<1>1. IInv => ThrowsOnlyBelow
  <2> SUFFICES ASSUME IInv, phase = "thrown"
      PROVE  width + (IF prec = Unset THEN 0 ELSE prec) < -Slack
    BY DEF ThrowsOnlyBelow
  <2>1. ~(Sum(width, prec) >= -Slack) /\ Sum(width, prec) \in Int
    BY RoomFacts DEF IInv, FieldInv
  <2> QED BY <2>1, SizeFacts DEF Sum
<1> QED BY Invariance, <1>1, PTL

----------------------------------------------------------------------------
(* The steps are C's, or leave what C sees as it is.                       *)

\* What %n stores is an int.
Countable == phase = "conv" /\ d.conv = "n" => size < IntSize

\* The arguments C takes for a directive are those that have been read.
LEMMA SameArguments ==
  ASSUME IInv, phase = "conv"
  PROVE  /\ result = -1 /\ p <= Len(call.items) /\ C!Item = d
         /\ va - Taken = First(call, p) /\ va = First(call, p) + C!Stars(d) /\ va \in Nat
         /\ First(call, p) \in Nat
         /\ C!WidthOf(d) = width /\ C!PrecOf(d) = prec
         /\ C!Converted(d) = ValueArg(call, p)
<1>1. /\ fmt = call.items /\ d = call.items[p] /\ First(call, p) \in Nat
      /\ width = WidthArg(call, p) /\ prec = PrecArg(call, p)
      /\ p <= Len(call.items) /\ va = First(call, p) + C!Stars(d)
      /\ prec = Unset \/ prec \in 0 .. (IntSize \div 2) - 1
  BY LookedAt
<1>2. Taken = C!Stars(d) /\ C!Stars(d) \in 0 .. 2
  BY StarsFacts DEF Taken
<1>3. va - Taken = First(call, p) /\ va \in Nat
  BY <1>1, <1>2
<1>4. C!Item = d
  BY <1>1 DEF C!Item
<1>5. C!WidthOf(d) = width
  BY <1>1, <1>3 DEF C!WidthOf, WidthArg
<1>6. C!PrecOf(d) = prec
  <2>1. prec # Unset => ~(prec < 0)
    <3>1. IntSize \div 2 \in Nat
      BY SizeFacts, HalfFacts
    <3> QED BY <1>1, <3>1
  <2>2. prec = IF d.prec = Star THEN call.args[First(call, p) + C!Stars(d)] ELSE d.prec
    BY <1>1 DEF PrecArg
  <2> QED BY <1>3, <2>1, <2>2 DEF C!PrecOf
<1>7. C!Converted(d) = ValueArg(call, p)
  BY <1>1, <1>3 DEF C!Converted, ValueArg
<1>8. result = -1
  BY DEF IInv, TextInv
<1> QED BY <1>1, <1>3, <1>4, <1>5, <1>6, <1>7, <1>8

\* A finished directive: C's next item, and the arguments taken until then.
LEMMA ItemDone ==
  ASSUME IInv, phase = "conv", NEW slots \in {0, 1}, Next1(slots), NEW convs, d.conv \in convs
  PROVE  C!At(convs) /\ (va - Taken)' = (va - Taken) + C!Stars(d) + slots
<1>1. /\ p' = p + 1 /\ va' = va + slots /\ phase' = "scan"
      /\ UNCHANGED <<call, x, stack, fmt, result, kept>>
  BY DEF Next1, Same
<1>2. C!At(convs)
  BY <1>1, SameArguments DEF C!At
<1>3. Taken' = 0
  BY <1>1 DEF Taken
<1>4. (va - Taken)' = va + slots
  BY <1>1, <1>3, SameArguments
<1>5. va - Taken = First(call, p) /\ va = First(call, p) + C!Stars(d) /\ First(call, p) \in Nat
  BY SameArguments
<1> QED BY <1>2, <1>4, <1>5

\* A piece is C's,
LEMMA PrintingRefines ==
  IInv /\ (Integer \/ Char \/ Double \/ String \/ Pointer) => C!Convert
<1> SUFFICES ASSUME IInv, Integer \/ Char \/ Double \/ String \/ Pointer PROVE C!Convert
  OBVIOUS
<1>1. PrintsPiece(ValueArg(call, p))
  BY PrintingSteps
<1>2. phase = "conv" /\ d.conv \in C!Prints /\ Next1(1) /\ UNCHANGED stored
  BY <1>1 DEF PrintsPiece, Converting
<1>3. C!At(C!Prints) /\ (va - Taken)' = (va - Taken) + C!Stars(d) + 1
  BY <1>2, ItemDone
<1>4. /\ C!Item = d /\ C!WidthOf(d) = width /\ C!PrecOf(d) = prec
      /\ C!Converted(d) = ValueArg(call, p)
  BY <1>2, SameArguments
<1>5. out' = Append(out, C!Piece(d, width, prec, ValueArg(call, p)))
      /\ size' = size + C!Chars(C!Piece(d, width, prec, ValueArg(call, p)))
  BY <1>1 DEF PrintsPiece, Piece
<1> QED BY <1>2, <1>3, <1>4, <1>5 DEF C!Convert, C!Gets

\* and the count,
LEMMA CountOutRefines == IInv /\ Countable /\ CountOut => C!Count
<1> SUFFICES ASSUME IInv, Countable, CountOut PROVE C!Count
  OBVIOUS
<1>1. phase = "conv" /\ d.conv = "n" /\ Next1(1) /\ UNCHANGED <<out, size>>
  BY DEF CountOut, Converting
<1>2. C!At({"n"}) /\ (va - Taken)' = (va - Taken) + C!Stars(d) + 1
  BY <1>1, ItemDone
<1>3. C!Item = d /\ C!Converted(d) = ValueArg(call, p)
  BY <1>1, SameArguments
<1>4. Raw = ValueArg(call, p)
  BY <1>1, ValueRead DEF NumberOf
<1>5. size % IntSize = size
  <2>1. size \in 0 .. IntSize - 1
    BY <1>1, SizeFacts DEF Countable, IInv, TextInv
  <2> QED BY <2>1, SizeFacts, RestSmall
<1>6. stored' = Append(stored, [to |-> ValueArg(call, p), n |-> size])
  BY <1>4, <1>5 DEF CountOut
<1> QED BY <1>1, <1>2, <1>3, <1>6 DEF C!Count

\* a directive that is none,
LEMMA UnknownRefines == IInv /\ Unknown => C!Unknown
<1> SUFFICES ASSUME IInv, Unknown PROVE C!Unknown
  OBVIOUS
<1>1. /\ phase = "conv" /\ d.conv \in {"?", "end"} /\ Next1(0) /\ UNCHANGED stored
      /\ out' = Append(out, C!Verbatim(d)) /\ size' = size + d.raw
  BY DEF Unknown, Converting
<1>2. C!At({"?", "end"}) /\ (va - Taken)' = (va - Taken) + C!Stars(d) + 0
  BY <1>1, ItemDone
<1>3. C!Item = d /\ C!Stars(d) \in Nat /\ va - Taken \in Nat
  BY <1>1, SameArguments, StarsFacts
<1> QED BY <1>1, <1>2, <1>3 DEF C!Unknown, C!Gets

\* a character,
LEMMA CharacterRefines == IInv /\ Character => C!Character
<1> SUFFICES ASSUME IInv, Character PROVE C!Character
  OBVIOUS
<1>1. /\ phase = "scan" /\ phase' = phase /\ fmt = call.items /\ result = -1 /\ p' = p + 1
      /\ UNCHANGED <<call, fmt, result, kept, va, stored>> /\ p <= Len(call.items)
      /\ out' = Append(out, C!Verbatim(d)) /\ size' = size + 1 /\ d.conv \in C!Literal
  BY DEF IInv, ReadInv, TextInv, Character, Scanning, Same
<1>2. C!Item = d /\ Taken' = 0 /\ Taken = 0
  BY <1>1 DEF C!Item, d, Taken
<1> QED BY <1>1, <1>2 DEF C!Character, C!At, C!Gets

\* and what is returned.
LEMMA ReturnRefines == IInv /\ Return => C!Return
<1> SUFFICES ASSUME IInv, Return PROVE C!Return
  OBVIOUS
<1>1. /\ phase = "scan" /\ phase' = "returned" /\ fmt = call.items /\ result = -1
      /\ UNCHANGED <<call, p, va, out, size, stored>> /\ p > Len(call.items) /\ result' = size
  BY DEF IInv, ReadInv, TextInv, Return
<1>2. Taken' = 0 /\ Taken = 0
  BY <1>1 DEF Taken
<1>3. call.fn \in C!Bounded => x[2] = call.n
  BY SizeRegister DEF IInv, ReadInv
<1>4. kept' = IF call.fn \notin C!Bounded THEN size
              ELSE IF call.n = 0 THEN 0 ELSE C!Min({call.n - 1, size})
  BY <1>3, LibraryFacts DEF Return, Kept, C!Bounded
<1> QED BY <1>1, <1>2, <1>4 DEF C!Return

\* Entering, reading a field and giving up are not seen.
LEMMA UnseenSteps ==
  IInv /\ (Enter \/ Width \/ Precision \/ NoRoom \/ UNCHANGED vars) => UNCHANGED C!cVars
<1> SUFFICES ASSUME IInv, Enter \/ Width \/ Precision \/ NoRoom \/ UNCHANGED vars
    PROVE  UNCHANGED C!cVars
  OBVIOUS
<1>1. UNCHANGED <<call, p, out, size, stored, result, kept>>
  BY DEF Enter, Width, Precision, NoRoom, Same, vars
<1>2. va \in Nat /\ Taken \in Nat
  <2>1. Taken \in Nat
    BY StarsFacts DEF Taken
  <2> QED BY <2>1 DEF IInv, ReadInv
<1>3. (va - Taken)' = va - Taken
  <2>1. CASE Enter
    BY <2>1 DEF Enter, Taken
  <2>2. CASE Width
    <3>1. va' = va + Starred(d.width) /\ phase = "scan" /\ phase' = "prec" /\ d' = d
      BY <2>2 DEF Width, Field, Scanning, Same, d
    <3>2. Taken = 0 /\ Taken' = Starred(d.width)
      BY <3>1 DEF Taken
    <3> QED BY <1>2, <3>1, <3>2, StarsFacts
  <2>3. CASE Precision
    <3>1. va' = va + Starred(d.prec) /\ phase = "prec" /\ phase' = "conv" /\ d' = d
      BY <2>3 DEF Precision, Field, Same, d
    <3>2. Taken = Starred(d.width) /\ Taken' = Starred(d.width) + Starred(d.prec)
      BY <3>1 DEF Taken
    <3> QED BY <1>2, <3>1, <3>2, StarsFacts
  <2>4. CASE NoRoom
    BY <2>4 DEF NoRoom, Converting, Same, Taken, d
  <2>5. CASE UNCHANGED vars
    BY <2>5 DEF vars, Taken, d
  <2> QED BY <2>1, <2>2, <2>3, <2>4, <2>5
<1> QED BY <1>1, <1>3 DEF C!cVars

\* Every call that CallsAssumption admits is C's: the pieces, the counts, the result and what the guest's
\* buffer gets, as long as %n is not asked for more than an int can say.
THEOREM Refinement == Spec /\ []Countable => ImplementsPrintf
<1>1. Init => C!Start
  <2> SUFFICES ASSUME Init PROVE C!Start
    OBVIOUS
  <2>1. phase = "call" /\ va = 0
    BY DEF Init
  <2>2. Taken = 0
    BY <2>1 DEF Taken
  <2> QED BY <2>1, <2>2 DEF Init, C!Start
<1>2. IInv /\ Countable /\ [Next]_vars => [C!PrintfNext]_(C!cVars)
  BY PrintingRefines, CountOutRefines, UnknownRefines, CharacterRefines, ReturnRefines,
     UnseenSteps DEF Next, C!PrintfNext
<1> QED BY Invariance, <1>1, <1>2, PTL DEF Spec, ImplementsPrintf, C!PrintfSpec
=============================================================================
