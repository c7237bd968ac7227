---------------------------- MODULE FormatGuest ----------------------------
(***************************************************************************)
(* format_guest and the host functions of the printf family that call it.  *)
(* The registers hold the named arguments, the guest's stack the variadic  *)
(* ones, one slot of eight bytes each; the upper half of a slot that holds *)
(* an int is whatever was there.  Formats, values and lengths are as in    *)
(* CPrintf.  Not among the calls are wide characters and strings, %n with  *)
(* a length, and pointers outside the window.                              *)
(***************************************************************************)
EXTENDS Integers, Sequences, FiniteSetsExt

CONSTANTS
  Calls,      \* the guest's calls; ints names their arguments that are ints
  First(_, _),\* of a call and an item: its arguments before that item
  Star, Unset, Digits(_), Whole(_), Length(_), Fraction,   \* as in CPrintf
  WordSize,   \* values of a register
  IntSize,    \* values of an int
  BufSize,    \* 256, the buffer's first size
  Slack,      \* 64, what is added to width and precision
  MaxAlloc,   \* the largest buffer there can be
  Junk        \* what may be in the upper half of an int's slot

ASSUME WordAssumption ==
  /\ WordSize \in Nat /\ IntSize \in Nat \ {0} /\ WordSize % IntSize = 0
  /\ BufSize \in Nat /\ Slack \in 1 .. BufSize - 1 /\ Fraction \in Nat
  /\ MaxAlloc \in BufSize .. WordSize - 1
  /\ IntSize + Slack <= MaxAlloc /\ MaxAlloc + IntSize <= WordSize
  /\ Junk \subseteq 0 .. (WordSize \div IntSize) - 1
  /\ Star \notin Int /\ Unset \notin Int /\ Star # Unset

VARIABLES
  call,      \* the guest's call, as C sees it
  x, stack,  \* its registers and variadic slots
  phase,     \* where the function is
  fmt, p,    \* the format and the next item in it
  va,        \* slots read
  width, prec,
  buf,       \* size of the buffer
  out, size, \* the text and its length
  stored, result, kept

vars == <<call, x, stack, phase, fmt, p, va, width, prec, buf, out, size, stored, result, kept>>

d == fmt[p]

Wide(item)  == item.len \in {"l", "ll", "j", "z", "t", "q", "L"}

\* A word read as a signed number, and an int in it.
Signed(w, n) == IF w >= n \div 2 THEN w - n ELSE w
Int32(w)     == Signed(w % IntSize, IntSize)

\* Slip: a slot is read for every field.
StarredAlways(field) == 1

Starred(field) == IF field = Star THEN 1 ELSE 0

\* Arguments read for the directive that is being looked at.
Taken == CASE phase = "prec" -> Starred(d.width)
           [] phase \in {"conv", "thrown"} -> Starred(d.width) + Starred(d.prec)
           [] OTHER          -> 0

C == INSTANCE CPrintf WITH at <- p, used <- va - Taken, text <- out

----------------------------------------------------------------------------
(* The call.                                                               *)

\* The prototypes, as the guest's compiler knows them.
Prototype ==
  [printf |-> <<"fmt">>, fprintf |-> <<"stream", "fmt">>,
   sprintf |-> <<"str", "fmt">>, snprintf |-> <<"str", "n", "fmt">>,
   __printf_chk |-> <<"flag", "fmt">>, __fprintf_chk |-> <<"stream", "flag", "fmt">>,
   __sprintf_chk |-> <<"str", "flag", "dstlen", "fmt">>,
   __snprintf_chk |-> <<"str", "n", "flag", "dstlen", "fmt">>]

Registers(c) ==
  [i \in DOMAIN Prototype[c.fn] |->
     CASE Prototype[c.fn][i] = "fmt" -> c.items
       [] Prototype[c.fn][i] = "n"   -> c.n
       [] OTHER                      -> <<>>]

\* An argument in its slot: ints have junk above them.
Slot(c, i, junk) ==
  IF i \in c.ints THEN (c.args[i] % IntSize) + IntSize * junk ELSE c.args[i] % WordSize

----------------------------------------------------------------------------
(* The calls a C program makes.                                            *)

SignedValues(n) == (n \div 2) - n .. (n \div 2) - 1

\* An argument of the type that a directive takes.
ValueFits(item, v) ==
  LET values == IF Wide(item) THEN WordSize ELSE IntSize
  IN CASE item.conv = "d" -> v \in SignedValues(values)
       [] item.conv = "u" -> v \in 0 .. values - 1
       [] item.conv = "c" -> v \in 0 .. IntSize - 1
       [] OTHER           -> v \in 0 .. WordSize - 1

\* Integers and the part of a double before the point are shorter than the
\* buffer, strings leave room in the memory, a pointer is as wide as it is;
\* behind a negative width so is all the text, if there is a buffer for it.
TextFits(item, w, pr, v) ==
  /\ item.conv \in {"d", "u", "p"} => Digits(v) \in 0 .. BufSize - 3
  /\ item.conv = "f" => (Whole(v) \in 0 .. Slack - 2 /\ Whole(v) + 1 + Fraction < BufSize)
  /\ item.conv = "s" => Length(v) \in 0 .. WordSize - MaxAlloc
  /\ item.conv = "p" => (w = 0 /\ pr = Unset /\ ~item.left)
  /\ item.conv \in C!Prints =>
       \/ w >= 0
       \/ w + (IF pr = Unset THEN 0 ELSE pr) < -Slack
       \/ C!Chars(C!Piece(item, w, pr, v)) < BufSize

\* A directive finds its arguments: first those for its stars, then its value.
Suits(c, i) ==
  LET item  == c.items[i]
      at    == First(c, i)
      stars == C!Stars(item)
      w     == IF item.width = Star THEN c.args[at + 1] ELSE item.width
      pr    == IF item.prec = Star THEN c.args[at + stars] ELSE item.prec
      reads == IF item.conv \in {"?", "end"} THEN 0 ELSE 1
  IN /\ item.conv \in C!Prints \cup {"n", "?", "end"} /\ item.raw \in Nat
     /\ w \in SignedValues(IntSize)
     /\ item.prec = Unset \/ pr \in 0 .. (IntSize \div 2) - 1
     /\ First(c, i + 1) = at + stars + reads /\ at + stars + reads <= Len(c.args)
     /\ \A j \in 1 .. stars : at + j \in c.ints
     /\ reads = 1 =>
          LET value == at + stars + 1 IN
          /\ ValueFits(item, c.args[value]) /\ TextFits(item, w, pr, c.args[value])
          /\ value \in c.ints <=> (item.conv \in {"d", "u", "c"} /\ ~Wide(item))

ASSUME CallsAssumption ==
  \A c \in Calls :
    /\ c.fn \in DOMAIN Prototype /\ c.n \in Nat
    /\ Len(c.items) \in Nat /\ DOMAIN c.items = 1 .. Len(c.items)
    /\ Len(c.args) \in Nat /\ DOMAIN c.args = 1 .. Len(c.args)
    /\ First(c, 1) = 0
    /\ \A i \in DOMAIN c.items :
         IF c.items[i].conv \in C!Literal THEN First(c, i + 1) = First(c, i) ELSE Suits(c, i)

----------------------------------------------------------------------------

Init ==
  /\ call \in Calls
  /\ x = Registers(call)
  /\ \E junk \in Junk : stack = [i \in DOMAIN call.args |-> Slot(call, i, junk)]
  /\ phase = "call" /\ fmt = <<>> /\ p = 1 /\ va = 0 /\ width = 0 /\ prec = 0
  /\ buf = BufSize /\ out = <<>> /\ size = 0 /\ stored = <<>> /\ result = -1 /\ kept = 0

\* The ARG that a host function passes on as the format.
FmtArg(fn) ==
  CASE fn = "printf" -> 0
    [] fn \in {"fprintf", "sprintf", "__printf_chk"} -> 1
    [] fn \in {"snprintf", "__fprintf_chk"} -> 2
    [] fn = "__sprintf_chk"  -> 3
    [] fn = "__snprintf_chk" -> 4

Enter ==
  /\ phase = "call"
  /\ fmt' = x[FmtArg(call.fn) + 1]
  /\ phase' = "scan"
  /\ UNCHANGED <<call, x, stack, p, va, width, prec, buf, out, size, stored, result, kept>>

----------------------------------------------------------------------------
(* The scan.                                                               *)

Scanning == phase = "scan" /\ p <= Len(fmt)

Same == UNCHANGED <<call, x, stack, fmt, result, kept>>

Character ==
  /\ Scanning /\ d.conv \in C!Literal
  /\ out' = Append(out, C!Verbatim(d)) /\ size' = size + 1 /\ p' = p + 1
  /\ Same /\ UNCHANGED <<phase, va, width, prec, buf, stored>>

\* A width or precision: from the format, or from the next slot.
Field(field, next) ==
  /\ next = IF field = Star THEN Int32(stack[va + 1]) ELSE field
  /\ va' = va + Starred(field)

Width ==
  /\ Scanning /\ d.conv \notin C!Literal
  /\ Field(d.width, width')
  /\ phase' = "prec"
  /\ Same /\ UNCHANGED <<p, prec, buf, out, size, stored>>

Precision ==
  /\ phase = "prec"
  /\ Field(d.prec, prec')
  /\ phase' = "conv"
  /\ Same /\ UNCHANGED <<p, width, buf, out, size, stored>>

----------------------------------------------------------------------------
(* The conversion.                                                         *)

Converting(convs) == phase = "conv" /\ d.conv \in convs

\* Slip: nothing is added to width and precision.
NeedBare == (width + (IF prec = Unset THEN 0 ELSE prec)) % WordSize

\* size_t need: a negative width counts as a very large one.
Need == (width + (IF prec = Unset THEN 0 ELSE prec) + Slack) % WordSize

\* The buffer for n characters more than that; resize throws what is too much.
Room(n) == Max({buf, Need + n})
Fits    == Need <= MaxAlloc

NoRoom ==
  /\ Converting(C!Prints \cup {"n", "?"}) /\ ~Fits
  /\ phase' = "thrown"
  /\ Same /\ UNCHANGED <<p, va, width, prec, buf, out, size, stored>>

Next1(slots) == /\ p' = p + 1 /\ va' = va + slots /\ phase' = "scan"
                /\ Same /\ UNCHANGED <<width, prec>>

\* snprintf into the buffer, then as much from it as snprintf says.  A text
\* that is longer than the buffer, or a spec no host can read, is no text.
Emit(pc, room) ==
  LET n == C!Chars(pc) IN
  /\ Fits
  /\ buf' = room
  /\ out' = Append(out, IF n < room /\ (prec = Unset \/ prec >= 0) THEN pc
                        ELSE [pc EXCEPT !.conv = "garbled"])
  /\ size' = size + n
  /\ Next1(1) /\ UNCHANGED stored

Piece(v) == C!Piece(d, width, prec, v)
Raw      == stack[va + 1]

\* The number in a slot.
Number(item, raw) ==
  IF Wide(item) THEN IF item.conv = "d" THEN Signed(raw, WordSize) ELSE raw
  ELSE IF item.conv = "d" THEN Int32(raw) ELSE raw % IntSize

Integer == Converting({"d", "u"}) /\ Emit(Piece(Number(d, Raw)), Room(0))
Char    == Converting({"c"}) /\ Emit(Piece(Raw % IntSize), Room(0))
Double  == Converting({"f"}) /\ Emit(Piece(Raw), Room(0))

\* Slip: the buffer is not made longer for the string.
NoRoomForString(v) == Room(0)

RoomForString(v) == Room(Length(v))

String  == Converting({"s"}) /\ Emit(Piece(Raw), RoomForString(Raw))

\* Width and precision are read, and not used.
Pointer ==
  /\ Converting({"p"})
  /\ Emit([Piece(Raw) EXCEPT !.width = 0, !.left = FALSE, !.prec = Unset], Room(0))

CountOut ==
  /\ Converting({"n"}) /\ Fits
  /\ stored' = Append(stored, [to |-> Raw, n |-> size % IntSize])
  /\ buf' = Room(0)
  /\ Next1(1) /\ UNCHANGED <<out, size>>

\* The directive itself; a format that ends in it is left before the resize.
Unknown ==
  /\ \/ Converting({"?"}) /\ Fits /\ buf' = Room(0)
     \/ Converting({"end"}) /\ buf' = buf
  /\ out' = Append(out, C!Verbatim(d)) /\ size' = size + d.raw
  /\ Next1(0) /\ UNCHANGED stored

----------------------------------------------------------------------------
(* What the host function does with the text.                              *)

Kept(n) == IF n = 0 THEN 0 ELSE Min({n - 1, size})

Return ==
  /\ phase = "scan" /\ p > Len(fmt)
  /\ result' = size
  /\ kept' = IF call.fn \in {"snprintf", "__snprintf_chk"} THEN Kept(x[2]) ELSE size
  /\ phase' = "returned"
  /\ UNCHANGED <<call, x, stack, fmt, p, va, width, prec, buf, out, size, stored>>

Next ==
  \/ Enter \/ Character \/ Width \/ Precision \/ NoRoom
  \/ Integer \/ Char \/ Double \/ String \/ Pointer \/ CountOut \/ Unknown
  \/ Return

Spec == Init /\ [][Next]_vars

----------------------------------------------------------------------------
(* Properties.                                                             *)

\* No slot is read that the guest has not passed, and the text is cut where it
\* is only if it is longer than the guest's buffer.
TypeOK ==
  /\ phase \in {"call", "scan", "prec", "conv", "returned", "thrown"}
  /\ p \in 1 .. Len(call.items) + 1 /\ va \in 0 .. Len(stack)
  /\ buf \in BufSize .. WordSize /\ size \in Nat
  /\ result \in {-1, size} /\ kept \in 0 .. size

\* The sum of width and precision can come out too large for a buffer only if
\* an argument makes it negative by more than Slack: the text of such a
\* directive is short, and the engine gives up on it (the resize of buf).
ThrowsOnlyBelow == 
  phase = "thrown" => width + (IF prec = Unset THEN 0 ELSE prec) < -Slack

\* The guest gets the text, the counts and the result that C promises: each
\* directive the arguments meant for it and of its type, each piece whole, in
\* its place, and as much of the text as its buffer has room for.
ImplementsPrintf == C!PrintfSpec
=============================================================================
