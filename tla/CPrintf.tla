------------------------------- MODULE CPrintf -------------------------------
(***************************************************************************)
(* What C promises of a call of its formatted output: each directive takes *)
(* the next arguments, first those for its stars, and puts one piece of    *)
(* text behind the others; the number of characters is returned, and a     *)
(* bounded buffer gets as many of them as fit.                             *)
(*                                                                         *)
(* A format is a sequence of items: a character, or a directive            *)
(*   [conv, left, width, prec, len, raw], raw its length in the format.    *)
(* How a value is spelt is the library's own matter: a piece is the value  *)
(* with what its spelling depends on.                                      *)
(***************************************************************************)
EXTENDS Integers, Sequences, FiniteSetsExt

CONSTANTS
  Star,       \* a width or precision given by an argument
  Unset,      \* no precision
  Digits(_),  \* characters of an integer,
  Whole(_),   \* of the part of a double before the point,
  Length(_),  \* of the string at a pointer
  Fraction    \* digits after the point if no precision is given

VARIABLES
  call,    \* the call: function fn, format items, arguments args, buffer size n
  at,      \* the next item
  used,    \* arguments taken
  text,    \* the pieces so far,
  size,    \* their length
  stored,  \* what %n has stored
  result,  \* the value returned, or -1
  kept     \* characters the caller gets

cVars == <<call, at, used, text, size, stored, result, kept>>

Literal == {"text", "%"}
Prints  == {"d", "u", "c", "f", "s", "p"}
Bounded == {"snprintf", "__snprintf_chk"}

\* The characters of the format itself.
Verbatim(item) == [conv |-> "text", left |-> FALSE, width |-> 0, prec |-> Unset,
                   half |-> "", v |-> item]

\* A negative width is a flag and a width; short types (half) are cut by the
\* library, long ones are not.
Piece(d, w, pr, v) ==
  [conv |-> d.conv, left |-> d.left \/ w < 0, width |-> IF w < 0 THEN -w ELSE w,
   prec |-> pr, half |-> IF d.len \in {"h", "hh"} THEN d.len ELSE "", v |-> v]

AtLeast(n, pr) == IF pr = Unset THEN n ELSE Max({n, pr})
AtMost(n, pr)  == IF pr = Unset THEN n ELSE Min({n, pr})

Natural(pc) ==
  CASE pc.conv \in {"d", "u"} -> AtLeast(Digits(pc.v), pc.prec)
    [] pc.conv = "c" -> 1
    [] pc.conv = "f" -> Whole(pc.v) + 1 + (IF pc.prec = Unset THEN Fraction ELSE pc.prec)
    [] pc.conv = "s" -> AtMost(Length(pc.v), pc.prec)
    [] pc.conv = "p" -> 2 + Digits(pc.v)

Chars(pc) == Max({pc.width, Natural(pc)})

----------------------------------------------------------------------------

Start ==
  /\ at = 1 /\ used = 0 /\ text = <<>> /\ size = 0 /\ stored = <<>>
  /\ result = -1 /\ kept = 0

Item == call.items[at]
Stars(d) == (IF d.width = Star THEN 1 ELSE 0) + (IF d.prec = Star THEN 1 ELSE 0)

At(convs) ==
  /\ result = -1 /\ at <= Len(call.items) /\ Item.conv \in convs
  /\ at' = at + 1
  /\ UNCHANGED <<call, result, kept>>

Gets(piece, n) == text' = Append(text, piece) /\ size' = size + n

Character == At(Literal) /\ Gets(Verbatim(Item), 1) /\ UNCHANGED <<used, stored>>

\* The arguments of a directive, in the order they are taken.
WidthOf(d)     == IF d.width = Star THEN call.args[used + 1] ELSE d.width
PrecOf(d)      == LET pr == IF d.prec = Star THEN call.args[used + Stars(d)] ELSE d.prec
                  IN IF pr # Unset /\ pr < 0 THEN Unset ELSE pr
Converted(d)   == call.args[used + Stars(d) + 1]

Convert ==
  /\ At(Prints)
  /\ LET pc == Piece(Item, WidthOf(Item), PrecOf(Item), Converted(Item))
     IN Gets(pc, Chars(pc))
  /\ used' = used + Stars(Item) + 1 /\ UNCHANGED stored

Count ==
  /\ At({"n"})
  /\ stored' = Append(stored, [to |-> Converted(Item), n |-> size])
  /\ used' = used + Stars(Item) + 1 /\ UNCHANGED <<text, size>>

\* An unknown directive, or one the format ends in, stands for itself.
Unknown ==
  /\ At({"?", "end"}) /\ Gets(Verbatim(Item), Item.raw)
  /\ used' = used + Stars(Item) /\ UNCHANGED stored

Return ==
  /\ result = -1 /\ at > Len(call.items)
  /\ result' = size
  /\ kept' = IF call.fn \notin Bounded THEN size
             ELSE IF call.n = 0 THEN 0 ELSE Min({call.n - 1, size})
  /\ UNCHANGED <<call, at, used, text, size, stored>>

PrintfNext == Character \/ Convert \/ Count \/ Unknown \/ Return

PrintfSpec == Start /\ [][PrintfNext]_cVars
=============================================================================
